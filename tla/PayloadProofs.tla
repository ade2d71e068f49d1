----------------------------- MODULE PayloadProofs -----------------------------
(***************************************************************************)
(* What Exposition and Payload compute, for names, scrapes and rows of      *)
(* every length.  The functions of the two modules that go through a text    *)
(* are defined by recursion on the place in it; the first section has what   *)
(* such definitions need: a set of numbers has a least one, a function that   *)
(* is defined step by step exists, and two that take the same steps agree.   *)
(***************************************************************************)
EXTENDS Payload, FiniteSetTheorems, WellFoundedInduction, SequenceTheorems, TLAPS

\* A set of numbers that has a member has a least one: the intervals up to its
\* members are finite sets, and inclusion of finite sets is well-founded.
LEMMA LeastNumber ==
    ASSUME NEW T \in SUBSET Nat, NEW n \in T
    PROVE  \E m \in T : \A k \in T : m <= k
<1> DEFINE R == StrictSubsetOrdering(1..n)
           U == {S \in SUBSET (1..n) : \E k \in T : S = 1..k}
<1>1. IsWellFoundedOn(R, SUBSET (1..n))
  <2>1. IsFiniteSet(1..n)
    BY FS_Interval
  <2>2. FiniteSubsetsOf(1..n) = SUBSET (1..n)
    BY <2>1, FS_FiniteSubsetsOfFinite
  <2>3. IsWellFoundedOn(StrictSubsetOrdering(1..n), FiniteSubsetsOf(1..n))
    BY FS_StrictSubsetOrderingWellFounded
  <2> QED BY <2>2, <2>3
<1>2. U \subseteq SUBSET (1..n) /\ U # {}
  <2>1. 1..n \in U
    OBVIOUS
  <2> QED BY <2>1
<1>3. PICK S \in U : \A S2 \in U : ~(<<S2, S>> \in R)
  <2> HIDE DEF R, U
  <2> QED BY <1>1, <1>2, WFMin
<1>4. PICK m \in T : S = 1..m
  OBVIOUS
<1>5. ASSUME NEW k \in T, ~(m <= k) PROVE FALSE
  <2>1. k <= n /\ m \in Nat /\ k \in Nat /\ k < m /\ m <= n
    <3>1. m <= n
      <4>1. CASE m = 0
        BY <4>1
      <4>2. CASE m # 0
        <5>1. m \in 1..m
          BY <4>2
        <5>2. m \in 1..n
          BY <5>1, <1>4
        <5> QED BY <5>2
      <4> QED BY <4>1, <4>2
    <3> QED BY <1>5, <3>1
  <2>2. 1..k \in U
    BY <2>1
  <2>3. 1..k \subseteq S /\ 1..k # S
    <3>1. m \in 1..m /\ m \notin 1..k
      BY <2>1
    <3> QED BY <3>1, <2>1, <1>4
  <2>4. <<1..k, S>> \in R
    BY <2>3, <2>2 DEF StrictSubsetOrdering
  <2> QED BY <2>2, <2>4, <1>3
<1>6. QED
  BY <1>5

\* Two functions that start alike and step alike agree.
LEMMA Agree ==
    ASSUME NEW n \in Nat, NEW p, NEW q, p[0] = q[0],
           \A i \in 1..n : p[i - 1] = q[i - 1] => p[i] = q[i]
    PROVE  p[n] = q[n]
<1> DEFINE T == {i \in 0..n : p[i] # q[i]}
<1>1. ASSUME NEW j \in T PROVE FALSE
  <2>1. PICK m \in T : \A i \in T : m <= i
    <3>1. T \in SUBSET Nat
      OBVIOUS
    <3> HIDE DEF T
    <3> QED BY <3>1, <1>1, LeastNumber
  <2>2. m \in 1..n /\ m - 1 \in 0..n /\ m - 1 \notin T
    <3>1. m \in 0..n /\ m # 0
      OBVIOUS
    <3> HIDE DEF T
    <3> QED BY <2>1, <3>1
  <2> QED BY <2>2
<1>2. n \notin T
  BY <1>1
<1> QED BY <1>2

\* What holds at the start and goes through each step holds at the end.
LEMMA Along ==
    ASSUME NEW n \in Nat, NEW I, 0 \in I, \A i \in 1..n : i - 1 \in I => i \in I
    PROVE  n \in I
<1> DEFINE T == {i \in 0..n : i \notin I}
<1>1. ASSUME NEW j \in T PROVE FALSE
  <2>1. PICK m \in T : \A i \in T : m <= i
    <3>1. T \in SUBSET Nat
      OBVIOUS
    <3> HIDE DEF T
    <3> QED BY <3>1, <1>1, LeastNumber
  <2>2. m \in 1..n /\ m - 1 \in 0..n /\ m - 1 \notin T
    <3>1. m \in 0..n /\ m # 0
      OBVIOUS
    <3> HIDE DEF T
    <3> QED BY <2>1, <3>1
  <2> QED BY <2>2
<1>2. n \notin T
  BY <1>1
<1> QED BY <1>2

\* A start and a step in S make a function.
Follows(f, S, n, base, step) ==
    /\ f \in [0..n -> S]
    /\ f[0] = base
    /\ \A i \in 1..n : f[i] = step[<<f[i - 1], i>>]

LEMMA Recursion ==
    ASSUME NEW S, NEW n \in Nat, NEW base \in S, NEW step \in [S \X (1..n) -> S]
    PROVE  \E f : Follows(f, S, n, base, step)
<1> DEFINE Good(k) == \E f : Follows(f, S, k, base, step)
           I == {k \in 0..n : Good(k)}
<1>1. 0 \in I
  <2> DEFINE g == [i \in 0..0 |-> base]
  <2>1. g \in [0..0 -> S] /\ g[0] = base /\ 1..0 = {}
    OBVIOUS
  <2> HIDE DEF g
  <2>2. Good(0)
    BY <2>1 DEF Follows
  <2> QED BY <2>2
<1>2. ASSUME NEW k \in 1..n, k - 1 \in I PROVE k \in I
  <2>1. PICK f \in [0..(k - 1) -> S] : f[0] = base /\ \A i \in 1..(k - 1) : f[i] = step[<<f[i - 1], i>>]
    BY <1>2 DEF Follows
  <2> DEFINE g == [i \in 0..k |-> IF i = k THEN step[<<f[k - 1], k>>] ELSE f[i]]
  <2>2. step[<<f[k - 1], k>>] \in S
    <3>1. f[k - 1] \in S
      BY <2>1
    <3> QED BY <3>1
  <2>3. g \in [0..k -> S]
    BY <2>1, <2>2
  <2>4. g[0] = base
    BY <2>1
  <2>5. \A i \in 1..k : g[i] = step[<<g[i - 1], i>>]
    <3>1. \A i \in 1..k : i - 1 \in 0..(k - 1) /\ g[i - 1] = f[i - 1]
      OBVIOUS
    <3>2. \A i \in 1..(k - 1) : g[i] = f[i]
      OBVIOUS
    <3>3. g[k] = step[<<f[k - 1], k>>]
      OBVIOUS
    <3>4. \A i \in 1..k : i = k \/ i \in 1..(k - 1)
      OBVIOUS
    <3> HIDE DEF g
    <3>5. \A i \in 1..(k - 1) : f[i] = step[<<f[i - 1], i>>]
      BY <2>1
    <3> QED BY <3>1, <3>2, <3>3, <3>4, <3>5
  <2> HIDE DEF g
  <2>6. Follows(g, S, k, base, step)
    BY <2>3, <2>4, <2>5 DEF Follows
  <2> QED BY <2>6
<1> HIDE DEF I
<1>3. n \in I
  BY <1>1, <1>2, Along
<1> QED BY <1>3 DEF I

\* What the empty sequence has and one more element keeps, every sequence has.
LEMMA Sequences ==
    ASSUME NEW S, NEW I, <<>> \in I,
           \A s \in Seq(S), e \in S : s \in I => Append(s, e) \in I
    PROVE  Seq(S) \subseteq I
<1> DEFINE T == {n \in Nat : \E s \in Seq(S) : s \notin I /\ Len(s) = n}
<1>1. ASSUME NEW n \in T PROVE FALSE
  <2>1. PICK m \in T : \A k \in T : m <= k
    <3>1. T \in SUBSET Nat
      OBVIOUS
    <3> HIDE DEF T
    <3> QED BY <3>1, <1>1, LeastNumber
  <2>2. PICK s \in Seq(S) : s \notin I /\ Len(s) = m
    OBVIOUS
  <2>3. PICK t \in Seq(S), e \in S : s = Append(t, e)
    BY <2>2, SequenceEmptyOrAppend
  <2>4. Len(t) \in Nat /\ Len(t) < m
    BY <2>2, <2>3
  <2>5. Len(t) \notin T
    <3>1. m \in Nat
      OBVIOUS
    <3> HIDE DEF T
    <3> QED BY <2>1, <2>4, <3>1
  <2>6. t \in I
    BY <2>4, <2>5
  <2> QED BY <2>2, <2>3, <2>6
<1>2. ASSUME NEW s \in Seq(S), s \notin I PROVE FALSE
  <2>1. Len(s) \in T
    BY <1>2
  <2> QED BY <1>1, <2>1
<1> QED BY <1>2

LEMMA MinIs ==
    ASSUME NEW T \in SUBSET Nat, NEW m \in T, \A k \in T : m <= k
    PROVE  Min(T) = m
<1>1. \E x \in T : \A y \in T : x =< y
  OBVIOUS
<1>2. Min(T) \in T /\ \A y \in T : Min(T) =< y
  BY <1>1 DEF Min
<1>3. Min(T) =< m /\ m <= Min(T) /\ m \in Nat /\ Min(T) \in Nat
  BY <1>2
<1> QED BY <1>3

LEMMA MaxIs ==
    ASSUME NEW T \in SUBSET Nat, NEW m \in T, \A k \in T : k <= m
    PROVE  Max(T) = m
<1>1. \E x \in T : \A y \in T : x >= y
  OBVIOUS
<1>2. Max(T) \in T /\ \A y \in T : Max(T) >= y
  BY <1>1 DEF Max
<1>3. Max(T) >= m /\ Max(T) <= m /\ m \in Nat /\ Max(T) \in Nat
  BY <1>2
<1> QED BY <1>3

\* Places in a sequence have a first and a last one.
LEMMA PlacesBounded ==
    ASSUME NEW n \in Nat, NEW T \in SUBSET (1..n), T # {}
    PROVE  /\ Min(T) \in T /\ \A i \in T : Min(T) <= i
           /\ Max(T) \in T /\ \A i \in T : i <= Max(T)
<1>1. PICK m \in T : \A k \in T : m <= k
  <2>1. T \in SUBSET Nat
    OBVIOUS
  <2> QED BY <2>1, LeastNumber
<1> DEFINE U == {n - i : i \in T}
<1>2. PICK u \in U : \A k \in U : u <= k
  <2>1. U \in SUBSET Nat /\ n - m \in U
    OBVIOUS
  <2> HIDE DEF U
  <2> QED BY <2>1, LeastNumber
<1>3. PICK x \in T : u = n - x
  OBVIOUS
<1>4. \A i \in T : i <= x
  <2>1. \A i \in T : n - x <= n - i /\ i \in 1..n /\ x \in 1..n
    BY <1>2, <1>3
  <2> QED BY <2>1
<1>5. Min(T) = m
  BY <1>1, MinIs
<1>6. Max(T) = x
  BY <1>4, MaxIs
<1> QED BY <1>1, <1>4, <1>5, <1>6
-----------------------------------------------------------------------------
(***************************************************************************)
(* The recursive definitions of Exposition, by how they begin and how they   *)
(* go on, for any set Tok of tokens that has those with a meaning.           *)
(***************************************************************************)
Marks == {Space, Comma, Equals, Open, Close, Quote, Backslash, ""}

Pairs(Tok) == Tok \X Seq(Tok)

ParserStates(Tok) ==
    [out : SUBSET (Seq(Tok) \X Seq(Tok)), key : Seq(Tok), val : Seq(Tok),
     inVal : BOOLEAN, inQuotes : BOOLEAN, before : Tok]

LEMMA MarksAre ==
    ASSUME NEW Tok, Marks \subseteq Tok
    PROVE  /\ Space \in Tok /\ Comma \in Tok /\ Equals \in Tok /\ Open \in Tok /\ Close \in Tok
           /\ Quote \in Tok /\ Backslash \in Tok /\ "" \in Tok
BY DEF Marks

LEMMA EscapeType ==
    ASSUME NEW Tok, Marks \subseteq Tok, NEW c \in Tok
    PROVE  Escape(c) \in Seq(Tok)
<1>1. <<c>> \in Seq(Tok)
  OBVIOUS
<1>2. <<Backslash, c>> \in Seq(Tok)
  <2>1. Backslash \in Tok
    BY MarksAre
  <2> QED BY <2>1
<1> QED BY <1>1, <1>2 DEF Escape

LEMMA EscapedSteps ==
    ASSUME NEW Tok, Marks \subseteq Tok, NEW v \in Seq(Tok)
    PROVE  \E f \in [0..Len(v) -> Seq(Tok)] :
              /\ f[0] = <<>>
              /\ \A i \in 1..Len(v) : f[i] = f[i - 1] \o Escape(v[i])
              /\ Escaped(v) = f[Len(v)]
<1> DEFINE n == Len(v)
           S == Seq(Tok)
           base == <<>>
           G(x, i) == x \o Escape(v[i])
           Def(f) == f = [i \in 0..n |-> IF i = 0 THEN base ELSE G(f[i - 1], i)]
           t == CHOOSE g : Def(g)
<1>1. n \in Nat /\ \A i \in 1..n : v[i] \in Tok
  OBVIOUS
<1>2. base \in S
  OBVIOUS
<1>3. \A x \in S, i \in 1..n : G(x, i) \in S
  BY <1>1, EscapeType
<1>4. Escaped(v) = t[n]
  BY DEF Escaped
<1> HIDE DEF n, S, base, G
<1> DEFINE step == [z \in S \X (1..n) |-> G(z[1], z[2])]
<1>5. step \in [S \X (1..n) -> S]
  BY <1>3
<1>6. PICK f : Follows(f, S, n, base, step)
  <2> HIDE DEF step
  <2> QED BY <1>1, <1>2, <1>5, Recursion
<1>7. \A i \in 1..n : f[i] = G(f[i - 1], i)
  <2> SUFFICES ASSUME NEW i \in 1..n PROVE f[i] = G(f[i - 1], i)
    OBVIOUS
  <2>1. i - 1 \in 0..n
    BY <1>1
  <2>2. f[i - 1] \in S /\ f[i] = step[<<f[i - 1], i>>]
    BY <1>6, <2>1 DEF Follows
  <2>3. \A z \in S \X (1..n) : step[z] = G(z[1], z[2])
    OBVIOUS
  <2> HIDE DEF step
  <2> QED BY <2>2, <2>3
<1> HIDE DEF step
<1>8. Def(f)
  <2>1. \A i \in 0..n : f[i] = IF i = 0 THEN base ELSE G(f[i - 1], i)
    BY <1>1, <1>6, <1>7 DEF Follows
  <2>2. f \in [0..n -> S]
    BY <1>6 DEF Follows
  <2> QED BY <2>1, <2>2
<1>9. Def(t)
  <2> HIDE DEF Def
  <2> QED BY <1>8
<1> HIDE DEF t
<1>10. t[0] = base /\ \A i \in 1..n : t[i] = G(t[i - 1], i)
  BY <1>1, <1>9
<1>11. t[n] = f[n]
  <2>1. t[0] = f[0] /\ \A i \in 1..n : t[i - 1] = f[i - 1] => t[i] = f[i]
    BY <1>6, <1>7, <1>10 DEF Follows
  <2> QED BY <1>1, <2>1, Agree
<1>12. f \in [0..n -> S] /\ f[0] = base /\ (\A i \in 1..n : f[i] = G(f[i - 1], i)) /\ Escaped(v) = f[n]
  BY <1>4, <1>6, <1>7, <1>11 DEF Follows
<1> QED BY <1>12 DEF n, S, base, G

LEMMA EscapedEmpty == Escaped(<<>>) = <<>>
<1> DEFINE Tok == Marks
<1>1. <<>> \in Seq(Tok) /\ Len(<<>>) = 0
  OBVIOUS
<1> HIDE DEF Tok
<1>2. Marks \subseteq Tok
  BY DEF Tok
<1> DEFINE none == <<>>
<1>3. none \in Seq(Tok) /\ Len(none) = 0
  BY <1>1
<1> HIDE DEF none
<1>4. PICK f \in [0..Len(none) -> Seq(Tok)] :
              /\ f[0] = <<>>
              /\ \A i \in 1..Len(none) : f[i] = f[i - 1] \o Escape(none[i])
              /\ Escaped(none) = f[Len(none)]
  BY <1>2, <1>3, EscapedSteps
<1> QED BY <1>3, <1>4 DEF none

LEMMA EscapedAppend ==
    ASSUME NEW Tok, Marks \subseteq Tok, NEW v \in Seq(Tok), NEW c \in Tok
    PROVE  /\ Escaped(Append(v, c)) = Escaped(v) \o Escape(c)
           /\ Escaped(v) \in Seq(Tok)
<1> DEFINE more == Append(v, c)
           n == Len(v)
           k == Len(more)
           S == Seq(Tok)
           G(x, e, i) == x \o Escape(e)
<1>1. /\ more \in Seq(Tok) /\ k = n + 1 /\ n \in Nat
      /\ more[n + 1] = c /\ \A i \in 1..n : more[i] = v[i]
  OBVIOUS
<1>2. PICK f \in [0..n -> S] :
              /\ f[0] = <<>>
              /\ \A i \in 1..n : f[i] = G(f[i - 1], v[i], i)
              /\ Escaped(v) = f[n]
  BY EscapedSteps
<1>3. PICK g \in [0..k -> S] :
              /\ g[0] = <<>>
              /\ \A i \in 1..k : g[i] = G(g[i - 1], more[i], i)
              /\ Escaped(more) = g[k]
  <2> HIDE DEF more
  <2> QED BY <1>1, EscapedSteps
<1> HIDE DEF more, n, k, S, G
<1>4. \A i \in 1..n : f[i - 1] = g[i - 1] => f[i] = g[i]
  <2>1. \A i \in 1..n : i \in 1..k /\ more[i] = v[i]
    BY <1>1
  <2> QED BY <2>1, <1>2, <1>3
<1>5. f[n] = g[n]
  <2>1. n \in Nat /\ f[0] = g[0]
    BY <1>1, <1>2, <1>3
  <2> QED BY <1>4, <2>1, Agree
<1>6. g[k] = G(g[n], c, n + 1)
  <2>1. k \in 1..k /\ k - 1 = n
    BY <1>1
  <2> QED BY <1>1, <1>3, <2>1
<1>7. f[n] \in S
  BY <1>1, <1>2
<1>8. Escaped(more) = G(Escaped(v), c, n + 1) /\ Escaped(v) \in S
  BY <1>2, <1>3, <1>5, <1>6, <1>7
<1> QED BY <1>8 DEF more, n, S, G

LEMMA EscapedWord ==
    ASSUME NEW Tok, Marks \subseteq Tok, NEW w \in Tok, w \notin Marks
    PROVE  Escaped(<<w>>) = <<w>>
<1>1. Append(<<>>, w) = <<w>> /\ <<>> \in Seq(Tok) /\ <<>> \o <<w>> = <<w>>
  OBVIOUS
<1>2. Escape(w) = <<w>>
  BY DEF Escape, Marks
<1> QED BY <1>1, <1>2, EscapedEmpty, EscapedAppend

LEMMA RenderLabelType ==
    ASSUME NEW Tok, Marks \subseteq Tok, NEW pair \in Pairs(Tok)
    PROVE  RenderLabel(pair) \in Seq(Tok)
<1>1. Escaped(pair[2]) \in Seq(Tok)
  <2>1. pair[2] \in Seq(Tok) /\ Quote \in Tok
    BY DEF Pairs, Marks
  <2> QED BY <2>1, EscapedAppend
<1>2. <<pair[1], Equals, Quote>> \in Seq(Tok) /\ <<Quote>> \in Seq(Tok)
  <2>1. pair[1] \in Tok /\ Equals \in Tok /\ Quote \in Tok
    BY MarksAre DEF Pairs
  <2> QED BY <2>1
<1> QED BY <1>1, <1>2 DEF RenderLabel

LEMMA RenderStepType ==
    ASSUME NEW Tok, Marks \subseteq Tok, NEW pair \in Pairs(Tok), NEW x \in Seq(Tok), NEW i
    PROVE  (IF i = 1 THEN <<>> ELSE x \o <<Comma>>) \o RenderLabel(pair) \in Seq(Tok)
<1>1. RenderLabel(pair) \in Seq(Tok)
  BY RenderLabelType
<1>2. <<Comma>> \in Seq(Tok)
  <2>1. Comma \in Tok
    BY MarksAre
  <2> QED BY ONLY <2>1
<1> DEFINE comma == <<Comma>>
<1> HIDE DEF comma
<1>3. x \o <<Comma>> \in Seq(Tok) /\ <<>> \in Seq(Tok)
  <2>1. comma \in Seq(Tok)
    BY <1>2 DEF comma
  <2>2. x \o comma \in Seq(Tok)
    BY <2>1
  <2> QED BY <2>2 DEF comma
<1> DEFINE before == IF i = 1 THEN <<>> ELSE x \o <<Comma>>
<1>4. before \in Seq(Tok)
  BY <1>3
<1> HIDE DEF before
<1>5. before \o RenderLabel(pair) \in Seq(Tok)
  BY <1>1, <1>4
<1> QED BY <1>5 DEF before

LEMMA RenderLabelsSteps ==
    ASSUME NEW Tok, Marks \subseteq Tok, NEW labels \in Seq(Pairs(Tok))
    PROVE  \E f \in [0..Len(labels) -> Seq(Tok)] :
              /\ f[0] = <<>>
              /\ \A i \in 1..Len(labels) : f[i] = (IF i = 1 THEN <<>> ELSE f[i - 1] \o <<Comma>>) \o RenderLabel(labels[i])
              /\ RenderLabels(labels) = f[Len(labels)]
<1> DEFINE n == Len(labels)
           S == Seq(Tok)
           base == <<>>
           G(x, i) == (IF i = 1 THEN <<>> ELSE x \o <<Comma>>) \o RenderLabel(labels[i])
           Def(f) == f = [i \in 0..n |-> IF i = 0 THEN base ELSE G(f[i - 1], i)]
           t == CHOOSE g : Def(g)
<1>1. n \in Nat /\ \A i \in 1..n : labels[i] \in Pairs(Tok)
  OBVIOUS
<1>2. base \in S
  OBVIOUS
<1>3. \A x \in S, i \in 1..n : G(x, i) \in S
  BY <1>1, RenderStepType
<1>4. RenderLabels(labels) = t[n]
  BY DEF RenderLabels
<1> HIDE DEF n, S, base, G
<1> DEFINE step == [z \in S \X (1..n) |-> G(z[1], z[2])]
<1>5. step \in [S \X (1..n) -> S]
  BY <1>3
<1>6. PICK f : Follows(f, S, n, base, step)
  <2> HIDE DEF step
  <2> QED BY <1>1, <1>2, <1>5, Recursion
<1>7. \A i \in 1..n : f[i] = G(f[i - 1], i)
  <2> SUFFICES ASSUME NEW i \in 1..n PROVE f[i] = G(f[i - 1], i)
    OBVIOUS
  <2>1. i - 1 \in 0..n
    BY <1>1
  <2>2. f[i - 1] \in S /\ f[i] = step[<<f[i - 1], i>>]
    BY <1>6, <2>1 DEF Follows
  <2>3. \A z \in S \X (1..n) : step[z] = G(z[1], z[2])
    OBVIOUS
  <2> HIDE DEF step
  <2> QED BY <2>2, <2>3
<1> HIDE DEF step
<1>8. Def(f)
  <2>1. \A i \in 0..n : f[i] = IF i = 0 THEN base ELSE G(f[i - 1], i)
    BY <1>1, <1>6, <1>7 DEF Follows
  <2>2. f \in [0..n -> S]
    BY <1>6 DEF Follows
  <2> QED BY <2>1, <2>2
<1>9. Def(t)
  <2> HIDE DEF Def
  <2> QED BY <1>8
<1> HIDE DEF t
<1>10. t[0] = base /\ \A i \in 1..n : t[i] = G(t[i - 1], i)
  BY <1>1, <1>9
<1>11. t[n] = f[n]
  <2>1. t[0] = f[0] /\ \A i \in 1..n : t[i - 1] = f[i - 1] => t[i] = f[i]
    BY <1>6, <1>7, <1>10 DEF Follows
  <2> QED BY <1>1, <2>1, Agree
<1>12. f \in [0..n -> S] /\ f[0] = base /\ (\A i \in 1..n : f[i] = G(f[i - 1], i)) /\ RenderLabels(labels) = f[n]
  BY <1>4, <1>6, <1>7, <1>11 DEF Follows
<1> QED BY <1>12 DEF n, S, base, G

LEMMA RenderLabelsEmpty == RenderLabels(<<>>) = <<>>
<1> DEFINE Tok == Marks
<1>1. <<>> \in Seq(Pairs(Tok)) /\ Len(<<>>) = 0
  OBVIOUS
<1> HIDE DEF Tok
<1>2. Marks \subseteq Tok
  BY DEF Tok
<1> DEFINE none == <<>>
<1>3. none \in Seq(Pairs(Tok)) /\ Len(none) = 0
  BY <1>1
<1> HIDE DEF none
<1>4. PICK f \in [0..Len(none) -> Seq(Tok)] :
              /\ f[0] = <<>>
              /\ \A i \in 1..Len(none) : f[i] = (IF i = 1 THEN <<>> ELSE f[i - 1] \o <<Comma>>) \o RenderLabel(none[i])
              /\ RenderLabels(none) = f[Len(none)]
  BY <1>2, <1>3, RenderLabelsSteps
<1> QED BY <1>3, <1>4 DEF none

LEMMA RenderLabelsAppend ==
    ASSUME NEW Tok, Marks \subseteq Tok, NEW labels \in Seq(Pairs(Tok)), NEW pair \in Pairs(Tok)
    PROVE  /\ RenderLabels(Append(labels, pair)) = (IF Len(labels) + 1 = 1 THEN <<>> ELSE RenderLabels(labels) \o <<Comma>>) \o RenderLabel(pair)
           /\ RenderLabels(labels) \in Seq(Tok)
<1> DEFINE more == Append(labels, pair)
           n == Len(labels)
           k == Len(more)
           S == Seq(Tok)
           G(x, e, i) == (IF i = 1 THEN <<>> ELSE x \o <<Comma>>) \o RenderLabel(e)
<1>1. /\ more \in Seq(Pairs(Tok)) /\ k = n + 1 /\ n \in Nat
      /\ more[n + 1] = pair /\ \A i \in 1..n : more[i] = labels[i]
  OBVIOUS
<1>2. PICK f \in [0..n -> S] :
              /\ f[0] = <<>>
              /\ \A i \in 1..n : f[i] = G(f[i - 1], labels[i], i)
              /\ RenderLabels(labels) = f[n]
  BY RenderLabelsSteps
<1>3. PICK g \in [0..k -> S] :
              /\ g[0] = <<>>
              /\ \A i \in 1..k : g[i] = G(g[i - 1], more[i], i)
              /\ RenderLabels(more) = g[k]
  <2> HIDE DEF more
  <2> QED BY <1>1, RenderLabelsSteps
<1> HIDE DEF more, n, k, S, G
<1>4. \A i \in 1..n : f[i - 1] = g[i - 1] => f[i] = g[i]
  <2>1. \A i \in 1..n : i \in 1..k /\ more[i] = labels[i]
    BY <1>1
  <2> QED BY <2>1, <1>2, <1>3
<1>5. f[n] = g[n]
  <2>1. n \in Nat /\ f[0] = g[0]
    BY <1>1, <1>2, <1>3
  <2> QED BY <1>4, <2>1, Agree
<1>6. g[k] = G(g[n], pair, n + 1)
  <2>1. k \in 1..k /\ k - 1 = n
    BY <1>1
  <2> QED BY <1>1, <1>3, <2>1
<1>7. f[n] \in S
  BY <1>1, <1>2
<1>8. RenderLabels(more) = G(RenderLabels(labels), pair, n + 1) /\ RenderLabels(labels) \in S
  BY <1>2, <1>3, <1>5, <1>6, <1>7
<1> QED BY <1>8 DEF more, n, S, G

LEMMA TrimType ==
    ASSUME NEW Tok, NEW text \in Seq(Tok)
    PROVE  TrimSpace(text) \in Seq(Tok)
<1> DEFINE kept == {i \in DOMAIN text : text[i] # Space}
<1>1. CASE kept = {}
  BY <1>1 DEF TrimSpace
<1>2. CASE kept # {}
  <2>1. kept \in SUBSET (1..Len(text)) /\ Len(text) \in Nat
    OBVIOUS
  <2>2. Min(kept) \in 1..Len(text) /\ Max(kept) \in 1..Len(text)
    <3> HIDE DEF kept
    <3> QED BY <1>2, <2>1, PlacesBounded
  <2>3. TrimSpace(text) = SubSeq(text, Min(kept), Max(kept))
    BY <1>2 DEF TrimSpace
  <2> HIDE DEF kept
  <2>4. \A i \in Min(kept)..Max(kept) : text[i] \in Tok
    BY <2>2
  <2>5. Min(kept) \in Int /\ Max(kept) \in Int
    BY <2>2
  <2> QED BY <2>3, <2>4, <2>5, SubSeqProperties
<1> QED BY <1>1, <1>2

\* A text that begins and ends with something is its own trimming.
LEMMA TrimSame ==
    ASSUME NEW Tok, NEW text \in Seq(Tok), text # <<>>,
           text[1] # Space, text[Len(text)] # Space
    PROVE  TrimSpace(text) = text
<1> DEFINE kept == {i \in DOMAIN text : text[i] # Space}
<1>1. Len(text) \in Nat /\ Len(text) >= 1 /\ kept \in SUBSET Nat
  OBVIOUS
<1>2. 1 \in kept /\ Len(text) \in kept /\ \A i \in kept : 1 <= i /\ i <= Len(text)
  BY <1>1
<1>3. TrimSpace(text) = SubSeq(text, Min(kept), Max(kept))
  BY <1>2 DEF TrimSpace
<1> HIDE DEF kept
<1>4. Min(kept) = 1 /\ Max(kept) = Len(text)
  BY <1>1, <1>2, MinIs, MaxIs
<1> QED BY <1>3, <1>4, SubSeqFull

LEMMA StartType ==
    ASSUME NEW Tok, Marks \subseteq Tok
    PROVE  LabelStart \in ParserStates(Tok)
<1>1. {} \in SUBSET (Seq(Tok) \X Seq(Tok)) /\ <<>> \in Seq(Tok)
  OBVIOUS
<1>2. "" \in Tok
  BY MarksAre
<1> QED BY <1>1, <1>2 DEF LabelStart, ParserStates

\* What the end of a label does, field by field.
LEMMA FlushFields ==
    ASSUME NEW Tok, Marks \subseteq Tok, NEW p \in ParserStates(Tok)
    PROVE  /\ Flush(p) \in ParserStates(Tok)
           /\ Flush(p).key = <<>> /\ Flush(p).val = <<>> /\ ~Flush(p).inVal
           /\ (Flush(p).inQuotes <=> p.inQuotes)
           /\ Flush(p).out = IF TrimSpace(p.key) = <<>> THEN p.out
                             ELSE {l \in p.out : l[1] # TrimSpace(p.key)} \cup {<<TrimSpace(p.key), p.val>>}
<1> DEFINE k == TrimSpace(p.key)
           out == IF k = <<>> THEN p.out ELSE {l \in p.out : l[1] # k} \cup {<<k, p.val>>}
<1>1. k \in Seq(Tok)
  BY TrimType DEF ParserStates
<1>2. Flush(p) = [p EXCEPT !.out = out, !.key = <<>>, !.val = <<>>, !.inVal = FALSE]
  BY DEF Flush
<1> HIDE DEF k
<1>3. p.out \in SUBSET (Seq(Tok) \X Seq(Tok)) /\ p.val \in Seq(Tok) /\ <<>> \in Seq(Tok)
  BY DEF ParserStates
<1>4. out \in SUBSET (Seq(Tok) \X Seq(Tok))
  BY <1>1, <1>3
<1> HIDE DEF out
<1>5. Flush(p) \in ParserStates(Tok)
  BY <1>2, <1>3, <1>4 DEF ParserStates
<1>6. /\ Flush(p).out = out /\ Flush(p).key = <<>> /\ Flush(p).val = <<>>
      /\ ~Flush(p).inVal /\ (Flush(p).inQuotes <=> p.inQuotes)
  BY <1>2 DEF ParserStates
<1> QED BY <1>5, <1>6 DEF out, k

\* What a character does, field by field: a quote that nothing escapes, the
\* equals sign after a key, the comma after a value, any other.
Toggles(p, c) == c = Quote /\ p.before # Backslash
Assigns(p, c) == c = Equals /\ ~p.inQuotes /\ ~p.inVal
Separates(p, c) == c = Comma /\ ~p.inQuotes

LEMMA StepFields ==
    ASSUME NEW Tok, Marks \subseteq Tok, NEW p \in ParserStates(Tok), NEW c \in Tok
    PROVE  LET q == LabelStep(p, c)
           IN /\ q \in ParserStates(Tok)
              /\ q.before = c
              /\ Toggles(p, c) => /\ (q.inQuotes <=> ~p.inQuotes) /\ (q.inVal <=> p.inVal)
                                  /\ q.out = p.out /\ q.key = p.key /\ q.val = p.val
              /\ Assigns(p, c) => /\ (q.inQuotes <=> p.inQuotes) /\ q.inVal
                                  /\ q.out = p.out /\ q.key = p.key /\ q.val = p.val
              /\ Separates(p, c) => /\ (q.inQuotes <=> p.inQuotes) /\ ~q.inVal
                                    /\ q.out = Flush(p).out /\ q.key = <<>> /\ q.val = <<>>
              /\ ~Toggles(p, c) /\ ~Assigns(p, c) /\ ~Separates(p, c) =>
                    /\ (q.inQuotes <=> p.inQuotes) /\ (q.inVal <=> p.inVal) /\ q.out = p.out
                    /\ q.val = IF p.inVal THEN Append(p.val, c) ELSE p.val
                    /\ q.key = IF p.inVal THEN p.key ELSE Append(p.key, c)
<1> DEFINE next == CASE Toggles(p, c) -> [p EXCEPT !.inQuotes = ~@]
                     [] Assigns(p, c) -> [p EXCEPT !.inVal = TRUE]
                     [] Separates(p, c) -> Flush(p)
                     [] OTHER -> IF p.inVal THEN [p EXCEPT !.val = Append(@, c)]
                                            ELSE [p EXCEPT !.key = Append(@, c)]
<1>1. LabelStep(p, c) = [next EXCEPT !.before = c]
  BY DEF LabelStep, Toggles, Assigns, Separates
<1>2. ~(Toggles(p, c) /\ Assigns(p, c)) /\ ~(Toggles(p, c) /\ Separates(p, c)) /\ ~(Assigns(p, c) /\ Separates(p, c))
  BY DEF Toggles, Assigns, Separates, Quote, Equals, Comma
<1>3. CASE Toggles(p, c)
  <2>1. next = [p EXCEPT !.inQuotes = ~@]
    BY <1>3, <1>2
  <2> HIDE DEF next
  <2> QED BY <1>1, <1>2, <1>3, <2>1 DEF ParserStates
<1>4. CASE Assigns(p, c)
  <2>1. next = [p EXCEPT !.inVal = TRUE]
    BY <1>4, <1>2
  <2> HIDE DEF next
  <2> QED BY <1>1, <1>2, <1>4, <2>1 DEF ParserStates
<1>5. CASE Separates(p, c)
  <2>1. next = Flush(p)
    BY <1>5, <1>2
  <2>2. Flush(p) \in ParserStates(Tok)
    BY FlushFields
  <2> HIDE DEF next
  <2>3. [next EXCEPT !.before = c] \in ParserStates(Tok)
    BY <2>1, <2>2 DEF ParserStates
  <2>4. LET q == [next EXCEPT !.before = c]
        IN q.before = c /\ q.out = Flush(p).out /\ q.key = <<>> /\ q.val = <<>>
           /\ ~q.inVal /\ (q.inQuotes <=> p.inQuotes)
    <3>1. /\ Flush(p).key = <<>> /\ Flush(p).val = <<>> /\ ~Flush(p).inVal
          /\ (Flush(p).inQuotes <=> p.inQuotes)
      BY FlushFields
    <3> QED BY ONLY <2>1, <2>2, <3>1 DEF ParserStates
  <2> QED BY <1>1, <1>2, <1>5, <2>3, <2>4
<1>6. CASE ~Toggles(p, c) /\ ~Assigns(p, c) /\ ~Separates(p, c)
  <2>1. next = IF p.inVal THEN [p EXCEPT !.val = Append(@, c)] ELSE [p EXCEPT !.key = Append(@, c)]
    BY <1>6
  <2>2. p.val \in Seq(Tok) /\ p.key \in Seq(Tok) /\ Append(p.val, c) \in Seq(Tok) /\ Append(p.key, c) \in Seq(Tok)
    BY DEF ParserStates
  <2> HIDE DEF next
  <2>3. CASE p.inVal
    <3>1. next = [p EXCEPT !.val = Append(p.val, c)]
      BY <2>1, <2>3 DEF ParserStates
    <3> QED BY <1>1, <1>6, <2>2, <2>3, <3>1 DEF ParserStates
  <2>4. CASE ~p.inVal
    <3>1. next = [p EXCEPT !.key = Append(p.key, c)]
      BY <2>1, <2>4 DEF ParserStates
    <3> QED BY <1>1, <1>6, <2>2, <2>4, <3>1 DEF ParserStates
  <2> QED BY <2>3, <2>4
<1> QED BY <1>3, <1>4, <1>5, <1>6

LEMMA LabelsSteps ==
    ASSUME NEW Tok, Marks \subseteq Tok, NEW text \in Seq(Tok)
    PROVE  \E f \in [0..Len(text) -> ParserStates(Tok)] :
              /\ f[0] = LabelStart
              /\ \A i \in 1..Len(text) : f[i] = LabelStep(f[i - 1], text[i])
              /\ Labels(text) = f[Len(text)]
<1> DEFINE n == Len(text)
           S == ParserStates(Tok)
           base == LabelStart
           G(x, i) == LabelStep(x, text[i])
           Def(f) == f = [i \in 0..n |-> IF i = 0 THEN base ELSE G(f[i - 1], i)]
           t == CHOOSE g : Def(g)
<1>1. n \in Nat /\ \A i \in 1..n : text[i] \in Tok
  OBVIOUS
<1>2. base \in S
  BY StartType
<1>3. \A x \in S, i \in 1..n : G(x, i) \in S
  BY <1>1, StepFields
<1>4. Labels(text) = t[n]
  BY DEF Labels
<1> HIDE DEF n, S, base, G
<1> DEFINE step == [z \in S \X (1..n) |-> G(z[1], z[2])]
<1>5. step \in [S \X (1..n) -> S]
  BY <1>3
<1>6. PICK f : Follows(f, S, n, base, step)
  <2> HIDE DEF step
  <2> QED BY <1>1, <1>2, <1>5, Recursion
<1>7. \A i \in 1..n : f[i] = G(f[i - 1], i)
  <2> SUFFICES ASSUME NEW i \in 1..n PROVE f[i] = G(f[i - 1], i)
    OBVIOUS
  <2>1. i - 1 \in 0..n
    BY <1>1
  <2>2. f[i - 1] \in S /\ f[i] = step[<<f[i - 1], i>>]
    BY <1>6, <2>1 DEF Follows
  <2>3. \A z \in S \X (1..n) : step[z] = G(z[1], z[2])
    OBVIOUS
  <2> HIDE DEF step
  <2> QED BY <2>2, <2>3
<1> HIDE DEF step
<1>8. Def(f)
  <2>1. \A i \in 0..n : f[i] = IF i = 0 THEN base ELSE G(f[i - 1], i)
    BY <1>1, <1>6, <1>7 DEF Follows
  <2>2. f \in [0..n -> S]
    BY <1>6 DEF Follows
  <2> QED BY <2>1, <2>2
<1>9. Def(t)
  <2> HIDE DEF Def
  <2> QED BY <1>8
<1> HIDE DEF t
<1>10. t[0] = base /\ \A i \in 1..n : t[i] = G(t[i - 1], i)
  BY <1>1, <1>9
<1>11. t[n] = f[n]
  <2>1. t[0] = f[0] /\ \A i \in 1..n : t[i - 1] = f[i - 1] => t[i] = f[i]
    BY <1>6, <1>7, <1>10 DEF Follows
  <2> QED BY <1>1, <2>1, Agree
<1>12. f \in [0..n -> S] /\ f[0] = base /\ (\A i \in 1..n : f[i] = G(f[i - 1], i)) /\ Labels(text) = f[n]
  BY <1>4, <1>6, <1>7, <1>11 DEF Follows
<1> QED BY <1>12 DEF n, S, base, G

LEMMA LabelsEmpty == Labels(<<>>) = LabelStart
<1> DEFINE Tok == Marks
<1>1. <<>> \in Seq(Tok) /\ Len(<<>>) = 0
  OBVIOUS
<1> HIDE DEF Tok
<1>2. Marks \subseteq Tok
  BY DEF Tok
<1> DEFINE none == <<>>
<1>3. none \in Seq(Tok) /\ Len(none) = 0
  BY <1>1
<1> HIDE DEF none
<1>4. PICK f \in [0..Len(none) -> ParserStates(Tok)] :
              /\ f[0] = LabelStart
              /\ \A i \in 1..Len(none) : f[i] = LabelStep(f[i - 1], none[i])
              /\ Labels(none) = f[Len(none)]
  BY <1>2, <1>3, LabelsSteps
<1> QED BY <1>3, <1>4 DEF none

LEMMA LabelsAppend ==
    ASSUME NEW Tok, Marks \subseteq Tok, NEW text \in Seq(Tok), NEW c \in Tok
    PROVE  /\ Labels(Append(text, c)) = LabelStep(Labels(text), c)
           /\ Labels(text) \in ParserStates(Tok)
<1> DEFINE more == Append(text, c)
           n == Len(text)
           k == Len(more)
           S == ParserStates(Tok)
           G(x, e, i) == LabelStep(x, e)
<1>1. /\ more \in Seq(Tok) /\ k = n + 1 /\ n \in Nat
      /\ more[n + 1] = c /\ \A i \in 1..n : more[i] = text[i]
  OBVIOUS
<1>2. PICK f \in [0..n -> S] :
              /\ f[0] = LabelStart
              /\ \A i \in 1..n : f[i] = G(f[i - 1], text[i], i)
              /\ Labels(text) = f[n]
  BY LabelsSteps
<1>3. PICK g \in [0..k -> S] :
              /\ g[0] = LabelStart
              /\ \A i \in 1..k : g[i] = G(g[i - 1], more[i], i)
              /\ Labels(more) = g[k]
  <2> HIDE DEF more
  <2> QED BY <1>1, LabelsSteps
<1> HIDE DEF more, n, k, S, G
<1>4. \A i \in 1..n : f[i - 1] = g[i - 1] => f[i] = g[i]
  <2>1. \A i \in 1..n : i \in 1..k /\ more[i] = text[i]
    BY <1>1
  <2> QED BY <2>1, <1>2, <1>3
<1>5. f[n] = g[n]
  <2>1. n \in Nat /\ f[0] = g[0]
    BY <1>1, <1>2, <1>3
  <2> QED BY <1>4, <2>1, Agree
<1>6. g[k] = G(g[n], c, n + 1)
  <2>1. k \in 1..k /\ k - 1 = n
    BY <1>1
  <2> QED BY <1>1, <1>3, <2>1
<1>7. f[n] \in S
  BY <1>1, <1>2
<1>8. Labels(more) = G(Labels(text), c, n + 1) /\ Labels(text) \in S
  BY <1>2, <1>3, <1>5, <1>6, <1>7
<1> QED BY <1>8 DEF more, n, S, G

-----------------------------------------------------------------------------
(***************************************************************************)
(* parseLabels reads back what RenderLabels wrote: key by key, and through   *)
(* each value two characters for one that is escaped, one for any other.     *)
(***************************************************************************)
LEMMA AppendTwo ==
    ASSUME NEW S, NEW s \in Seq(S), NEW c \in S, NEW d \in S
    PROVE  s \o <<c, d>> = Append(Append(s, c), d) /\ Append(s, c) \in Seq(S)
OBVIOUS

LEMMA AppendThree ==
    ASSUME NEW S, NEW s \in Seq(S), NEW c \in S, NEW d \in S, NEW e \in S
    PROVE  /\ s \o <<c, d, e>> = Append(Append(Append(s, c), d), e)
           /\ Append(s, c) \in Seq(S) /\ Append(Append(s, c), d) \in Seq(S)
           /\ <<c, d, e>> \in Seq(S)
OBVIOUS

\* The reader is inside the quotes of a value.
InValue(p, out, key, val) ==
    p.out = out /\ p.key = key /\ p.val = val /\ p.inVal /\ p.inQuotes

\* The reader is before a label.
BeforeLabel(p, out) ==
    p.out = out /\ p.key = <<>> /\ p.val = <<>> /\ ~p.inVal /\ ~p.inQuotes

\* The reader is behind the closing quote of a value.
BehindLabel(p, out, key, val) ==
    p.out = out /\ p.key = key /\ p.val = val /\ p.inVal /\ ~p.inQuotes

\* Inside the quotes a character belongs to the value, unless it closes them.
LEMMA ReadsOn ==
    ASSUME NEW Tok, Marks \subseteq Tok, NEW p \in ParserStates(Tok), NEW c \in Tok,
           NEW out, NEW key, NEW val, InValue(p, out, key, val), ~Toggles(p, c)
    PROVE  InValue(LabelStep(p, c), out, key, Append(val, c)) /\ LabelStep(p, c).before = c
<1>1. ~Assigns(p, c) /\ ~Separates(p, c)
  BY DEF InValue, Assigns, Separates
<1> QED BY <1>1, StepFields DEF InValue

LEMMA ReadsClosing ==
    ASSUME NEW Tok, Marks \subseteq Tok, NEW p \in ParserStates(Tok),
           NEW out, NEW key, NEW val, InValue(p, out, key, val), p.before # Backslash
    PROVE  BehindLabel(LabelStep(p, Quote), out, key, val)
<1>1. Toggles(p, Quote) /\ Quote \in Tok
  BY MarksAre DEF Toggles
<1> QED BY <1>1, StepFields DEF InValue, BehindLabel

\* An escaped value is read as it stands, and the last character before the
\* closing quote is the value's own last.
LEMMA ReadsValue ==
    ASSUME NEW Tok, Marks \subseteq Tok, NEW t \in Seq(Tok), NEW out, NEW key,
           InValue(Labels(t), out, key, <<>>), NEW v \in Seq(Tok)
    PROVE  /\ InValue(Labels(t \o Escaped(v)), out, key, Escaped(v))
           /\ Labels(t \o Escaped(v)).before = IF v = <<>> THEN Labels(t).before ELSE v[Len(v)]
<1> DEFINE Q(w) == /\ InValue(Labels(t \o Escaped(w)), out, key, Escaped(w))
                   /\ Labels(t \o Escaped(w)).before = IF w = <<>> THEN Labels(t).before ELSE w[Len(w)]
           I == {w \in Seq(Tok) : Q(w)}
<1>1. <<>> \in I
  <2>1. t \o Escaped(<<>>) = t
    BY EscapedEmpty, ConcatEmptySeq
  <2>2. Q(<<>>)
    BY <2>1, EscapedEmpty
  <2> QED BY <2>2
<1>2. ASSUME NEW w \in Seq(Tok), NEW c \in Tok, w \in I PROVE Append(w, c) \in I
  <2> DEFINE u == t \o Escaped(w)
             p == Labels(u)
  <2>1. InValue(p, out, key, Escaped(w)) /\ Escaped(w) \in Seq(Tok) /\ u \in Seq(Tok)
    <3>1. Escaped(w) \in Seq(Tok)
      BY <1>2, EscapedAppend
    <3> QED BY <1>2, <3>1
  <2>2. p \in ParserStates(Tok)
    BY <2>1, <1>2, LabelsAppend
  <2>3. Escaped(Append(w, c)) = Escaped(w) \o Escape(c)
    BY EscapedAppend
  <2>4. t \o Escaped(Append(w, c)) = u \o Escape(c)
    BY <2>1, <2>3, EscapeType, ConcatAssociative
  <2>5. Append(w, c) # <<>> /\ Append(w, c)[Len(Append(w, c))] = c
    BY AppendProperties
  <2> HIDE DEF u, p
  <2>6. CASE c \in {Quote, Backslash}
    <3> DEFINE u1 == Append(u, Backslash)
               p1 == LabelStep(p, Backslash)
    <3>1. Escape(c) = <<Backslash, c>> /\ Backslash \in Tok
      BY <2>6, MarksAre DEF Escape
    <3>2. u \o Escape(c) = Append(u1, c) /\ u1 \in Seq(Tok)
      BY <2>1, <3>1, AppendTwo
    <3>3. Labels(u1) = p1
      BY <2>1, <3>1, LabelsAppend DEF p
    <3>4. Labels(Append(u1, c)) = LabelStep(p1, c)
      BY <3>2, <3>3, LabelsAppend
    <3>5. InValue(p1, out, key, Append(Escaped(w), Backslash)) /\ p1.before = Backslash
      <4>1. ~Toggles(p, Backslash)
        BY DEF Toggles, Quote, Backslash
      <4> QED BY <2>1, <2>2, <3>1, <4>1, ReadsOn
    <3>6. p1 \in ParserStates(Tok)
      BY <2>2, <3>1, StepFields
    <3> HIDE DEF u1, p1
    <3>7. InValue(LabelStep(p1, c), out, key, Append(Append(Escaped(w), Backslash), c))
          /\ LabelStep(p1, c).before = c
      <4>1. ~Toggles(p1, c)
        BY <3>5 DEF Toggles
      <4> QED BY <3>5, <3>6, <4>1, ReadsOn
    <3>8. Escaped(Append(w, c)) = Append(Append(Escaped(w), Backslash), c)
      BY <2>1, <2>3, <3>1, AppendTwo
    <3>9. Q(Append(w, c))
      BY <2>4, <2>5, <3>2, <3>4, <3>7, <3>8
    <3>10. Append(w, c) \in Seq(Tok)
      OBVIOUS
    <3> HIDE DEF Q
    <3> QED BY <3>9, <3>10
  <2>7. CASE c \notin {Quote, Backslash}
    <3>1. Escape(c) = <<c>>
      BY <2>7 DEF Escape
    <3>2. u \o Escape(c) = Append(u, c) /\ Escaped(Append(w, c)) = Append(Escaped(w), c)
      BY <2>1, <2>3, <3>1, AppendIsConcat
    <3>3. Labels(Append(u, c)) = LabelStep(p, c)
      BY <2>1, LabelsAppend DEF p
    <3>4. ~Toggles(p, c)
      BY <2>7 DEF Toggles
    <3>5. InValue(LabelStep(p, c), out, key, Append(Escaped(w), c)) /\ LabelStep(p, c).before = c
      BY <2>1, <2>2, <3>4, ReadsOn
    <3>6. Q(Append(w, c))
      BY <2>4, <2>5, <3>2, <3>3, <3>5
    <3>7. Append(w, c) \in Seq(Tok)
      OBVIOUS
    <3> HIDE DEF Q
    <3> QED BY <3>6, <3>7
  <2> QED BY <2>6, <2>7
<1>3. v \in I
  <2> HIDE DEF I
  <2> QED BY <1>1, <1>2, Sequences
<1> QED BY <1>3

LEMMA ReadsKey ==
    ASSUME NEW Tok, Marks \subseteq Tok, NEW t \in Seq(Tok), NEW out,
           BeforeLabel(Labels(t), out), NEW k \in Tok, k \notin Marks
    PROVE  /\ InValue(Labels(t \o <<k, Equals, Quote>>), out, <<k>>, <<>>)
           /\ Labels(t \o <<k, Equals, Quote>>).before = Quote
<1> DEFINE p == Labels(t)
           p1 == LabelStep(p, k)
           p2 == LabelStep(p1, Equals)
           p3 == LabelStep(p2, Quote)
           t1 == Append(t, k)
           t2 == Append(t1, Equals)
           t3 == Append(t2, Quote)
<1>1. Quote \in Tok /\ Equals \in Tok
  BY MarksAre
<1>2. t \o <<k, Equals, Quote>> = t3 /\ t1 \in Seq(Tok) /\ t2 \in Seq(Tok)
  BY <1>1, AppendThree
<1>3. Labels(t1) = p1 /\ p \in ParserStates(Tok)
  BY LabelsAppend
<1> HIDE DEF t1
<1>4. Labels(t2) = p2
  BY <1>1, <1>2, <1>3, LabelsAppend
<1> HIDE DEF t2
<1>5. Labels(t3) = p3
  BY <1>1, <1>2, <1>4, LabelsAppend
<1> HIDE DEF t3
<1>6. k # Quote /\ k # Equals /\ k # Comma
  BY DEF Marks
<1>7. BeforeLabel(p, out)
  OBVIOUS
<1> HIDE DEF p
<1>8. p1 \in ParserStates(Tok) /\ p1.out = out /\ p1.key = <<k>> /\ p1.val = <<>>
      /\ ~p1.inVal /\ ~p1.inQuotes /\ p1.before = k
  <2>1. ~Toggles(p, k) /\ ~Assigns(p, k) /\ ~Separates(p, k)
    BY <1>6 DEF Toggles, Assigns, Separates
  <2>2. Append(<<>>, k) = <<k>>
    OBVIOUS
  <2> QED BY <1>3, <1>7, <2>1, <2>2, StepFields DEF BeforeLabel
<1> HIDE DEF p1
<1>9. p2 \in ParserStates(Tok) /\ p2.out = out /\ p2.key = <<k>> /\ p2.val = <<>>
      /\ p2.inVal /\ ~p2.inQuotes /\ p2.before = Equals
  <2>1. Assigns(p1, Equals)
    BY <1>8 DEF Assigns
  <2> QED BY <1>1, <1>8, <2>1, StepFields
<1> HIDE DEF p2
<1>10. p3 \in ParserStates(Tok) /\ p3.out = out /\ p3.key = <<k>> /\ p3.val = <<>>
       /\ p3.inVal /\ p3.inQuotes /\ p3.before = Quote
  <2>1. Toggles(p2, Quote)
    BY <1>9 DEF Toggles, Equals, Backslash
  <2> QED BY <1>1, <1>9, <2>1, StepFields
<1> QED BY <1>2, <1>5, <1>10 DEF InValue

\* A label is read up to its closing quote, or through it if its value ends in a
\* backslash, which the reader takes for the escape of the quote.
LEMMA ReadsLabel ==
    ASSUME NEW Tok, Marks \subseteq Tok, NEW t \in Seq(Tok), NEW out,
           BeforeLabel(Labels(t), out), NEW pair \in Pairs(Tok), pair[1] \notin Marks
    PROVE  LET q == Labels(t \o RenderLabel(pair))
           IN IF EndsInBackslash(pair)
              THEN InValue(q, out, <<pair[1]>>, Append(Escaped(pair[2]), Quote)) /\ q.before = Quote
              ELSE BehindLabel(q, out, <<pair[1]>>, Escaped(pair[2]))
<1> DEFINE k == pair[1]
           v == pair[2]
           u == t \o <<k, Equals, Quote>>
           w == u \o Escaped(v)
           p == Labels(w)
<1>1. k \in Tok /\ v \in Seq(Tok) /\ Quote \in Tok /\ Equals \in Tok /\ k \notin Marks
  BY MarksAre DEF Pairs
<1> HIDE DEF k, v
<1>2. <<k, Equals, Quote>> \in Seq(Tok) /\ <<Quote>> \in Seq(Tok) /\ Escaped(v) \in Seq(Tok)
  BY <1>1, EscapedAppend
<1>3. u \in Seq(Tok) /\ w \in Seq(Tok)
  BY <1>2
<1>4. t \o RenderLabel(pair) = Append(w, Quote)
  <2>1. RenderLabel(pair) = (<<k, Equals, Quote>> \o Escaped(v)) \o <<Quote>>
    BY DEF RenderLabel, k, v
  <2> DEFINE head == <<k, Equals, Quote>>
  <2> HIDE DEF head
  <2>2. head \in Seq(Tok) /\ head \o Escaped(v) \in Seq(Tok)
    BY <1>2 DEF head
  <2>3. t \o ((head \o Escaped(v)) \o <<Quote>>) = (t \o (head \o Escaped(v))) \o <<Quote>>
    BY <1>2, <2>2, ConcatAssociative
  <2>4. t \o (head \o Escaped(v)) = (t \o head) \o Escaped(v)
    BY <1>2, <2>2, ConcatAssociative
  <2>5. w \o <<Quote>> = Append(w, Quote)
    BY <1>1, <1>3, AppendIsConcat
  <2> QED BY <2>1, <2>3, <2>4, <2>5 DEF head
<1>5. InValue(Labels(u), out, <<k>>, <<>>) /\ Labels(u).before = Quote
  BY <1>1, ReadsKey
<1> HIDE DEF u
<1>6. InValue(p, out, <<k>>, Escaped(v)) /\ p.before = IF v = <<>> THEN Quote ELSE v[Len(v)]
  BY <1>1, <1>3, <1>5, ReadsValue
<1>7. Labels(Append(w, Quote)) = LabelStep(p, Quote) /\ p \in ParserStates(Tok)
  BY <1>1, <1>3, LabelsAppend
<1>8. EndsInBackslash(pair) <=> p.before = Backslash
  BY <1>6 DEF EndsInBackslash, v, Last, Quote, Backslash
<1> HIDE DEF p, w
<1>9. CASE EndsInBackslash(pair)
  <2>1. ~Toggles(p, Quote)
    BY <1>8, <1>9 DEF Toggles
  <2>2. InValue(LabelStep(p, Quote), out, <<k>>, Append(Escaped(v), Quote)) /\ LabelStep(p, Quote).before = Quote
    BY <1>1, <1>6, <1>7, <2>1, ReadsOn
  <2> QED BY <1>4, <1>7, <1>9, <2>2 DEF k, v
<1>10. CASE ~EndsInBackslash(pair)
  <2>1. BehindLabel(LabelStep(p, Quote), out, <<k>>, Escaped(v))
    BY <1>6, <1>7, <1>8, <1>10, ReadsClosing
  <2> QED BY <1>4, <1>7, <1>10, <2>1 DEF k, v
<1> QED BY <1>9, <1>10

\* The end of a label files it, in place of what was filed under its key.
Filed(out, key, val) == {l \in out : l[1] # key} \cup {<<key, val>>}

LEMMA TrimKey ==
    ASSUME NEW Tok, Marks \subseteq Tok, NEW k \in Tok, k \notin Marks
    PROVE  TrimSpace(<<k>>) = <<k>>
<1>1. <<k>> \in Seq(Tok) /\ <<k>> # <<>> /\ Len(<<k>>) = 1 /\ <<k>>[1] = k
  OBVIOUS
<1>2. k # Space
  BY DEF Marks
<1> QED BY <1>1, <1>2, TrimSame

LEMMA FilesLabel ==
    ASSUME NEW Tok, Marks \subseteq Tok, NEW p \in ParserStates(Tok), NEW k \in Tok, k \notin Marks,
           NEW out, NEW val, p.out = out, p.key = <<k>>, p.val = val
    PROVE  Flush(p).out = Filed(out, <<k>>, val)
<1>1. <<k>> # <<>>
  OBVIOUS
<1> QED BY <1>1, TrimKey, FlushFields DEF Filed

LEMMA ReadsComma ==
    ASSUME NEW Tok, Marks \subseteq Tok, NEW t \in Seq(Tok), NEW out, NEW val,
           NEW k \in Tok, k \notin Marks, BehindLabel(Labels(t), out, <<k>>, val)
    PROVE  BeforeLabel(Labels(Append(t, Comma)), Filed(out, <<k>>, val))
<1> DEFINE p == Labels(t)
<1>1. Comma \in Tok
  BY MarksAre
<1>2. Labels(Append(t, Comma)) = LabelStep(p, Comma) /\ p \in ParserStates(Tok)
  BY <1>1, LabelsAppend
<1>3. BehindLabel(p, out, <<k>>, val)
  OBVIOUS
<1> HIDE DEF p
<1>4. Separates(p, Comma)
  BY <1>3 DEF BehindLabel, Separates
<1>5. Flush(p).out = Filed(out, <<k>>, val)
  BY <1>2, <1>3, FilesLabel DEF BehindLabel
<1> DEFINE q == LabelStep(p, Comma)
<1>6. /\ q.inQuotes <=> p.inQuotes
      /\ ~q.inVal /\ q.out = Flush(p).out /\ q.key = <<>> /\ q.val = <<>>
  BY <1>1, <1>2, <1>4, StepFields
<1> HIDE DEF q
<1> QED BY <1>2, <1>3, <1>5, <1>6 DEF BeforeLabel, BehindLabel, q

LEMMA AppendFive ==
    ASSUME NEW S, NEW s \in Seq(S), NEW c \in S, NEW d \in S, NEW e \in S, NEW f \in S
    PROVE  s \o ((<<c, d, e>> \o <<f>>) \o <<e>>)
               = Append(Append(Append(Append(Append(s, c), d), e), f), e)
<1> DEFINE three == <<c, d, e>>
<1>1. three \in Seq(S) /\ <<f>> \in Seq(S) /\ <<e>> \in Seq(S)
  BY AppendThree
<1>2. s \o three = Append(Append(Append(s, c), d), e)
  BY AppendThree
<1> HIDE DEF three
<1>3. s \o ((three \o <<f>>) \o <<e>>) = ((s \o three) \o <<f>>) \o <<e>>
  BY <1>1, ConcatAssociative
<1>4. s \o three \in Seq(S)
  BY <1>1
<1>5. (s \o three) \o <<f>> = Append(s \o three, f) /\ Append(s \o three, f) \in Seq(S)
  BY <1>4, AppendIsConcat
<1>6. Append(s \o three, f) \o <<e>> = Append(Append(s \o three, f), e)
  BY <1>5, AppendIsConcat
<1> QED BY <1>2, <1>3, <1>5, <1>6 DEF three

LEMMA OneAndTwo ==
    ASSUME NEW S, NEW a \in S, NEW b \in S
    PROVE  /\ Append(<<>>, a) = <<a>> /\ Append(<<a>>, b) = <<a, b>>
           /\ <<>> \in Seq(S) /\ <<a>> \in Seq(S) /\ Len(<<a>>) = 1 /\ Len(<<>>) = 0
<1>1. <<>> \in Seq(S) /\ <<a>> \in Seq(S) /\ Len(<<a>>) = 1 /\ Len(<<>>) = 0
  OBVIOUS
<1>2. Append(<<>>, a) = <<a>>
  OBVIOUS
<1>3. Append(<<a>>, b) = <<a, b>>
  <2> DEFINE s == Append(<<a>>, b)
             t == <<a, b>>
  <2>1. s \in Seq(S) /\ Len(s) = 2 /\ s[1] = a /\ s[2] = b
    BY <1>1, AppendProperties
  <2>2. t \in Seq(S) /\ Len(t) = 2 /\ t[1] = a /\ t[2] = b
    OBVIOUS
  <2> HIDE DEF s, t
  <2>3. \A i \in 1..Len(s) : s[i] = t[i]
    BY <2>1, <2>2
  <2>4. s = t
    BY <2>1, <2>2, <2>3, SeqEqual
  <2> QED BY <2>4 DEF s, t
<1> QED BY <1>1, <1>2, <1>3

LEMMA StartBefore == BeforeLabel(Labels(<<>>), {})
<1>1. BeforeLabel(LabelStart, {})
  BY DEF BeforeLabel, LabelStart
<1> QED BY <1>1, LabelsEmpty

\* Labels with different keys, none of them a character with a meaning, whose
\* values do not end in a backslash are all read.
Distinct(labels) == \A i, j \in DOMAIN labels : labels[i][1] = labels[j][1] => i = j
Plain(labels) == \A i \in DOMAIN labels : labels[i][1] \notin Marks /\ ~EndsInBackslash(labels[i])

LEMMA LabelsRecovered ==
    ASSUME NEW Tok, Marks \subseteq Tok, NEW labels \in Seq(Pairs(Tok)),
           Plain(labels), Distinct(labels)
    PROVE  parseLabels(RenderLabels(labels)) = AsRead(labels)
<1> DEFINE P(ls) == Labels(RenderLabels(ls))
           Q(ls) == Plain(ls) /\ Distinct(ls) =>
                        /\ Flush(P(ls)).out = AsRead(ls)
                        /\ ls # <<>> => \E k \in Tok : /\ k \notin Marks
                                                       /\ BehindLabel(P(ls), P(ls).out, <<k>>, P(ls).val)
           I == {ls \in Seq(Pairs(Tok)) : Q(ls)}
<1>1. LabelStart \in ParserStates(Tok) /\ Labels(<<>>) = LabelStart /\ AsRead(<<>>) = {}
      /\ BeforeLabel(LabelStart, {})
  <2>1. AsRead(<<>>) = {}
    BY DEF AsRead, ToSet
  <2> QED BY <2>1, StartType, LabelsEmpty DEF BeforeLabel, LabelStart
<1>2. <<>> \in I
  <2>1. P(<<>>) = LabelStart
    BY <1>1, RenderLabelsEmpty
  <2>2. LabelStart.key = <<>> /\ LabelStart.out = {}
    BY DEF LabelStart
  <2>3. TrimSpace(<<>>) = <<>>
    BY DEF TrimSpace
  <2>4. Flush(LabelStart).out = {}
    BY <1>1, <2>2, <2>3, FlushFields
  <2>5. Q(<<>>)
    BY <1>1, <2>1, <2>4
  <2> HIDE DEF Q
  <2> QED BY <2>5
<1>3. ASSUME NEW ls \in Seq(Pairs(Tok)), NEW pair \in Pairs(Tok), ls \in I
      PROVE  Append(ls, pair) \in I
  <2> DEFINE more == Append(ls, pair)
             R == RenderLabels(ls)
             text == IF ls = <<>> THEN <<>> ELSE Append(R, Comma)
             q == Labels(text \o RenderLabel(pair))
             v == Escaped(pair[2])
             k == pair[1]
  <2>1. /\ more \in Seq(Pairs(Tok)) /\ more # <<>>
        /\ DOMAIN more = DOMAIN ls \cup {Len(ls) + 1} /\ Len(ls) + 1 \notin DOMAIN ls
        /\ more[Len(ls) + 1] = pair /\ \A i \in DOMAIN ls : more[i] = ls[i]
    BY AppendProperties
  <2>2. SUFFICES ASSUME Plain(more), Distinct(more) PROVE Q(more)
    <3>1. Q(more)
      BY <2>2
    <3>2. more = Append(ls, pair)
      OBVIOUS
    <3> HIDE DEF more, P, Q
    <3> QED BY <2>1, <3>1, <3>2
  <2> HIDE DEF more
  <2>3. Plain(ls) /\ Distinct(ls)
    BY <2>1, <2>2 DEF Plain, Distinct
  <2>4. k \in Tok /\ k \notin Marks /\ ~EndsInBackslash(pair)
    BY <2>1, <2>2 DEF Plain, Pairs
  <2>5. R \in Seq(Tok) /\ Comma \in Tok
    BY RenderLabelsAppend, MarksAre
  <2>6. text \in Seq(Tok)
    BY <2>5
  <2>7. BeforeLabel(Labels(text), AsRead(ls))
    <3>1. CASE ls = <<>>
      BY <1>1, <3>1
    <3>2. CASE ls # <<>>
      <4>1. PICK kk \in Tok : kk \notin Marks /\ BehindLabel(P(ls), P(ls).out, <<kk>>, P(ls).val)
        BY <1>3, <2>3, <3>2
      <4>2. Flush(P(ls)).out = AsRead(ls)
        BY <1>3, <2>3
      <4>3. BeforeLabel(Labels(Append(R, Comma)), Filed(P(ls).out, <<kk>>, P(ls).val))
        BY <2>5, <4>1, ReadsComma
      <4>4. P(ls) \in ParserStates(Tok)
        BY <2>5, <2>4, LabelsAppend
      <4>5. Flush(P(ls)).out = Filed(P(ls).out, <<kk>>, P(ls).val)
        <5> HIDE DEF P
        <5> QED BY <4>1, <4>4, FilesLabel DEF BehindLabel
      <4> QED BY <3>2, <4>2, <4>3, <4>5
    <3> QED BY <3>1, <3>2
  <2>8. P(more) = q
    <3>1. RenderLabels(more) = (IF Len(ls) + 1 = 1 THEN <<>> ELSE R \o <<Comma>>) \o RenderLabel(pair)
      BY RenderLabelsAppend DEF more
    <3>2. Len(ls) + 1 = 1 <=> ls = <<>>
      OBVIOUS
    <3>3. R \o <<Comma>> = Append(R, Comma)
      BY <2>5, AppendIsConcat
    <3> QED BY <3>1, <3>2, <3>3
  <2>9. BehindLabel(q, AsRead(ls), <<k>>, v)
    <3> HIDE DEF text
    <3> QED BY <2>4, <2>6, <2>7, ReadsLabel
  <2>10. q \in ParserStates(Tok)
    <3>1. text \o RenderLabel(pair) \in Seq(Tok)
      <4> HIDE DEF text
      <4> QED BY <2>6, RenderLabelType
    <3> QED BY <3>1, <2>4, LabelsAppend
  <2> HIDE DEF q
  <2>11. Flush(q).out = Filed(AsRead(ls), <<k>>, v)
    BY <2>4, <2>9, <2>10, FilesLabel DEF BehindLabel
  <2>12. Filed(AsRead(ls), <<k>>, v) = AsRead(more)
    <3>1. ASSUME NEW l \in AsRead(ls) PROVE l[1] # <<k>>
      <4>1. PICK i \in DOMAIN ls : l = <<<<ls[i][1]>>, Escaped(ls[i][2])>>
        BY <3>1 DEF AsRead, ToSet
      <4>2. ls[i][1] # k
        BY <2>1, <2>2 DEF Distinct
      <4> QED BY <4>1, <4>2
    <3>2. AsRead(more) = AsRead(ls) \cup {<<<<k>>, v>>}
      <4>1. ToSet(more) = ToSet(ls) \cup {pair}
        BY <2>1 DEF ToSet
      <4> QED BY <4>1 DEF AsRead
    <3> QED BY <3>1, <3>2 DEF Filed
  <2>13. BehindLabel(q, q.out, <<k>>, q.val)
    BY <2>9 DEF BehindLabel
  <2> HIDE DEF P, k
  <2> QED BY <2>4, <2>8, <2>11, <2>12, <2>13
<1>4. labels \in I
  <2> HIDE DEF I
  <2> QED BY <1>2, <1>3, Sequences
<1> QED BY <1>4 DEF parseLabels

\* A value that ends in a backslash swallows the label behind it.
LEMMA LabelSwallowed ==
    ASSUME NEW Tok, Marks \subseteq Tok, NEW a \in Pairs(Tok), NEW b \in Pairs(Tok),
           a[1] \notin Marks, b[1] \notin Marks, EndsInBackslash(a),
           NEW r \in Tok, r \notin Marks, b[2] = <<r>>
    PROVE  \A l \in parseLabels(RenderLabels(<<a, b>>)) : l[1] = <<a[1]>>
<1> DEFINE t0 == RenderLabel(a)
           t1 == Append(t0, Comma)
           t2 == Append(t1, b[1])
           t3 == Append(t2, Equals)
           t4 == Append(t3, Quote)
           t5 == Append(t4, r)
           t6 == Append(t5, Quote)
           In(t) == t \in Seq(Tok) /\ \E val : InValue(Labels(t), {}, <<a[1]>>, val)
           Out(t) == t \in Seq(Tok) /\ \E val : BehindLabel(Labels(t), {}, <<a[1]>>, val)
<1>1. /\ Quote \in Tok /\ Equals \in Tok /\ Comma \in Tok /\ b[1] \in Tok /\ a[1] \in Tok
      /\ b[1] # Quote /\ r # Quote /\ r # Comma /\ r # Backslash
  BY MarksAre DEF Marks, Pairs
<1>2. In(t0) /\ Labels(t0).before = Quote
  <2>1. BeforeLabel(Labels(<<>>), {})
    BY StartBefore
  <2>2. <<>> \o t0 = t0 /\ t0 \in Seq(Tok)
    BY RenderLabelType, ConcatEmptySeq
  <2>3. <<>> \in Seq(Tok)
    OBVIOUS
  <2> HIDE DEF t0
  <2>4. LET q == Labels(<<>> \o t0) IN InValue(q, {}, <<a[1]>>, Append(Escaped(a[2]), Quote)) /\ q.before = Quote
    BY <2>1, <2>3, ReadsLabel DEF t0
  <2> QED BY <2>2, <2>4
<1>3. RenderLabels(<<a, b>>) = t6
  <2> DEFINE Few == Pairs(Tok)
  <2>1. Append(<<>>, a) = <<a>> /\ Append(<<a>>, b) = <<a, b>> /\ <<>> \in Seq(Few) /\ <<a>> \in Seq(Few)
        /\ Len(<<a>>) = 1 /\ Len(<<>>) = 0
    BY OneAndTwo
  <2>2. RenderLabels(<<a>>) = <<>> \o t0
    <3>1. RenderLabels(Append(<<>>, a)) = (IF Len(<<>>) + 1 = 1 THEN <<>> ELSE RenderLabels(<<>>) \o <<Comma>>) \o RenderLabel(a)
      BY <2>1, RenderLabelsAppend
    <3> HIDE DEF t0
    <3>2. t0 = RenderLabel(a)
      BY DEF t0
    <3>3. RenderLabels(<<a>>) = (IF 0 + 1 = 1 THEN <<>> ELSE RenderLabels(<<>>) \o <<Comma>>) \o t0
      BY <2>1, <3>1, <3>2
    <3> QED BY <3>3
  <2>3. RenderLabels(<<a, b>>) = (RenderLabels(<<a>>) \o <<Comma>>) \o RenderLabel(b)
    <3>1. RenderLabels(Append(<<a>>, b)) = (IF Len(<<a>>) + 1 = 1 THEN <<>> ELSE RenderLabels(<<a>>) \o <<Comma>>) \o RenderLabel(b)
      BY <2>1, RenderLabelsAppend
    <3>2. RenderLabels(<<a, b>>) = (IF 1 + 1 = 1 THEN <<>> ELSE RenderLabels(<<a>>) \o <<Comma>>) \o RenderLabel(b)
      BY <2>1, <3>1
    <3>3. 1 + 1 # 1
      OBVIOUS
    <3> QED BY ONLY <3>2, <3>3, Zenon
  <2>4. t0 \in Seq(Tok)
    BY RenderLabelType
  <2>5. Escaped(<<r>>) = <<r>>
    BY EscapedWord
  <2>6. RenderLabel(b) = (<<b[1], Equals, Quote>> \o <<r>>) \o <<Quote>>
    BY <2>5 DEF RenderLabel
  <2> HIDE DEF t0
  <2>7. <<>> \o t0 = t0 /\ t0 \o <<Comma>> = t1 /\ t1 \in Seq(Tok)
    BY <1>1, <2>4
  <2> HIDE DEF t1
  <2>8. t1 \o RenderLabel(b) = t6
    <3>1. t1 \o ((<<b[1], Equals, Quote>> \o <<r>>) \o <<Quote>>) = t6
      BY <1>1, <2>7, AppendFive
    <3> QED BY <1>1, <2>6, <3>1
  <2> QED BY <2>2, <2>3, <2>7, <2>8
<1> HIDE DEF t0
<1>4. ASSUME NEW t, NEW c \in Tok, In(t), ~Toggles(Labels(t), c)
      PROVE  In(Append(t, c)) /\ Labels(Append(t, c)).before = c
  <2>1. Labels(Append(t, c)) = LabelStep(Labels(t), c) /\ Labels(t) \in ParserStates(Tok)
    BY <1>4, LabelsAppend
  <2>2. PICK val : InValue(Labels(t), {}, <<a[1]>>, val)
    BY <1>4
  <2>3. InValue(LabelStep(Labels(t), c), {}, <<a[1]>>, Append(val, c)) /\ LabelStep(Labels(t), c).before = c
    BY <1>4, <2>1, <2>2, ReadsOn
  <2> QED BY <1>4, <2>1, <2>3
<1>5. In(t1) /\ Labels(t1).before = Comma
  <2>1. ~Toggles(Labels(t0), Comma)
    BY DEF Toggles, Comma, Quote
  <2> QED BY <1>1, <1>2, <1>4, <2>1
<1> HIDE DEF t1
<1>6. In(t2) /\ Labels(t2).before = b[1]
  <2>1. ~Toggles(Labels(t1), b[1])
    BY <1>1 DEF Toggles
  <2> QED BY <1>1, <1>4, <1>5, <2>1
<1> HIDE DEF t2
<1>7. In(t3) /\ Labels(t3).before = Equals
  <2>1. ~Toggles(Labels(t2), Equals)
    BY DEF Toggles, Equals, Quote
  <2> QED BY <1>1, <1>4, <1>6, <2>1
<1> HIDE DEF t3
<1>8. Out(t4)
  <2>1. Labels(t4) = LabelStep(Labels(t3), Quote) /\ Labels(t3) \in ParserStates(Tok) /\ t4 \in Seq(Tok)
    BY <1>1, <1>7, LabelsAppend
  <2>2. PICK val : InValue(Labels(t3), {}, <<a[1]>>, val)
    BY <1>7
  <2>3. BehindLabel(LabelStep(Labels(t3), Quote), {}, <<a[1]>>, val)
    BY <1>7, <2>1, <2>2, ReadsClosing DEF Equals, Backslash
  <2> QED BY <2>1, <2>3
<1> HIDE DEF t4
<1>9. Out(t5) /\ Labels(t5).before = r
  <2>1. Labels(t5) = LabelStep(Labels(t4), r) /\ Labels(t4) \in ParserStates(Tok) /\ t5 \in Seq(Tok)
    BY <1>1, <1>8, LabelsAppend
  <2>2. PICK val : BehindLabel(Labels(t4), {}, <<a[1]>>, val)
    BY <1>8
  <2>3. ~Toggles(Labels(t4), r) /\ ~Assigns(Labels(t4), r) /\ ~Separates(Labels(t4), r)
    BY <1>1, <2>2 DEF Toggles, Assigns, Separates, BehindLabel
  <2>4. BehindLabel(LabelStep(Labels(t4), r), {}, <<a[1]>>, Append(val, r)) /\ LabelStep(Labels(t4), r).before = r
    BY <2>1, <2>2, <2>3, StepFields DEF BehindLabel
  <2> QED BY <2>1, <2>4
<1> HIDE DEF t5
<1> DEFINE q == Labels(t6)
<1>10. q \in ParserStates(Tok) /\ q.out = {} /\ q.key = <<a[1]>>
  <2>1. q = LabelStep(Labels(t5), Quote) /\ Labels(t5) \in ParserStates(Tok)
    BY <1>1, <1>9, LabelsAppend
  <2>2. PICK val : BehindLabel(Labels(t5), {}, <<a[1]>>, val)
    BY <1>9
  <2>3. Toggles(Labels(t5), Quote)
    BY <1>1, <1>9 DEF Toggles
  <2> HIDE DEF q
  <2> QED BY <1>1, <2>1, <2>2, <2>3, StepFields DEF BehindLabel
<1>11. parseLabels(RenderLabels(<<a, b>>)) = Flush(q).out
  BY <1>3 DEF parseLabels
<1> HIDE DEF q
<1>12. Flush(q).out = Filed({}, <<a[1]>>, q.val)
  <2>1. \A l \in {} : l[1] # <<a[1]>>
    OBVIOUS
  <2>2. a[1] \in Tok /\ a[1] \notin Marks
    BY <1>1
  <2> QED BY <1>10, <2>1, <2>2, FilesLabel
<1> QED BY <1>11, <1>12 DEF Filed

LEMMA Concatenated ==
    ASSUME NEW S, NEW s \in Seq(S), NEW t \in Seq(S)
    PROVE  /\ s \o t \in Seq(S) /\ Len(s \o t) = Len(s) + Len(t)
           /\ \A i \in 1..Len(s) : (s \o t)[i] = s[i]
           /\ \A i \in 1..Len(t) : (s \o t)[Len(s) + i] = t[i]
<1>1. \A i \in 1..Len(s) : (s \o t)[i] = s[i]
  OBVIOUS
<1>2. \A i \in 1..Len(t) : (s \o t)[Len(s) + i] = t[i]
  OBVIOUS
<1> QED BY <1>1, <1>2

\* A piece of a sequence, by what stands at its places.
LEMMA Piece ==
    ASSUME NEW S, NEW s \in Seq(S), NEW t \in Seq(S), NEW m \in Nat, m + Len(t) <= Len(s),
           \A i \in 1..Len(t) : s[m + i] = t[i]
    PROVE  SubSeq(s, m + 1, m + Len(t)) = t
<1> DEFINE a == m + 1
           b == m + Len(t)
           u == SubSeq(s, a, b)
<1>1. a \in Int /\ b \in Int /\ b - a + 1 = Len(t) /\ Len(t) \in Nat /\ Len(s) \in Nat
  OBVIOUS
<1>2. \A i \in a..b : s[i] \in S
  <2>1. a..b \subseteq 1..Len(s)
    BY <1>1
  <2> HIDE DEF a, b
  <2> QED BY <2>1
<1>3. \A i \in 1..Len(t) : a + i - 1 = m + i
  OBVIOUS
<1>5. a <= b <=> Len(t) # 0
  BY <1>1
<1> HIDE DEF a, b
<1>4. u \in Seq(S) /\ Len(u) = (IF a <= b THEN b - a + 1 ELSE 0) /\ \A i \in 1..b - a + 1 : u[i] = s[a + i - 1]
  BY <1>1, <1>2, SubSeqProperties
<1> HIDE DEF u
<1>6. Len(u) = Len(t)
  BY <1>1, <1>4, <1>5
<1>7. \A i \in 1..Len(u) : u[i] = t[i]
  BY <1>1, <1>3, <1>4, <1>6
<1>8. u = t
  BY <1>4, <1>6, <1>7, SeqEqual
<1> QED BY <1>8 DEF u, a, b

LEMMA RenderLabelsType ==
    ASSUME NEW Tok, Marks \subseteq Tok, NEW labels \in Seq(Pairs(Tok))
    PROVE  RenderLabels(labels) \in Seq(Tok)
<1>1. CASE labels = <<>>
  <2>1. <<>> \in Seq(Tok)
    OBVIOUS
  <2> QED BY <1>1, <2>1, RenderLabelsEmpty
<1>2. CASE labels # <<>>
  <2>1. Head(labels) \in Pairs(Tok)
    BY <1>2, HeadTailProperties
  <2> QED BY <2>1, RenderLabelsAppend
<1> QED BY <1>1, <1>2

LEMMA ReadsNothing == parseLabels(<<>>) = {}
<1> DEFINE Tok == Marks
<1>1. Labels(<<>>) = LabelStart /\ LabelStart \in ParserStates(Tok)
  BY LabelsEmpty, StartType
<1>2. LabelStart.key = <<>> /\ LabelStart.out = {}
  BY DEF LabelStart
<1>3. TrimSpace(<<>>) = <<>>
  BY DEF TrimSpace
<1> HIDE DEF Tok
<1> QED BY <1>1, <1>2, <1>3, FlushFields DEF parseLabels, Tok
-----------------------------------------------------------------------------
(***************************************************************************)
(* A line, from its name to its number.                                     *)
(***************************************************************************)
\* What stands behind the first token of a text.
LEMMA BehindFirst ==
    ASSUME NEW S, NEW head \in S, NEW rest \in Seq(S), rest # <<>>
    PROVE  LET line == <<head>> \o rest
           IN /\ line \in Seq(S) /\ line # <<>>
              /\ Len(line) = Len(rest) + 1 /\ Len(rest) >= 1
              /\ line[1] = head /\ line[2] = rest[1] /\ line[Len(line)] = rest[Len(rest)]
              /\ SubSeq(line, 1, 1) = <<head>> /\ SubSeq(line, 2, Len(line)) = rest
<1> DEFINE one == <<head>>
           line == one \o rest
<1>1. one \in Seq(S) /\ Len(one) = 1 /\ one[1] = head
  OBVIOUS
<1>2. Len(rest) \in Nat /\ Len(rest) >= 1
  OBVIOUS
<1> HIDE DEF one
<1>3. /\ line \in Seq(S) /\ Len(line) = Len(one) + Len(rest)
      /\ \A i \in 1..Len(one) : line[i] = one[i]
      /\ \A i \in 1..Len(rest) : line[Len(one) + i] = rest[i]
  BY <1>1, Concatenated
<1>4. SubSeq(line, 1, 1) = one
  <2>1. \A i \in 1..Len(one) : line[0 + i] = one[i]
    BY <1>1, <1>3
  <2>2. 0 + Len(one) <= Len(line)
    BY <1>1, <1>2, <1>3
  <2> HIDE DEF line
  <2>3. SubSeq(line, 0 + 1, 0 + Len(one)) = one
    BY <1>1, <1>3, <2>1, <2>2, Piece
  <2> QED BY <1>1, <2>3
<1>5. SubSeq(line, 2, Len(line)) = rest
  <2>1. \A i \in 1..Len(rest) : line[1 + i] = rest[i]
    BY <1>1, <1>3
  <2>2. 1 + Len(rest) <= Len(line)
    BY <1>1, <1>2, <1>3
  <2> HIDE DEF line
  <2>3. SubSeq(line, 1 + 1, 1 + Len(rest)) = rest
    BY <1>1, <1>3, <2>1, <2>2, Piece
  <2> QED BY <1>1, <1>2, <1>3, <2>3
<1>6. line[1] = head /\ line[2] = rest[1] /\ line[Len(line)] = rest[Len(rest)]
  <2>1. line[1] = one[1] /\ line[Len(one) + 1] = rest[1] /\ line[Len(one) + Len(rest)] = rest[Len(rest)]
    BY <1>1, <1>2, <1>3
  <2> QED BY <1>1, <1>2, <1>3, <2>1
<1>7. line # <<>>
  BY <1>1, <1>2, <1>3
<1>8. Len(line) = Len(rest) + 1
  BY <1>1, <1>2, <1>3
<1> QED BY <1>2, <1>3, <1>4, <1>5, <1>6, <1>7, <1>8 DEF one

\* The name of a line, when the rest begins as the writer begins it.
LEMMA ReadsName ==
    ASSUME NEW Tok, Marks \subseteq Tok, NEW name \in Tok, name \notin Marks,
           NEW rest \in Seq(Tok), rest # <<>>,
           rest[1] \in {Open, Space}, rest[Len(rest)] # Space
    PROVE  parseLine(<<name>> \o rest) =
             {[name |-> <<name>>, labels |-> lv[1], value |-> lv[2]] :
                 lv \in {x \in splitLabelsAndValue(TrimSpace(rest)) : Len(x[2]) = 1 /\ x[2][1] \in Finite}}
<1> DEFINE line == <<name>> \o rest
<1>1. /\ line \in Seq(Tok) /\ line # <<>> /\ Len(line) = Len(rest) + 1 /\ Len(rest) >= 1
      /\ line[1] = name /\ line[2] = rest[1] /\ line[Len(line)] = rest[Len(rest)]
      /\ SubSeq(line, 1, 1) = <<name>> /\ SubSeq(line, 2, Len(line)) = rest
  BY BehindFirst
<1> HIDE DEF line
<1>2. name # Space /\ name # Open
  BY DEF Marks
<1>3. TrimSpace(line) = line
  BY <1>1, <1>2, TrimSame
<1> DEFINE P(text, i) ==
             {[name |-> SubSeq(text, 1, i - 1), labels |-> lv[1], value |-> lv[2]] :
                 lv \in {x \in IF i > 1 THEN splitLabelsAndValue(TrimSpace(SubSeq(text, i, Len(text)))) ELSE {} :
                           Len(x[2]) = 1 /\ x[2][1] \in Finite}}
           I(text) == {i \in 1..Len(text) : text[i] \in {Open, Space}}
           first(text) == IF I(text) # {} THEN Min(I(text)) ELSE 0
<1>4. parseLine(line) = P(TrimSpace(line), first(TrimSpace(line)))
  BY DEF parseLine, SelectInSeq
<1>5. first(line) = 2
  <2>1. I(line) \in SUBSET Nat /\ 2 \in I(line) /\ \A i \in I(line) : 2 <= i
    BY <1>1, <1>2
  <2> HIDE DEF I
  <2> QED BY <2>1, MinIs
<1>6. parseLine(line) = P(line, 2)
  <2> HIDE DEF P, first
  <2> QED BY <1>3, <1>4, <1>5
<1>8. SubSeq(line, 1, 2 - 1) = <<name>> /\ 2 > 1
  BY <1>1
<1> QED BY <1>1, <1>6, <1>8, Zenon DEF line

LEMMA ReadsNumber ==
    ASSUME NEW Tok, Marks \subseteq Tok, NEW v \in Tok, v \notin Marks
    PROVE  /\ FirstField(<<Space, v>>) = <<v>> /\ FirstField(<<v>>) = <<v>>
           /\ TrimSpace(<<Space, v>>) = <<v>>
<1>1. v # Space /\ Space \in Tok
  BY MarksAre DEF Marks
<1>2. TrimSpace(<<v>>) = <<v>>
  BY TrimKey
<1>3. TrimSpace(<<Space, v>>) = <<v>>
  <2> DEFINE text == <<Space, v>>
             kept == {i \in DOMAIN text : text[i] # Space}
  <2>1. text \in Seq(Tok) /\ Len(text) = 2 /\ text[1] = Space /\ text[2] = v /\ DOMAIN text = 1..2
    BY <1>1
  <2> HIDE DEF text
  <2>2. kept \in SUBSET Nat /\ 2 \in kept /\ \A i \in kept : 2 <= i /\ i <= 2
    BY <1>1, <2>1
  <2>3. TrimSpace(text) = SubSeq(text, Min(kept), Max(kept))
    BY <2>2 DEF TrimSpace
  <2> HIDE DEF kept
  <2>4. Min(kept) = 2 /\ Max(kept) = 2
    BY <2>2, MinIs, MaxIs
  <2>5. SubSeq(text, 2, 2) = <<text[2]>>
    <3>1. /\ SubSeq(text, 2, 2) \in Seq(Tok) /\ Len(SubSeq(text, 2, 2)) = 1
          /\ SubSeq(text, 2, 2)[1] = text[2]
      BY <2>1, SubSeqProperties
    <3> DEFINE s == SubSeq(text, 2, 2)
               t == <<text[2]>>
    <3>2. t \in Seq(Tok) /\ Len(t) = 1 /\ t[1] = text[2]
      BY <2>1
    <3>3. s \in Seq(Tok) /\ Len(s) = 1 /\ s[1] = text[2]
      BY <3>1
    <3> HIDE DEF s, t
    <3>4. \A i \in 1..Len(s) : s[i] = t[i]
      BY <3>2, <3>3
    <3>5. s = t
      BY <3>2, <3>3, <3>4, SeqEqual
    <3> QED BY <3>5 DEF s, t
  <2> QED BY <2>1, <2>3, <2>4, <2>5 DEF text
<1>4. SelectInSeq(<<v>>, LAMBDA c : c = Space) = 0
  <2> DEFINE one == <<v>>
  <2>1. Len(one) = 1 /\ one[1] = v
    OBVIOUS
  <2> HIDE DEF one
  <2>2. {i \in 1..Len(one) : one[i] = Space} = {}
    BY <1>1, <2>1
  <2>3. SelectInSeq(one, LAMBDA c : c = Space) = 0
    BY <2>2 DEF SelectInSeq
  <2> QED BY <2>3 DEF one
<1> QED BY <1>2, <1>3, <1>4 DEF FirstField

\* A line without labels.
LEMMA SplitsNumber ==
    ASSUME NEW Tok, Marks \subseteq Tok, NEW v \in Tok, v \notin Marks
    PROVE  splitLabelsAndValue(TrimSpace(<<Space, v>>)) = {<<{}, <<v>>>>}
<1>1. TrimSpace(<<Space, v>>) = <<v>> /\ FirstField(<<v>>) = <<v>>
  BY ReadsNumber
<1>2. <<v>>[1] = v /\ v # Open
  BY DEF Marks
<1> QED BY <1>1, <1>2 DEF splitLabelsAndValue

\* A line with labels: whatever they hold, the last brace is the one that ends them.
LEMMA SplitsLabels ==
    ASSUME NEW Tok, Marks \subseteq Tok, NEW R \in Seq(Tok), NEW v \in Tok, v \notin Marks
    PROVE  LET rest == (<<Open>> \o R \o <<Close>>) \o <<Space, v>>
           IN /\ rest \in Seq(Tok) /\ rest # <<>> /\ rest[1] = Open /\ rest[Len(rest)] # Space
              /\ splitLabelsAndValue(TrimSpace(rest)) = {<<parseLabels(R), <<v>>>>}
<1> DEFINE n == Len(R)
           open == <<Open>>
           close == <<Close>>
           tail == <<Space, v>>
           body == open \o R
           head == body \o close
           rest == head \o tail
<1>1. /\ Open \in Tok /\ Close \in Tok /\ Space \in Tok /\ v # Space /\ v # Close
      /\ Open # Space /\ Close # Space
  BY MarksAre DEF Marks, Open, Close, Space
<1>2. /\ open \in Seq(Tok) /\ Len(open) = 1 /\ open[1] = Open
      /\ close \in Seq(Tok) /\ Len(close) = 1 /\ close[1] = Close
      /\ tail \in Seq(Tok) /\ Len(tail) = 2 /\ tail[1] = Space /\ tail[2] = v
      /\ n \in Nat
  BY <1>1
<1>3. FirstField(tail) = <<v>>
  BY ReadsNumber
<1> HIDE DEF open, close, tail
<1>4. /\ body \in Seq(Tok) /\ Len(body) = 1 + n /\ body[1] = Open
      /\ \A i \in 1..n : body[1 + i] = R[i]
  <2>1. /\ body \in Seq(Tok) /\ Len(body) = Len(open) + Len(R)
        /\ \A i \in 1..Len(open) : body[i] = open[i]
        /\ \A i \in 1..Len(R) : body[Len(open) + i] = R[i]
    <3>1. open \in Seq(Tok) /\ R \in Seq(Tok)
      BY <1>2
    <3> QED BY ONLY <3>1, Concatenated
  <2> HIDE DEF body
  <2> QED BY <1>2, <2>1 DEF n
<1>5. 1..n \subseteq 1..1 + n /\ \A i \in 1..n : 1 + i \in 1..1 + n
  BY <1>2
<1> HIDE DEF body, n
<1>6. /\ head \in Seq(Tok) /\ Len(head) = (1 + n) + 1
      /\ \A i \in 1..1 + n : head[i] = body[i]
      /\ head[(1 + n) + 1] = Close
  <2>1. /\ head \in Seq(Tok) /\ Len(head) = Len(body) + Len(close)
        /\ \A i \in 1..Len(body) : head[i] = body[i]
        /\ \A i \in 1..Len(close) : head[Len(body) + i] = close[i]
    <3>1. body \in Seq(Tok) /\ close \in Seq(Tok)
      BY <1>2, <1>4
    <3> QED BY ONLY <3>1, Concatenated
  <2>2. 1 \in 1..Len(close)
    BY <1>2
  <2> HIDE DEF head
  <2> QED BY <1>2, <1>4, <2>1, <2>2
<1> HIDE DEF head
<1>7. /\ rest \in Seq(Tok) /\ Len(rest) = ((1 + n) + 1) + 2
      /\ \A i \in 1..(1 + n) + 1 : rest[i] = head[i]
      /\ \A i \in 1..2 : rest[((1 + n) + 1) + i] = tail[i]
  <2>1. /\ rest \in Seq(Tok) /\ Len(rest) = Len(head) + Len(tail)
        /\ \A i \in 1..Len(head) : rest[i] = head[i]
        /\ \A i \in 1..Len(tail) : rest[Len(head) + i] = tail[i]
    <3>1. head \in Seq(Tok) /\ tail \in Seq(Tok)
      BY <1>2, <1>6
    <3> QED BY ONLY <3>1, Concatenated
  <2> HIDE DEF rest
  <2> QED BY <1>2, <1>6, <2>1
<1> HIDE DEF rest
<1>8. /\ Len(rest) = n + 4 /\ rest[1] = Open /\ rest[n + 2] = Close
      /\ rest[n + 3] = Space /\ rest[n + 4] = v
  <2>1. 1 \in 1..1 + n /\ 1 \in 1..(1 + n) + 1 /\ (1 + n) + 1 \in 1..(1 + n) + 1 /\ {1, 2} \subseteq 1..2
    BY <1>2
  <2>2. /\ (1 + n) + 1 = n + 2 /\ ((1 + n) + 1) + 2 = n + 4 /\ ((1 + n) + 1) + 1 = n + 3
    BY <1>2
  <2>3. rest[1] = Open /\ rest[(1 + n) + 1] = Close
    BY <1>4, <1>6, <1>7, <2>1
  <2>4. rest[((1 + n) + 1) + 1] = tail[1] /\ rest[((1 + n) + 1) + 2] = tail[2]
    BY <1>7, <2>1
  <2> QED BY <1>2, <1>7, <2>2, <2>3, <2>4
<1>9. SubSeq(rest, 2, n + 1) = R
  <2>1. \A i \in 1..n : rest[1 + i] = R[i]
    <3>1. \A i \in 1..n : 1 + i \in 1..(1 + n) + 1
      BY <1>2
    <3> QED BY <1>4, <1>5, <1>6, <1>7, <3>1
  <2>2. n = Len(R) /\ 1 + n <= Len(rest)
    BY <1>2, <1>8 DEF n
  <2>3. SubSeq(rest, 1 + 1, 1 + Len(R)) = R
    BY <1>7, <2>1, <2>2, Piece
  <2> QED BY <1>2, <2>2, <2>3
<1>10. SubSeq(rest, n + 3, n + 4) = tail
  <2>1. \A i \in 1..Len(tail) : rest[((1 + n) + 1) + i] = tail[i]
    BY <1>2, <1>7
  <2>2. (1 + n) + 1 \in Nat /\ ((1 + n) + 1) + Len(tail) <= Len(rest)
    BY <1>2, <1>8
  <2>3. SubSeq(rest, ((1 + n) + 1) + 1, ((1 + n) + 1) + Len(tail)) = tail
    BY <1>2, <1>7, <2>1, <2>2, Piece
  <2>4. ((1 + n) + 1) + 1 = n + 3 /\ ((1 + n) + 1) + Len(tail) = n + 4
    BY <1>2
  <2> QED BY <2>3, <2>4
<1>11. rest # <<>> /\ rest[Len(rest)] # Space
  BY <1>1, <1>2, <1>8
<1>12. TrimSpace(rest) = rest
  BY <1>1, <1>7, <1>8, <1>11, TrimSame
<1> DEFINE I == {i \in 1..Len(rest) : rest[i] = Close}
<1>13. I \in SUBSET Nat /\ n + 2 \in I /\ \A i \in I : i <= n + 2
  <2>1. \A i \in 1..Len(rest) : i <= n + 2 \/ i = n + 3 \/ i = n + 4
    BY <1>2, <1>8
  <2>2. n + 2 \in 1..Len(rest)
    BY <1>2, <1>8
  <2> QED BY <1>1, <1>8, <2>1, <2>2
<1>14. SelectLastInSeq(rest, LAMBDA c : c = Close) = n + 2
  <2>1. SelectLastInSeq(rest, LAMBDA c : c = Close) = Max(I)
    BY <1>13 DEF SelectLastInSeq
  <2> HIDE DEF I
  <2> QED BY <1>13, <2>1, MaxIs
<1>15. splitLabelsAndValue(rest) =
          {<<parseLabels(SubSeq(rest, 2, (n + 2) - 1)), FirstField(SubSeq(rest, (n + 2) + 1, Len(rest)))>>}
  <2>1. n + 2 # 0
    BY <1>2
  <2> QED BY <1>8, <1>11, <1>14, <2>1 DEF splitLabelsAndValue
<1>16. (n + 2) - 1 = n + 1 /\ (n + 2) + 1 = n + 3
  BY <1>2
<1>17. splitLabelsAndValue(TrimSpace(rest)) = {<<parseLabels(R), <<v>>>>}
  BY <1>3, <1>8, <1>9, <1>10, <1>12, <1>15, <1>16
<1> QED BY <1>7, <1>8, <1>11, <1>17 DEF rest, head, body, open, close, tail

\* What is read of a line, whatever its labels hold.
LEMMA LineRead ==
    ASSUME NEW Tok, Marks \subseteq Tok, NEW s, s.name \in Tok, s.name \notin Marks,
           s.labels \in Seq(Pairs(Tok)), s.value \in Tok, s.value \notin Marks
    PROVE  parseLine(Render(s)) =
             IF s.value \in Finite
             THEN {[name |-> <<s.name>>, labels |-> parseLabels(RenderLabels(s.labels)), value |-> <<s.value>>]}
             ELSE {}
<1> DEFINE n == s.name
           v == s.value
           rest == (IF s.labels = <<>> THEN <<>> ELSE <<Open>> \o RenderLabels(s.labels) \o <<Close>>) \o <<Space, v>>
           read == parseLabels(RenderLabels(s.labels))
<1>1. RenderLabels(s.labels) \in Seq(Tok)
  BY RenderLabelsType
<1>2. /\ rest \in Seq(Tok) /\ rest # <<>> /\ rest[1] \in {Open, Space} /\ rest[Len(rest)] # Space
      /\ splitLabelsAndValue(TrimSpace(rest)) = {<<read, <<v>>>>}
  <2>1. CASE s.labels = <<>>
    <3> DEFINE tail == <<Space, v>>
    <3>1. v # Space /\ Space \in Tok
      BY MarksAre DEF Marks
    <3>2. tail \in Seq(Tok) /\ Len(tail) = 2 /\ tail[1] = Space /\ tail[2] = v
      BY <3>1
    <3>3. <<>> \o tail = tail
      BY <3>2, ConcatEmptySeq
    <3>4. rest = tail
      BY <2>1, <3>3
    <3>5. splitLabelsAndValue(TrimSpace(tail)) = {<<{}, <<v>>>>}
      BY SplitsNumber
    <3>6. read = {}
      <4>1. read = parseLabels(<<>>)
        BY <2>1, RenderLabelsEmpty
      <4> QED BY <4>1, ReadsNothing
    <3>7. {<<{}, <<v>>>>} = {<<read, <<v>>>>}
      BY <3>6
    <3>8. tail # <<>> /\ tail[1] \in {Open, Space} /\ tail[Len(tail)] # Space
      BY <3>1, <3>2
    <3> HIDE DEF tail, rest, read, v
    <3> QED BY <3>2, <3>4, <3>5, <3>7, <3>8
  <2>2. CASE s.labels # <<>>
    <3>1. rest = (<<Open>> \o RenderLabels(s.labels) \o <<Close>>) \o <<Space, v>>
      BY <2>2
    <3> DEFINE R == RenderLabels(s.labels)
               whole == (<<Open>> \o R \o <<Close>>) \o <<Space, v>>
    <3>2. /\ whole \in Seq(Tok) /\ whole # <<>> /\ whole[1] = Open /\ whole[Len(whole)] # Space
          /\ splitLabelsAndValue(TrimSpace(whole)) = {<<parseLabels(R), <<v>>>>}
      <4> HIDE DEF R, v
      <4>1. R \in Seq(Tok) /\ v \in Tok /\ v \notin Marks
        BY <1>1 DEF R, v
      <4> QED BY <4>1, SplitsLabels
    <3> HIDE DEF rest, whole
    <3>3. rest = whole
      BY <3>1 DEF whole
    <3> QED BY <3>2, <3>3
  <2> QED BY <2>1, <2>2
<1>3. Render(s) = <<n>> \o rest
  <2> DEFINE middle == IF s.labels = <<>> THEN <<>> ELSE <<Open>> \o RenderLabels(s.labels) \o <<Close>>
             tail == <<Space, v>>
             first == <<n>>
  <2>1. first \in Seq(Tok) /\ tail \in Seq(Tok)
    <3>1. n \in Tok /\ v \in Tok /\ Space \in Tok
      BY MarksAre
    <3> HIDE DEF n, v
    <3> QED BY <3>1
  <2>2. middle \in Seq(Tok)
    <3>1. <<Open>> \in Seq(Tok) /\ <<Close>> \in Seq(Tok)
      <4>1. Open \in Tok /\ Close \in Tok
        BY MarksAre
      <4> QED BY <4>1
    <3> QED BY <1>1, <3>1
  <2>3. Render(s) = first \o middle \o tail
    BY DEF Render
  <2>4. rest = middle \o tail
    OBVIOUS
  <2> HIDE DEF first, middle, tail, rest
  <2>5. Render(s) = first \o rest
    BY <2>1, <2>2, <2>3, <2>4, ConcatAssociative
  <2> QED BY <2>5 DEF first
<1> HIDE DEF rest
<1>4. parseLine(<<n>> \o rest) =
        {[name |-> <<n>>, labels |-> lv[1], value |-> lv[2]] :
            lv \in {x \in splitLabelsAndValue(TrimSpace(rest)) : Len(x[2]) = 1 /\ x[2][1] \in Finite}}
  BY <1>2, ReadsName
<1>5. Len(<<v>>) = 1 /\ <<v>>[1] = v
  OBVIOUS
<1> HIDE DEF n, v, read
<1>6. {x \in {<<read, <<v>>>>} : Len(x[2]) = 1 /\ x[2][1] \in Finite} = IF v \in Finite THEN {<<read, <<v>>>>} ELSE {}
  BY <1>5
<1> DEFINE X == {x \in splitLabelsAndValue(TrimSpace(rest)) : Len(x[2]) = 1 /\ x[2][1] \in Finite}
           one == <<read, <<v>>>>
<1>8. X = IF v \in Finite THEN {one} ELSE {}
  BY <1>2, <1>6
<1>9. one[1] = read /\ one[2] = <<v>>
  OBVIOUS
<1>10. parseLine(Render(s)) = {[name |-> <<n>>, labels |-> lv[1], value |-> lv[2]] : lv \in X}
  BY <1>3, <1>4
<1> HIDE DEF X, one
<1>7. parseLine(Render(s)) = IF v \in Finite THEN {[name |-> <<n>>, labels |-> read, value |-> <<v>>]} ELSE {}
  BY <1>8, <1>9, <1>10
<1> QED BY <1>7 DEF n, v, read

\* The line of a sample whose labels have different keys.
LEMMA LineRecovered ==
    ASSUME NEW Tok, Marks \subseteq Tok, NEW s, s.name \in Tok, s.name \notin Marks,
           s.labels \in Seq(Pairs(Tok)), s.value \in Tok, s.value \notin Marks,
           Distinct(s.labels), \A i \in DOMAIN s.labels : s.labels[i][1] \notin Marks
    PROVE  Recovered(s)
<1> DEFINE read == parseLabels(RenderLabels(s.labels))
           p == [name |-> <<s.name>>, labels |-> read, value |-> <<s.value>>]
<1>1. parseLine(Render(s)) = IF s.value \in Finite THEN {p} ELSE {}
  BY LineRead
<1>2. Readable(s) => read = AsRead(s.labels)
  <2>1. ASSUME Readable(s) PROVE Plain(s.labels)
    BY <2>1 DEF Readable, Plain
  <2> QED BY <2>1, LabelsRecovered
<1> HIDE DEF read
<1>3. p.name = <<s.name>> /\ p.value = <<s.value>> /\ p.labels = read
  OBVIOUS
<1> HIDE DEF p
<1> QED BY <1>1, <1>2, <1>3 DEF Recovered
-----------------------------------------------------------------------------
(***************************************************************************)
(* No key twice.                                                           *)
(***************************************************************************)
Unique(object) == \A p, q \in object : p[1] = q[1] => p = q

LEMMA FlushUnique ==
    ASSUME NEW Tok, Marks \subseteq Tok, NEW p \in ParserStates(Tok), Unique(p.out)
    PROVE  Unique(Flush(p).out)
<1> DEFINE k == TrimSpace(p.key)
           out == Flush(p).out
<1>1. out = IF k = <<>> THEN p.out ELSE {l \in p.out : l[1] # k} \cup {<<k, p.val>>}
  BY FlushFields
<1> HIDE DEF k, out
<1>2. <<k, p.val>>[1] = k
  OBVIOUS
<1>3. Unique(out)
  BY <1>1, <1>2 DEF Unique
<1> QED BY <1>3 DEF out

LEMMA LabelsUnique ==
    ASSUME NEW Tok, Marks \subseteq Tok, NEW text \in Seq(Tok)
    PROVE  Unique(Labels(text).out)
<1> DEFINE I == {t \in Seq(Tok) : Unique(Labels(t).out)}
<1>1. <<>> \in I
  <2>1. LabelStart.out = {}
    BY DEF LabelStart
  <2>2. Unique(Labels(<<>>).out)
    BY <2>1, LabelsEmpty DEF Unique
  <2> QED BY <2>2
<1>2. ASSUME NEW t \in Seq(Tok), NEW c \in Tok, t \in I PROVE Append(t, c) \in I
  <2> DEFINE p == Labels(t)
             q == LabelStep(p, c)
  <2>1. p \in ParserStates(Tok) /\ Labels(Append(t, c)) = q
    BY LabelsAppend
  <2>2. Unique(p.out)
    BY <1>2
  <2>3. q.out = p.out \/ q.out = Flush(p).out
    <3> HIDE DEF p
    <3> QED BY <2>1, StepFields
  <2>4. Unique(q.out)
    <3> HIDE DEF p, q
    <3> QED BY <2>1, <2>2, <2>3, FlushUnique
  <2>5. Append(t, c) \in Seq(Tok)
    OBVIOUS
  <2> QED BY <2>1, <2>4, <2>5
<1> HIDE DEF I
<1>3. text \in I
  BY <1>1, <1>2, Sequences
<1> QED BY <1>3 DEF I

LEMMA ParsedUnique ==
    ASSUME NEW Tok, Marks \subseteq Tok, NEW text \in Seq(Tok)
    PROVE  Unique(parseLabels(text))
<1>1. Labels(text) \in ParserStates(Tok)
  <2>1. Space \in Tok
    BY MarksAre
  <2> QED BY <2>1, LabelsAppend
<1> QED BY <1>1, LabelsUnique, FlushUnique DEF parseLabels
-----------------------------------------------------------------------------
(***************************************************************************)
(* The first member of a sequence that is in a set.                         *)
(***************************************************************************)
LEMMA SetToSeqEmpty == SetToSeq({}) = <<>>
<1> DEFINE D == 1..Cardinality({})
           g == CHOOSE f \in [D -> {}] : IsInjective(f)
           none == <<>>
<1>1. D = {}
  BY FS_EmptySet
<1>2. SetToSeq({}) = g
  BY DEF SetToSeq
<1> HIDE DEF D
<1>3. none \in [D -> {}] /\ IsInjective(none)
  BY <1>1 DEF IsInjective
<1>4. g \in [D -> {}]
  <2> HIDE DEF none
  <2> QED BY <1>3
<1> HIDE DEF g
<1>5. g = [i \in {} |-> g[i]]
  BY <1>1, <1>4
<1>6. <<>> = [i \in {} |-> g[i]]
  OBVIOUS
<1> QED BY <1>2, <1>5, <1>6

LEMMA SetToSeqOne ==
    ASSUME NEW x
    PROVE  SetToSeq({x}) = <<x>>
<1>1. Cardinality({x}) = 1
  BY FS_Singleton
<1> DEFINE g == CHOOSE f \in [1..Cardinality({x}) -> {x}] : IsInjective(f)
           one == <<x>>
<1>2. one \in [1..Cardinality({x}) -> {x}] /\ IsInjective(one)
  BY <1>1 DEF IsInjective
<1>3. g \in [1..Cardinality({x}) -> {x}]
  <2> HIDE DEF one
  <2> QED BY <1>2
<1> HIDE DEF g
<1>4. g = one
  <2>1. g \in Seq({x}) /\ Len(g) = 1 /\ g[1] = x
    <3>1. g \in [1..1 -> {x}]
      BY <1>1, <1>3
    <3>2. g[1] = x /\ DOMAIN g = 1..1
      BY <3>1
    <3>3. g \in Seq({x})
      BY <3>1
    <3>4. Len(g) = 1
      BY <3>2, <3>3
    <3> QED BY <3>2, <3>3, <3>4
  <2>2. one \in Seq({x}) /\ Len(one) = 1 /\ one[1] = x
    OBVIOUS
  <2> HIDE DEF one
  <2>3. \A i \in 1..Len(g) : g[i] = one[i]
    BY <2>1, <2>2
  <2> QED BY <2>1, <2>2, <2>3, SeqEqual
<1> QED BY <1>4 DEF g, SetToSeq

\* There is at most one; it is a member of both.
LEMMA FirstInOne ==
    ASSUME NEW S, NEW seq \in Seq(S), NEW A, NEW x \in FirstIn(seq, A), NEW y \in FirstIn(seq, A)
    PROVE  x = y /\ x \in S /\ x \in A
<1> DEFINE places == {i \in DOMAIN seq : seq[i] \in A}
<1>1. PICK i \in places : x = seq[i] /\ \A k \in places : i <= k
  BY DEF FirstIn
<1>2. PICK j \in places : y = seq[j] /\ \A k \in places : j <= k
  BY DEF FirstIn
<1>3. i \in Nat /\ j \in Nat /\ i <= j /\ j <= i
  BY <1>1, <1>2
<1>4. seq[i] \in S
  OBVIOUS
<1> QED BY <1>1, <1>2, <1>3, <1>4

\* Only the members of the sequence matter.
LEMMA FirstInSame ==
    ASSUME NEW S, NEW seq \in Seq(S), NEW A, NEW B, \A x \in S : x \in A <=> x \in B
    PROVE  FirstIn(seq, A) = FirstIn(seq, B)
<1>1. {i \in DOMAIN seq : seq[i] \in A} = {i \in DOMAIN seq : seq[i] \in B}
  OBVIOUS
<1> QED BY <1>1 DEF FirstIn

LEMMA FirstInEmpty ==
    ASSUME NEW A
    PROVE  FirstIn(<<>>, A) = {}
BY DEF FirstIn

\* One more element counts when none before it did.
LEMMA FirstInAppend ==
    ASSUME NEW S, NEW seq \in Seq(S), NEW e \in S, NEW A
    PROVE  FirstIn(Append(seq, e), A) =
             IF FirstIn(seq, A) # {} THEN FirstIn(seq, A) ELSE IF e \in A THEN {e} ELSE {}
<1> DEFINE more == Append(seq, e)
           n == Len(seq)
           P == {i \in DOMAIN seq : seq[i] \in A}
           Q == {i \in DOMAIN more : more[i] \in A}
<1>1. /\ n \in Nat /\ DOMAIN seq = 1..n /\ DOMAIN more = 1..n + 1
      /\ more[n + 1] = e /\ \A i \in 1..n : more[i] = seq[i]
  OBVIOUS
<1>2. FirstIn(seq, A) = {seq[i] : i \in {j \in P : \A k \in P : j <= k}}
  BY DEF FirstIn
<1>3. FirstIn(more, A) = {more[i] : i \in {j \in Q : \A k \in Q : j <= k}}
  BY DEF FirstIn
<1> HIDE DEF more
<1>4. Q = P \cup (IF e \in A THEN {n + 1} ELSE {}) /\ P \subseteq 1..n
  <2>1. 1..n + 1 = 1..n \cup {n + 1} /\ n + 1 \notin 1..n
    BY <1>1
  <2> QED BY <1>1, <2>1
<1>5. CASE P = {}
  <2>1. FirstIn(seq, A) = {}
    BY <1>2, <1>5
  <2>2. {j \in Q : \A k \in Q : j <= k} = IF e \in A THEN {n + 1} ELSE {}
    BY <1>1, <1>4, <1>5
  <2>3. FirstIn(more, A) = IF e \in A THEN {e} ELSE {}
    BY <1>1, <1>3, <2>2
  <2> QED BY <2>1, <2>3 DEF more
<1>6. CASE P # {}
  <2>1. PICK m \in P : \A k \in P : m <= k
    <3>1. P \in SUBSET Nat
      BY <1>1
    <3> HIDE DEF P
    <3> QED BY <1>6, <3>1, LeastNumber
  <2>2. \A k \in P : k \in Nat /\ k <= n
    BY <1>1, <1>4
  <2>3. \A k \in Q : m <= k
    BY <1>1, <1>4, <2>1, <2>2
  <2>4. \A j \in P : (\A k \in P : j <= k) <=> j = m
    BY <2>1, <2>2
  <2>5. \A j \in Q : (\A k \in Q : j <= k) <=> j = m
    BY <1>1, <1>4, <2>1, <2>2, <2>3
  <2>6. {j \in P : \A k \in P : j <= k} = {m} /\ {j \in Q : \A k \in Q : j <= k} = {m}
    BY <1>4, <2>1, <2>4, <2>5
  <2>7. more[m] = seq[m]
    BY <1>1, <1>4, <2>1
  <2>8. FirstIn(seq, A) = {seq[m]} /\ FirstIn(more, A) = {seq[m]}
    BY <1>2, <1>3, <2>6, <2>7
  <2> QED BY <2>8 DEF more
<1> QED BY <1>5, <1>6
-----------------------------------------------------------------------------
(***************************************************************************)
(* A scrape, and what the reader makes of it.                               *)
(***************************************************************************)
Tokens ==
    Marks \cup Chars \cup Floats \cup Numbers \cup {ByReason, CacheConfig}
    \cup {"model_name", "reason", "capacity", "deferred", "engine", "True", "None",
          "enable_prefix_caching", "kv_cache_size_tokens", "kv_cache_max_concurrency"}

\* What a line is, as the lemmas above ask for it.
LEMMA LineTypes ==
    ASSUME NEW s \in Lines
    PROVE  /\ Marks \subseteq Tokens
           /\ s.name \in Tokens /\ s.name \notin Marks /\ s.value \in Tokens /\ s.value \notin Marks
           /\ s.labels \in Seq(Pairs(Tokens)) /\ Distinct(s.labels)
           /\ Len(s.labels) = 2 /\ s.labels[1][1] = "model_name" /\ s.labels[1][2] \in Seq(Tokens)
           /\ s.labels[2] \in MoreLabels(s.name)
           /\ \A i \in DOMAIN s.labels : s.labels[i][1] \notin Marks
<1> DEFINE names == Numbers \cup {ByReason, CacheConfig}
           mores == UNION {MoreLabels(n) : n \in names}
<1>1. Marks \subseteq Tokens
  BY DEF Tokens
<1>2. s.name \in names /\ s.value \in Floats /\ s.labels[2] \in MoreLabels(s.name)
      /\ s.labels \in ({"model_name"} \X Seq(Chars)) \X mores
  BY DEF Lines
<1>3. \A n \in names : n \in Tokens /\ n \notin Marks
  BY DEF Tokens, Marks, Numbers, ByReason, CacheConfig, KVCache, Queries, Hits, Running, Waiting, Preemptions, Space, Comma, Equals, Open, Close, Quote, Backslash
<1>4. \A v \in Floats : v \in Tokens /\ v \notin Marks
  BY DEF Tokens, Marks, Floats, Finite, Space, Comma, Equals, Open, Close, Quote, Backslash
<1>5. ASSUME NEW n \in names, NEW more \in MoreLabels(n)
      PROVE  more \in Pairs(Tokens) /\ more[1] \notin Marks /\ more[1] # "model_name"
  <2> DEFINE heads == {"reason", "engine", "enable_prefix_caching", "kv_cache_size_tokens", "kv_cache_max_concurrency"}
             words == {"capacity", "deferred", "True", "None", "1", "0", "+Inf"}
  <2>1. \E h \in heads, w \in words : more = <<h, <<w>>>>
    BY <1>5 DEF MoreLabels
  <2>2. PICK h \in heads, w \in words : more = <<h, <<w>>>>
    BY <2>1
  <2>3. h \in Tokens /\ h # "model_name"
    BY DEF Tokens
  <2>4. h \notin Marks
    BY DEF Marks, Space, Comma, Equals, Open, Close, Quote, Backslash
  <2>5. w \in Tokens
    BY DEF Tokens, Floats, Finite
  <2> HIDE DEF heads, words
  <2>6. <<w>> \in Seq(Tokens)
    BY <2>5
  <2> QED BY <2>2, <2>3, <2>4, <2>6 DEF Pairs
<1>6. PICK m \in Seq(Chars), more \in mores : s.labels = <<<<"model_name", m>>, more>>
  BY <1>2
<1>7. more \in MoreLabels(s.name) /\ more \in Pairs(Tokens) /\ more[1] \notin Marks /\ more[1] # "model_name"
  BY <1>2, <1>5, <1>6
<1> DEFINE first == <<"model_name", m>>
<1>8. m \in Seq(Tokens)
  <2>1. Chars \subseteq Tokens
    BY DEF Tokens
  <2> QED BY <2>1
<1>9. first[1] = "model_name" /\ first[2] = m
  OBVIOUS
<1>10. "model_name" \in Tokens /\ "model_name" \notin Marks
  BY DEF Tokens, Marks, Space, Comma, Equals, Open, Close, Quote, Backslash
<1>11. first \in Pairs(Tokens)
  BY <1>8, <1>10 DEF Pairs
<1>12. s.labels = <<first, more>>
  BY <1>6
<1> HIDE DEF names, mores, first
<1>13. s.labels \in Seq(Pairs(Tokens)) /\ Len(s.labels) = 2 /\ s.labels[1] = first /\ s.labels[2] = more
  <2> DEFINE Few == Pairs(Tokens)
  <2>1. first \in Few /\ more \in Few
    BY <1>7, <1>11
  <2> HIDE DEF Few
  <2>2. s.labels \in Seq(Few) /\ Len(s.labels) = 2 /\ s.labels[1] = first /\ s.labels[2] = more
    BY <1>12, <2>1
  <2> QED BY <2>2 DEF Few
<1>14. Distinct(s.labels)
  <2>1. DOMAIN s.labels = {1, 2}
    BY <1>12
  <2> QED BY <1>7, <1>9, <1>13, <2>1 DEF Distinct
<1>15. \A i \in DOMAIN s.labels : s.labels[i][1] \notin Marks
  <2>1. DOMAIN s.labels = {1, 2}
    BY <1>12
  <2> QED BY <1>7, <1>9, <1>10, <1>13, <2>1
<1> QED BY <1>1, <1>2, <1>3, <1>4, <1>7, <1>8, <1>9, <1>13, <1>14, <1>15

\* Every line of an engine is recovered.
LEMMA LinesAreRecovered ==
    ASSUME NEW s \in Lines
    PROVE  Recovered(s)
<1> HIDE DEF Lines, Tokens
<1> QED BY LineTypes, LineRecovered

\* What the reader makes of a line with a number.
Image(s) == [name |-> <<s.name>>, labels |-> parseLabels(RenderLabels(s.labels)), value |-> <<s.value>>]
Finites == {s \in Lines : s.value \in Finite}
Images == {Image(s) : s \in Finites}

LEMMA LineImage ==
    ASSUME NEW s \in Lines
    PROVE  SetToSeq(parseLine(Render(s))) = IF s.value \in Finite THEN <<Image(s)>> ELSE <<>>
<1>1. parseLine(Render(s)) = IF s.value \in Finite THEN {Image(s)} ELSE {}
  BY LineTypes, LineRead DEF Image
<1> QED BY <1>1, SetToSeqEmpty, SetToSeqOne

OfLine(s) == SetToSeq(parseLine(Render(s)))

LEMMA OfLineType ==
    ASSUME NEW s \in Lines
    PROVE  /\ OfLine(s) = IF s.value \in Finite THEN <<Image(s)>> ELSE <<>>
           /\ OfLine(s) \in Seq(Images)
<1>1. OfLine(s) = IF s.value \in Finite THEN <<Image(s)>> ELSE <<>>
  BY LineImage DEF OfLine
<1>2. ASSUME s.value \in Finite PROVE <<Image(s)>> \in Seq(Images)
  <2>1. Image(s) \in Images
    BY <1>2 DEF Images, Finites
  <2> HIDE DEF Image
  <2> QED BY <2>1
<1>3. <<>> \in Seq(Images)
  OBVIOUS
<1> QED BY <1>1, <1>2, <1>3

LEMMA ParsedSteps ==
    ASSUME NEW lines \in Seq(Lines)
    PROVE  \E f \in [0..Len(lines) -> Seq(Images)] :
              /\ f[0] = <<>>
              /\ \A i \in 1..Len(lines) : f[i] = f[i - 1] \o OfLine(lines[i])
              /\ Parsed(lines) = f[Len(lines)]
<1> DEFINE n == Len(lines)
           S == Seq(Images)
           base == <<>>
           G(x, i) == x \o OfLine(lines[i])
           Def(f) == f = [i \in 0..n |-> IF i = 0 THEN base ELSE G(f[i - 1], i)]
           t == CHOOSE g : Def(g)
<1>1. n \in Nat /\ \A i \in 1..n : lines[i] \in Lines
  OBVIOUS
<1>2. base \in S
  OBVIOUS
<1>3. \A x \in S, i \in 1..n : G(x, i) \in S
  BY <1>1, OfLineType
<1>4. Parsed(lines) = t[n]
  BY DEF Parsed, OfLine
<1> HIDE DEF n, S, base, G
<1> DEFINE step == [z \in S \X (1..n) |-> G(z[1], z[2])]
<1>5. step \in [S \X (1..n) -> S]
  BY <1>3
<1>6. PICK f : Follows(f, S, n, base, step)
  <2> HIDE DEF step
  <2> QED BY <1>1, <1>2, <1>5, Recursion
<1>7. \A i \in 1..n : f[i] = G(f[i - 1], i)
  <2> SUFFICES ASSUME NEW i \in 1..n PROVE f[i] = G(f[i - 1], i)
    OBVIOUS
  <2>1. i - 1 \in 0..n
    BY <1>1
  <2>2. f[i - 1] \in S /\ f[i] = step[<<f[i - 1], i>>]
    BY <1>6, <2>1 DEF Follows
  <2>3. \A z \in S \X (1..n) : step[z] = G(z[1], z[2])
    OBVIOUS
  <2> HIDE DEF step
  <2> QED BY <2>2, <2>3
<1> HIDE DEF step
<1>8. Def(f)
  <2>1. \A i \in 0..n : f[i] = IF i = 0 THEN base ELSE G(f[i - 1], i)
    BY <1>1, <1>6, <1>7 DEF Follows
  <2>2. f \in [0..n -> S]
    BY <1>6 DEF Follows
  <2> QED BY <2>1, <2>2
<1>9. Def(t)
  <2> HIDE DEF Def
  <2> QED BY <1>8
<1> HIDE DEF t
<1>10. t[0] = base /\ \A i \in 1..n : t[i] = G(t[i - 1], i)
  BY <1>1, <1>9
<1>11. t[n] = f[n]
  <2>1. t[0] = f[0] /\ \A i \in 1..n : t[i - 1] = f[i - 1] => t[i] = f[i]
    BY <1>6, <1>7, <1>10 DEF Follows
  <2> QED BY <1>1, <2>1, Agree
<1>12. f \in [0..n -> S] /\ f[0] = base /\ (\A i \in 1..n : f[i] = G(f[i - 1], i)) /\ Parsed(lines) = f[n]
  BY <1>4, <1>6, <1>7, <1>11 DEF Follows
<1> QED BY <1>12 DEF n, S, base, G

LEMMA ParsedEmpty == Parsed(<<>>) = <<>>
<1> DEFINE none == <<>>
<1>3. none \in Seq(Lines) /\ Len(none) = 0
  OBVIOUS
<1> HIDE DEF none
<1>4. PICK f \in [0..Len(none) -> Seq(Images)] :
              /\ f[0] = <<>>
              /\ \A i \in 1..Len(none) : f[i] = f[i - 1] \o OfLine(none[i])
              /\ Parsed(none) = f[Len(none)]
  BY <1>3, ParsedSteps
<1> QED BY <1>3, <1>4 DEF none

LEMMA ParsedAppends ==
    ASSUME NEW lines \in Seq(Lines), NEW c \in Lines
    PROVE  /\ Parsed(Append(lines, c)) = Parsed(lines) \o OfLine(c)
           /\ Parsed(lines) \in Seq(Images)
<1> DEFINE more == Append(lines, c)
           n == Len(lines)
           k == Len(more)
           S == Seq(Images)
           G(x, e, i) == x \o OfLine(e)
<1>1. /\ more \in Seq(Lines) /\ k = n + 1 /\ n \in Nat
      /\ more[n + 1] = c /\ \A i \in 1..n : more[i] = lines[i]
  OBVIOUS
<1>2. PICK f \in [0..n -> S] :
              /\ f[0] = <<>>
              /\ \A i \in 1..n : f[i] = G(f[i - 1], lines[i], i)
              /\ Parsed(lines) = f[n]
  BY ParsedSteps
<1>3. PICK g \in [0..k -> S] :
              /\ g[0] = <<>>
              /\ \A i \in 1..k : g[i] = G(g[i - 1], more[i], i)
              /\ Parsed(more) = g[k]
  <2> HIDE DEF more
  <2> QED BY <1>1, ParsedSteps
<1> HIDE DEF more, n, k, S, G
<1>4. \A i \in 1..n : f[i - 1] = g[i - 1] => f[i] = g[i]
  <2>1. \A i \in 1..n : i \in 1..k /\ more[i] = lines[i]
    BY <1>1
  <2> QED BY <2>1, <1>2, <1>3
<1>5. f[n] = g[n]
  <2>1. n \in Nat /\ f[0] = g[0]
    BY <1>1, <1>2, <1>3
  <2> QED BY <1>4, <2>1, Agree
<1>6. g[k] = G(g[n], c, n + 1)
  <2>1. k \in 1..k /\ k - 1 = n
    BY <1>1
  <2> QED BY <1>1, <1>3, <2>1
<1>7. f[n] \in S
  BY <1>1, <1>2
<1>8. Parsed(more) = G(Parsed(lines), c, n + 1) /\ Parsed(lines) \in S
  BY <1>2, <1>3, <1>5, <1>6, <1>7
<1> QED BY <1>8 DEF more, n, S, G

LEMMA ParsedAppend ==
    ASSUME NEW lines \in Seq(Lines), NEW s \in Lines
    PROVE  /\ Parsed(Append(lines, s)) = IF s.value \in Finite THEN Append(Parsed(lines), Image(s)) ELSE Parsed(lines)
           /\ Parsed(lines) \in Seq(Images)
<1>1. Parsed(Append(lines, s)) = Parsed(lines) \o OfLine(s) /\ Parsed(lines) \in Seq(Images)
  BY ParsedAppends
<1>2. CASE s.value \in Finite
  <2>1. Image(s) \in Images
    BY <1>2 DEF Images, Finites
  <2>2. OfLine(s) = <<Image(s)>>
    BY <1>2, OfLineType
  <2> QED BY <1>1, <1>2, <2>1, <2>2, AppendIsConcat
<1>3. CASE s.value \notin Finite
  <2>1. OfLine(s) = <<>>
    BY <1>3, OfLineType
  <2> QED BY <1>1, <1>3, <2>1, ConcatEmptySeq
<1> QED BY <1>2, <1>3

\* The reader makes no more of a scrape than it has lines.
LEMMA ParsedLength ==
    ASSUME NEW lines \in Seq(Lines)
    PROVE  Parsed(lines) \in Seq(Images) /\ Len(Parsed(lines)) <= Len(lines)
<1> DEFINE I == {ls \in Seq(Lines) : Parsed(ls) \in Seq(Images) /\ Len(Parsed(ls)) <= Len(ls)}
<1>1. <<>> \in I
  <2>1. <<>> \in Seq(Lines) /\ <<>> \in Seq(Images) /\ Len(<<>>) <= Len(<<>>)
    OBVIOUS
  <2> QED BY <2>1, ParsedEmpty
<1>2. ASSUME NEW ls \in Seq(Lines), NEW s \in Lines, ls \in I PROVE Append(ls, s) \in I
  <2> DEFINE m == Parsed(ls)
             more == Append(ls, s)
  <2>1. m \in Seq(Images) /\ Len(m) <= Len(ls)
    BY <1>2
  <2>2. more \in Seq(Lines) /\ Len(more) = Len(ls) + 1 /\ Len(ls) \in Nat
    OBVIOUS
  <2>3. Parsed(more) = IF s.value \in Finite THEN Append(m, Image(s)) ELSE m
    BY ParsedAppend
  <2>4. s.value \in Finite => Image(s) \in Images
    BY DEF Images, Finites
  <2> HIDE DEF m, more
  <2>5. Parsed(more) \in Seq(Images) /\ Len(Parsed(more)) <= Len(more)
    <3>1. CASE s.value \in Finite
      <4>1. Append(m, Image(s)) \in Seq(Images) /\ Len(Append(m, Image(s))) = Len(m) + 1
        BY <2>1, <2>4, <3>1, AppendProperties
      <4> QED BY <2>1, <2>2, <2>3, <3>1, <4>1
    <3>2. CASE s.value \notin Finite
      BY <2>1, <2>2, <2>3, <3>2
    <3> QED BY <3>1, <3>2
  <2> QED BY <2>2, <2>5 DEF more
<1> HIDE DEF I
<1>3. lines \in I
  BY <1>1, <1>2, Sequences
<1> QED BY <1>3 DEF I

\* What is first among what was read is what was first among what was written.
LEMMA FirstParsed ==
    ASSUME NEW lines \in Seq(Lines), NEW A
    PROVE  FirstIn(Parsed(lines), A) = {Image(s) : s \in FirstIn(lines, {t \in Finites : Image(t) \in A})}
<1> DEFINE B == {t \in Finites : Image(t) \in A}
           Img(T) == {Image(s) : s \in T}
           J(ls) == FirstIn(Parsed(ls), A) = Img(FirstIn(ls, B))
           I == {ls \in Seq(Lines) : J(ls)}
<1>1. <<>> \in I
  <2>1. J(<<>>)
    BY ParsedEmpty, FirstInEmpty
  <2> HIDE DEF J
  <2> QED BY <2>1
<1>2. ASSUME NEW ls \in Seq(Lines), NEW e \in Lines, ls \in I PROVE Append(ls, e) \in I
  <2> DEFINE m == Parsed(ls)
             more == Append(ls, e)
  <2>1. m \in Seq(Images) /\ J(ls)
    BY <1>2, ParsedLength
  <2>2. Parsed(more) = IF e.value \in Finite THEN Append(m, Image(e)) ELSE m
    BY ParsedAppend
  <2>3. FirstIn(more, B) = IF FirstIn(ls, B) # {} THEN FirstIn(ls, B) ELSE IF e \in B THEN {e} ELSE {}
    BY FirstInAppend
  <2>4. e \in B <=> e.value \in Finite /\ Image(e) \in A
    BY DEF Finites
  <2>8. Img({}) = {} /\ Img({e}) = {Image(e)} /\ \A T : T # {} => Img(T) # {}
    OBVIOUS
  <2>5. ASSUME e.value \in Finite PROVE J(more)
    <3>1. Image(e) \in Images
      BY <2>5 DEF Images, Finites
    <3> DEFINE im == Image(e)
    <3> HIDE DEF m
    <3>2. FirstIn(Append(m, im), A) = IF FirstIn(m, A) # {} THEN FirstIn(m, A) ELSE IF im \in A THEN {im} ELSE {}
      BY <2>1, <3>1, FirstInAppend
    <3>3. FirstIn(m, A) = Img(FirstIn(ls, B))
      BY <2>1 DEF m
    <3>4. Parsed(more) = Append(m, im)
      BY <2>2, <2>5
    <3>5. im \in A <=> e \in B
      BY <2>4, <2>5
    <3> HIDE DEF more, B, Img
    <3>6. J(more)
      <4>1. CASE FirstIn(ls, B) # {}
        BY <2>3, <2>8, <3>2, <3>3, <3>4, <4>1
      <4>2. CASE FirstIn(ls, B) = {}
        <5>1. FirstIn(m, A) = {}
          BY <2>8, <3>3, <4>2
        <5> QED BY <2>3, <2>8, <3>2, <3>4, <3>5, <4>2, <5>1
      <4> QED BY <4>1, <4>2
    <3> QED BY <3>6
  <2>6. ASSUME e.value \notin Finite PROVE J(more)
    <3>1. FirstIn(m, A) = Img(FirstIn(ls, B))
      BY <2>1
    <3>2. FirstIn(more, B) = FirstIn(ls, B)
      BY <2>3, <2>4, <2>6
    <3>3. Parsed(more) = m
      BY <2>2, <2>6
    <3> HIDE DEF more, m, B, Img
    <3> QED BY <3>1, <3>2, <3>3
  <2>7. J(more)
    BY <2>5, <2>6
  <2> HIDE DEF J
  <2> QED BY <2>7
<1> HIDE DEF I
<1>3. lines \in I
  BY <1>1, <1>2, Sequences
<1> QED BY <1>3 DEF I

\* What follows the model's name is one word, which is read as it is written.
LEMMA MoreTypes ==
    ASSUME NEW s \in Lines
    PROVE  /\ s.labels[2][1] # "model_name"
           /\ \E w \in Tokens : w \notin Marks /\ s.labels[2][2] = <<w>>
           /\ Escaped(s.labels[2][2]) = s.labels[2][2] /\ ~EndsInBackslash(s.labels[2])
<1> DEFINE more == s.labels[2]
           heads == {"reason", "engine", "enable_prefix_caching", "kv_cache_size_tokens", "kv_cache_max_concurrency"}
           words == {"capacity", "deferred", "True", "None", "1", "0", "+Inf"}
<1>1. \E h \in heads, w \in words : more = <<h, <<w>>>>
  BY LineTypes DEF MoreLabels
<1>2. PICK h \in heads, w \in words : more = <<h, <<w>>>>
  BY <1>1
<1>3. h # "model_name"
  OBVIOUS
<1>4. w \in Tokens /\ w \notin Marks
  BY DEF Tokens, Floats, Finite, Marks, Space, Comma, Equals, Open, Close, Quote, Backslash
<1> HIDE DEF heads, words
<1>5. Escaped(<<w>>) = <<w>>
  BY <1>4, EscapedWord, LineTypes
<1>6. ~EndsInBackslash(more)
  <2>1. Last(<<w>>) = w
    BY DEF Last
  <2>2. w # Backslash
    BY <1>4 DEF Marks
  <2> QED BY <1>2, <2>1, <2>2 DEF EndsInBackslash
<1>7. more[1] = h /\ more[2] = <<w>>
  BY <1>2
<1> HIDE DEF more
<1>8. /\ more[1] # "model_name" /\ \E x \in Tokens : x \notin Marks /\ more[2] = <<x>>
      /\ Escaped(more[2]) = more[2] /\ ~EndsInBackslash(more)
  BY <1>3, <1>4, <1>5, <1>6, <1>7
<1> QED BY <1>8 DEF more

\* The labels that the reader finds on a line.
LEMMA LineLabels ==
    ASSUME NEW s \in Lines
    PROVE  LET L == parseLabels(RenderLabels(s.labels))
           IN /\ Readable(s) => L = {<<<<"model_name">>, Escaped(s.labels[1][2])>>,
                                    <<<<s.labels[2][1]>>, s.labels[2][2]>>}
              /\ ~Readable(s) => \A l \in L : l[1] = <<"model_name">>
<1> DEFINE a == s.labels[1]
           b == s.labels[2]
           L == parseLabels(RenderLabels(s.labels))
           Few == Pairs(Tokens)
<1>1. /\ Marks \subseteq Tokens /\ s.labels \in Seq(Few) /\ Len(s.labels) = 2
      /\ a[1] = "model_name" /\ Distinct(s.labels)
      /\ \A i \in DOMAIN s.labels : s.labels[i][1] \notin Marks
  BY LineTypes
<1>2. PICK w \in Tokens : w \notin Marks /\ b[2] = <<w>>
  BY MoreTypes
<1>3. Escaped(b[2]) = b[2] /\ ~EndsInBackslash(b)
  BY MoreTypes
<1> HIDE DEF Few
<1>4. a \in Few /\ b \in Few /\ DOMAIN s.labels = {1, 2} /\ s.labels = <<a, b>>
  <2>1. a \in Few /\ b \in Few /\ DOMAIN s.labels = {1, 2}
    BY <1>1
  <2> DEFINE both == <<a, b>>
  <2>2. both \in Seq(Few) /\ Len(both) = 2 /\ both[1] = a /\ both[2] = b
    BY <2>1
  <2> HIDE DEF both
  <2>3. \A i \in 1..Len(s.labels) : s.labels[i] = both[i]
    BY <1>1, <2>2
  <2>4. s.labels = both
    BY <1>1, <2>2, <2>3, SeqEqual
  <2> QED BY <2>1, <2>4 DEF both
<1>5. ToSet(s.labels) = {a, b}
  BY <1>4 DEF ToSet
<1>6. Readable(s) <=> ~EndsInBackslash(a)
  BY <1>3, <1>4 DEF Readable
<1>7. ASSUME Readable(s) PROVE L = {<<<<a[1]>>, Escaped(a[2])>>, <<<<b[1]>>, b[2]>>}
  <2>1. Plain(s.labels)
    BY <1>1, <1>7 DEF Plain, Readable
  <2>2. L = AsRead(s.labels)
    BY <1>1, <2>1, LabelsRecovered DEF Few
  <2>3. AsRead(s.labels) = {<<<<a[1]>>, Escaped(a[2])>>, <<<<b[1]>>, Escaped(b[2])>>}
    BY <1>5 DEF AsRead
  <2> QED BY <1>3, <2>2, <2>3
<1>8. ASSUME ~Readable(s) PROVE \A l \in L : l[1] = <<a[1]>>
  <2>1. a[1] \notin Marks /\ b[1] \notin Marks /\ EndsInBackslash(a)
    BY <1>1, <1>4, <1>6, <1>8
  <2> HIDE DEF a, b
  <2>2. \A l \in parseLabels(RenderLabels(<<a, b>>)) : l[1] = <<a[1]>>
    BY <1>1, <1>2, <1>4, <2>1, LabelSwallowed DEF Few
  <2> QED BY <1>4, <2>2
<1> HIDE DEF L
<1>9. /\ Readable(s) => L = {<<<<"model_name">>, Escaped(a[2])>>, <<<<b[1]>>, b[2]>>}
      /\ ~Readable(s) => \A l \in L : l[1] = <<"model_name">>
  BY <1>1, <1>7, <1>8
<1> QED BY <1>9 DEF L

\* What is under a label of a line.
LEMMA LabelOfLine ==
    ASSUME NEW s \in Lines, NEW k, k # "model_name"
    PROVE  Get(Image(s).labels, <<k>>) = IF Readable(s) /\ s.labels[2][1] = k THEN {s.labels[2][2]} ELSE {}
<1> DEFINE L == parseLabels(RenderLabels(s.labels))
           h == s.labels[2][1]
           v == s.labels[2][2]
           u == Escaped(s.labels[1][2])
<1>1. Image(s).labels = L
  BY DEF Image
<1>2. /\ Readable(s) => L = {<<<<"model_name">>, u>>, <<<<h>>, v>>}
      /\ ~Readable(s) => \A l \in L : l[1] = <<"model_name">>
  BY LineLabels
<1>3. <<k>> # <<"model_name">> /\ (<<k>> = <<h>> <=> k = h)
  OBVIOUS
<1> HIDE DEF L, h, v, u
<1>4. CASE Readable(s)
  <2> DEFINE pair == <<<<h>>, v>>
             S == {p \in L : p[1] = <<k>>}
  <2>1. S = IF h = k THEN {pair} ELSE {}
    <3>1. <<<<"model_name">>, u>>[1] = <<"model_name">> /\ <<<<h>>, v>>[1] = <<h>>
      OBVIOUS
    <3> QED BY <1>2, <1>3, <1>4, <3>1
  <2>3. Get(L, <<k>>) = {p[2] : p \in S}
    BY DEF Get
  <2>4. pair[2] = v
    OBVIOUS
  <2> HIDE DEF S, pair
  <2>2. Get(L, <<k>>) = IF h = k THEN {v} ELSE {}
    BY <2>1, <2>3, <2>4
  <2> QED BY <1>1, <1>4, <2>2 DEF h, v
<1>5. CASE ~Readable(s)
  <2>1. {p \in L : p[1] = <<k>>} = {}
    BY <1>2, <1>3, <1>5
  <2>2. Get(L, <<k>>) = {}
    BY <2>1 DEF Get
  <2> QED BY <1>1, <1>5, <2>2
<1> QED BY <1>4, <1>5
-----------------------------------------------------------------------------
(***************************************************************************)
(* What a reading takes from a scrape is what the scrape says.              *)
(***************************************************************************)
LEMMA OwnSet ==
    ASSUME NEW S, NEW seq \in Seq(S)
    PROVE  seq \in Seq(ToSet(seq)) /\ ToSet(seq) \subseteq S
<1>1. Len(seq) \in Nat /\ DOMAIN seq = 1..Len(seq) /\ seq \in [1..Len(seq) -> S]
  OBVIOUS
<1>2. \A i \in 1..Len(seq) : seq[i] \in ToSet(seq)
  BY <1>1 DEF ToSet
<1>3. seq \in [1..Len(seq) -> ToSet(seq)]
  BY <1>1, <1>2
<1> QED BY <1>1, <1>3 DEF ToSet

\* The first of some images is the image of the first of the lines that have them.
LEMMA FirstImage ==
    ASSUME scrape \in Seq(Lines), metrics = Parsed(scrape), NEW A, NEW W,
           \A s \in ToSet(scrape) : s \in W <=> s.value \in Finite /\ Image(s) \in A
    PROVE  FirstIn(metrics, A \cap ToSet(metrics)) = {Image(s) : s \in FirstIn(scrape, W)}
<1> DEFINE B == {t \in Finites : Image(t) \in A}
<1>1. metrics \in Seq(ToSet(metrics))
  BY ParsedLength, OwnSet
<1>2. FirstIn(metrics, A \cap ToSet(metrics)) = FirstIn(metrics, A)
  <2>1. \A x \in ToSet(metrics) : x \in A \cap ToSet(metrics) <=> x \in A
    OBVIOUS
  <2> QED BY <1>1, <2>1, FirstInSame
<1>3. FirstIn(metrics, A) = {Image(s) : s \in FirstIn(scrape, B)}
  BY FirstParsed
<1>4. scrape \in Seq(ToSet(scrape)) /\ ToSet(scrape) \subseteq Lines
  BY OwnSet
<1>5. \A s \in ToSet(scrape) : s \in B <=> s \in W
  BY <1>4 DEF Finites
<1> HIDE DEF B
<1>6. FirstIn(scrape, B) = FirstIn(scrape, W)
  BY <1>4, <1>5, FirstInSame
<1> QED BY <1>2, <1>3, <1>6

LEMMA WrittenIs ==
    ASSUME scrape \in Seq(Lines), NEW name, NEW labels, NEW s \in Written(name, labels)
    PROVE  /\ s \in Lines /\ s \in ToSet(scrape) /\ s.name = name /\ s.labels[2] \in labels
           /\ s.value \in Finite /\ \A t \in Written(name, labels) : t = s
<1> DEFINE W == {t \in ToSet(scrape) : t.name = name /\ t.labels[2] \in labels /\ t.value \in Finite}
<1>1. Written(name, labels) = FirstIn(scrape, W)
  BY DEF Written
<1> HIDE DEF W
<1>2. s \in Lines /\ s \in W /\ \A t \in Written(name, labels) : t = s
  BY <1>1, FirstInOne
<1> QED BY <1>2 DEF W

LEMMA NumberRead ==
    ASSUME scrape \in Seq(Lines), metrics = Parsed(scrape), NEW n
    PROVE  FirstIn(metrics, Named(metrics, n)) = {Image(s) : s \in Written(n, MoreLabels(n))}
<1> DEFINE A == {x \in Images : x.name = <<n>>}
           W == {t \in ToSet(scrape) : t.name = n /\ t.labels[2] \in MoreLabels(n) /\ t.value \in Finite}
<1>1. ToSet(scrape) \subseteq Lines /\ ToSet(metrics) \subseteq Images
  BY ParsedLength, OwnSet
<1>2. Named(metrics, n) = A \cap ToSet(metrics)
  BY <1>1 DEF Named
<1>3. ASSUME NEW s \in ToSet(scrape) PROVE s \in W <=> s.value \in Finite /\ Image(s) \in A
  <2>1. s \in Lines /\ s.labels[2] \in MoreLabels(s.name)
    BY <1>1, LineTypes
  <2>2. Image(s).name = <<s.name>>
    BY DEF Image
  <2>3. s.value \in Finite => Image(s) \in Images
    BY <2>1 DEF Images, Finites
  <2>4. <<s.name>> = <<n>> <=> s.name = n
    OBVIOUS
  <2> HIDE DEF Image
  <2> QED BY <2>1, <2>2, <2>3, <2>4
<1>4. Written(n, MoreLabels(n)) = FirstIn(scrape, W)
  BY DEF Written
<1> HIDE DEF A, W
<1>5. FirstIn(metrics, A \cap ToSet(metrics)) = {Image(s) : s \in FirstIn(scrape, W)}
  BY <1>3, FirstImage
<1> QED BY <1>2, <1>4, <1>5

LEMMA ImageValues ==
    ASSUME NEW T
    PROVE  {x.value : x \in {Image(s) : s \in T}} = {<<s.value>> : s \in T}
<1> DEFINE F(s) == Image(s).value
           G(s) == <<s.value>>
<1>1. \A s : F(s) = G(s)
  BY DEF Image
<1>2. {x.value : x \in {Image(s) : s \in T}} = {F(s) : s \in T}
  <2> HIDE DEF Image
  <2> QED OBVIOUS
<1> HIDE DEF F, G
<1>3. {F(s) : s \in T} = {G(s) : s \in T}
  BY <1>1
<1> QED BY <1>2, <1>3 DEF G

LEMMA ValueRead ==
    ASSUME scrape \in Seq(Lines), metrics = Parsed(scrape), NEW n
    PROVE  Value(metrics, n) = {<<s.value>> : s \in Written(n, MoreLabels(n))}
<1>1. Value(metrics, n) = {x.value : x \in {Image(s) : s \in Written(n, MoreLabels(n))}}
  BY NumberRead DEF Value
<1> QED BY <1>1, ImageValues

LEMMA CapacityRead ==
    ASSUME scrape \in Seq(Lines), metrics = Parsed(scrape), \A s \in ToSet(scrape) : Readable(s)
    PROVE  ValueWhere(metrics, ByReason, <<<<"reason">>, <<"capacity">>>>)
               = {<<s.value>> : s \in Written(ByReason, {<<"reason", <<"capacity">>>>})}
<1> DEFINE label == <<<<"reason">>, <<"capacity">>>>
           more == <<"reason", <<"capacity">>>>
           A == {x \in Images : x.name = <<ByReason>> /\ label \in x.labels}
           W == {t \in ToSet(scrape) : t.name = ByReason /\ t.labels[2] \in {more} /\ t.value \in Finite}
<1>1. ToSet(scrape) \subseteq Lines /\ ToSet(metrics) \subseteq Images
  BY ParsedLength, OwnSet
<1>2. {t \in Named(metrics, ByReason) : label \in t.labels} = A \cap ToSet(metrics)
  <2> HIDE DEF label
  <2> QED BY <1>1 DEF Named
<1>3. ASSUME NEW s \in ToSet(scrape) PROVE s \in W <=> s.value \in Finite /\ Image(s) \in A
  <2>1. s \in Lines /\ Readable(s)
    BY <1>1
  <2>2. Image(s).name = <<s.name>> /\ Image(s).labels = parseLabels(RenderLabels(s.labels))
    BY DEF Image
  <2>3. s.value \in Finite => Image(s) \in Images
    BY <2>1 DEF Images, Finites
  <2>4. <<s.name>> = <<ByReason>> <=> s.name = ByReason
    OBVIOUS
  <2> DEFINE h == s.labels[2][1]
             v == s.labels[2][2]
             u == Escaped(s.labels[1][2])
             one == <<<<"model_name">>, u>>
             two == <<<<h>>, v>>
  <2>5. Image(s).labels = {one, two}
    BY <2>1, <2>2, LineLabels
  <2>6. s.labels[2] = <<h, v>>
    <3>1. s.labels \in Seq(Pairs(Tokens)) /\ Len(s.labels) = 2
      BY <2>1, LineTypes
    <3> DEFINE Few == Pairs(Tokens)
    <3>2. \A p \in Few : p = <<p[1], p[2]>>
      BY DEF Pairs
    <3>3. s.labels \in Seq(Few)
      BY <3>1
    <3> HIDE DEF Few
    <3>4. s.labels[2] \in Few
      BY <3>1, <3>3
    <3> QED BY <3>2, <3>4
  <2>7. label \in {one, two} <=> s.labels[2] = more
    <3>1. label # one
      OBVIOUS
    <3>2. label = two <=> h = "reason" /\ v = <<"capacity">>
      OBVIOUS
    <3>3. <<h, v>> = more <=> h = "reason" /\ v = <<"capacity">>
      OBVIOUS
    <3> HIDE DEF label, one, two, more, h, v
    <3> QED BY <2>6, <3>1, <3>2, <3>3
  <2> HIDE DEF label, one, two, more, Image
  <2> QED BY <2>2, <2>3, <2>4, <2>5, <2>7
<1>4. Written(ByReason, {more}) = FirstIn(scrape, W)
  BY DEF Written
<1>5. ValueWhere(metrics, ByReason, label) = {x.value : x \in FirstIn(metrics, A \cap ToSet(metrics))}
  <2> HIDE DEF A, label
  <2> QED BY <1>2 DEF ValueWhere
<1> HIDE DEF A, W, label, more
<1>6. FirstIn(metrics, A \cap ToSet(metrics)) = {Image(s) : s \in FirstIn(scrape, W)}
  BY <1>3, FirstImage
<1>7. ValueWhere(metrics, ByReason, label) = {x.value : x \in {Image(s) : s \in Written(ByReason, {more})}}
  BY <1>4, <1>5, <1>6
<1>8. ValueWhere(metrics, ByReason, label) = {<<s.value>> : s \in Written(ByReason, {more})}
  BY <1>7, ImageValues
<1> QED BY <1>8 DEF label, more

LEMMA LabelRead ==
    ASSUME scrape \in Seq(Lines), metrics = Parsed(scrape), NEW k, k # "model_name"
    PROVE  Label(metrics, CacheConfig, k) =
             {s.labels[2][2] : s \in {t \in Written(CacheConfig, MoreLabels(CacheConfig)) :
                                        Readable(t) /\ t.labels[2][1] = k}}
<1> DEFINE W == Written(CacheConfig, MoreLabels(CacheConfig))
           U == {s.labels[2][2] : s \in {t \in W : Readable(t) /\ t.labels[2][1] = k}}
<1>1. FirstIn(metrics, Named(metrics, CacheConfig)) = {Image(s) : s \in W}
  BY NumberRead
<1>2. Label(metrics, CacheConfig, k) = UNION {Get(x.labels, <<k>>) : x \in {Image(s) : s \in W}}
  BY <1>1 DEF Label
<1>3. \A s \in W : s \in Lines
  BY WrittenIs
<1> HIDE DEF W
<1>4. \A s \in W : Get(Image(s).labels, <<k>>) = IF Readable(s) /\ s.labels[2][1] = k THEN {s.labels[2][2]} ELSE {}
  BY <1>3, LabelOfLine
<1> DEFINE G(s) == Get(Image(s).labels, <<k>>)
<1>5. Label(metrics, CacheConfig, k) = UNION {G(s) : s \in W}
  BY <1>2
<1>6. \A s \in W : G(s) = IF Readable(s) /\ s.labels[2][1] = k THEN {s.labels[2][2]} ELSE {}
  BY <1>4
<1> HIDE DEF G
<1>7. UNION {G(s) : s \in W} = U
  BY <1>6
<1> QED BY <1>5, <1>7 DEF W
-----------------------------------------------------------------------------
(***************************************************************************)
(* Objects: sets of pairs of a name and a value.                            *)
(***************************************************************************)
AtMostOne(values) == \A v, w \in values : v = w

LEMMA GetUnion ==
    ASSUME NEW x, NEW y, NEW z, z = x \cup y, NEW n
    PROVE  Get(z, n) = Get(x, n) \cup Get(y, n)
BY DEF Get

LEMMA GetOne ==
    ASSUME NEW k, NEW v, NEW n
    PROVE  Get({<<k, v>>}, n) = IF k = n THEN {v} ELSE {}
<1>1. CASE k = n
  <2>1. {p \in {<<k, v>>} : p[1] = n} = {<<k, v>>}
    BY <1>1
  <2>2. {p[2] : p \in {<<k, v>>}} = {v}
    OBVIOUS
  <2> QED BY <1>1, <2>1, <2>2 DEF Get
<1>2. CASE k # n
  <2>1. {p \in {<<k, v>>} : p[1] = n} = {}
    BY <1>2
  <2> QED BY <1>2, <2>1 DEF Get
<1> QED BY <1>1, <1>2

LEMMA GetNone == \A n : Get({}, n) = {}
BY DEF Get

LEMMA GetOther ==
    ASSUME NEW x, NEW n, n \notin Names(x)
    PROVE  Get(x, n) = {}
BY DEF Get, Names

LEMMA NamesUnion ==
    ASSUME NEW x, NEW y
    PROVE  Names(x \cup y) = Names(x) \cup Names(y)
BY DEF Names

LEMMA NamesOne ==
    ASSUME NEW k, NEW v
    PROVE  Names({<<k, v>>}) = {k}
BY DEF Names

LEMMA UniqueUnion ==
    ASSUME NEW x, NEW y, Unique(x), Unique(y), Names(x) \cap Names(y) = {}
    PROVE  Unique(x \cup y)
BY DEF Unique, Names

\* The members of an object are its fields' values.
LEMMA Members ==
    ASSUME NEW F, NEW p
    PROVE  p \in Object(F) <=> \E k \in DOMAIN F : \E v \in F[k] : p = <<k, v>>
BY DEF Object

LEMMA ObjectGet ==
    ASSUME NEW F, NEW k \in DOMAIN F
    PROVE  Get(Object(F), k) = F[k]
<1>1. ASSUME NEW v \in F[k] PROVE v \in Get(Object(F), k)
  <2>1. <<k, v>> \in Object(F)
    BY Members
  <2> QED BY <2>1 DEF Get
<1>2. ASSUME NEW v \in Get(Object(F), k) PROVE v \in F[k]
  <2>1. PICK p \in Object(F) : p[1] = k /\ v = p[2]
    BY DEF Get
  <2>2. PICK l \in DOMAIN F : \E w \in F[l] : p = <<l, w>>
    BY Members
  <2> QED BY <2>1, <2>2
<1> QED BY <1>1, <1>2

LEMMA ObjectNames ==
    ASSUME NEW F
    PROVE  Names(Object(F)) \subseteq DOMAIN F
<1>1. ASSUME NEW p \in Object(F) PROVE p[1] \in DOMAIN F
  BY Members
<1> QED BY <1>1 DEF Names

LEMMA ObjectUnique ==
    ASSUME NEW F, \A k \in DOMAIN F : AtMostOne(F[k])
    PROVE  Unique(Object(F))
<1> SUFFICES ASSUME NEW p \in Object(F), NEW q \in Object(F), p[1] = q[1] PROVE p = q
  BY DEF Unique
<1>1. PICK k \in DOMAIN F : \E v \in F[k] : p = <<k, v>>
  BY Members
<1>2. PICK l \in DOMAIN F : \E w \in F[l] : q = <<l, w>>
  BY Members
<1> QED BY <1>1, <1>2 DEF AtMostOne

\* The entities and their keys.
LEMMA Keys ==
    ASSUME NEW serves \in BOOLEAN
    PROVE  /\ DOMAIN Sensors(serves) = OfGPU \cup OfHost \cup {"last_seen"} \cup (IF serves THEN OfEngine ELSE {})
           /\ \A id \in DOMAIN vllmSensors : serves => Sensors(serves)[id] = vllmSensors[id]
           /\ \A id \in DOMAIN hostSensors : Sensors(serves)[id] = hostSensors[id]
           /\ OfEngine \cap (OfGPU \cup OfHost \cup {"last_seen"}) = {}
           /\ DOMAIN hostSensors = OfGPU \cup OfHost \cup {"last_seen"}
<1>1. DOMAIN hostSensors = OfGPU \cup OfHost \cup {"last_seen"}
  BY DEF hostSensors, OfGPU, OfHost
<1>2. DOMAIN vllmSensors \cap DOMAIN hostSensors = {}
  BY DEF vllmSensors, hostSensors
<1> DEFINE f == vllmSensors
           g == hostSensors
           D == (IF serves THEN DOMAIN f ELSE {}) \cup DOMAIN g
           both == Sensors(serves)
<1>3. both = [id \in D |-> IF id \in DOMAIN g THEN g[id] ELSE f[id]]
  BY DEF Sensors
<1> HIDE DEF f, g, both
<1>4. DOMAIN both = D /\ \A id \in D : both[id] = IF id \in DOMAIN g THEN g[id] ELSE f[id]
  BY <1>3
<1>5. DOMAIN f \cap DOMAIN g = {} /\ OfEngine = DOMAIN f /\ DOMAIN g = OfGPU \cup OfHost \cup {"last_seen"}
  BY <1>1, <1>2 DEF f, g, OfEngine
<1>6. /\ \A id \in DOMAIN f : serves => both[id] = f[id]
      /\ \A id \in DOMAIN g : both[id] = g[id]
  BY <1>4, <1>5
<1> QED BY <1>4, <1>5, <1>6 DEF f, g, both

LEMMA HostKeys ==
    /\ hostSensors["gpu_utilization"] = "gpu_utilization_pct" /\ hostSensors["gpu_clock"] = "gpu_clock_mhz"
    /\ hostSensors["gpu_temperature"] = "gpu_temperature_c" /\ hostSensors["gpu_power"] = "gpu_power_w"
    /\ hostSensors["memory_available"] = "memory_available_bytes"
    /\ hostSensors["memory_used"] = "memory_used_pct"
    /\ hostSensors["mac_address"] = "mac_address" /\ hostSensors["last_seen"] = "last_seen"
BY DEF hostSensors

LEMMA EngineKeys ==
    /\ vllmSensors["vllm_running"] = "vllm_up" /\ vllmSensors["served_model"] = "model"
    /\ vllmSensors["kv_cache_usage"] = "kv_cache_usage_pct"
    /\ vllmSensors["requests_running"] = "requests_running"
    /\ vllmSensors["requests_waiting"] = "requests_waiting"
    /\ vllmSensors["waiting_for_capacity"] = "waiting_for_capacity"
    /\ vllmSensors["preemptions"] = "preemptions"
    /\ vllmSensors["prefix_cache_hit_rate"] = "prefix_cache_hit_rate_pct"
    /\ vllmSensors["generation_rate"] = "generation_tokens_per_second"
    /\ vllmSensors["max_model_len"] = "max_model_len" /\ vllmSensors["kv_cache_tokens"] = "kv_cache_tokens"
    /\ vllmSensors["max_concurrency"] = "max_concurrency"
    /\ vllmSensors["prefix_caching"] = "prefix_caching_enabled"
    /\ DOMAIN vllmSensors = {"vllm_running", "served_model", "kv_cache_usage", "requests_running",
          "requests_waiting", "waiting_for_capacity", "preemptions", "prefix_cache_hit_rate",
          "generation_rate", "max_model_len", "kv_cache_tokens", "max_concurrency", "prefix_caching"}
BY DEF vllmSensors
-----------------------------------------------------------------------------
(***************************************************************************)
(* A reading, and the state that is made of it, key by key.                 *)
(***************************************************************************)
ScrapeKeys ==
    {"KVCacheUsage", "RequestsRunning", "RequestsWaiting", "Preemptions",
     "WaitingForCapacity", "PrefixCacheHitRate", "PrefixCachingOn",
     "KVCacheTokens", "MaxConcurrency"}

LEMMA AppliedGets ==
    ASSUME NEW m
    PROVE  /\ Get(applyMetrics(m), "KVCacheUsage") = Value(m, KVCache)
           /\ Get(applyMetrics(m), "RequestsRunning") = Value(m, Running)
           /\ Get(applyMetrics(m), "RequestsWaiting") = Value(m, Waiting)
           /\ Get(applyMetrics(m), "Preemptions") = Value(m, Preemptions)
           /\ Get(applyMetrics(m), "WaitingForCapacity") = ValueWhere(m, ByReason, <<<<"reason">>, <<"capacity">>>>)
           /\ Get(applyMetrics(m), "PrefixCacheHitRate") = {Over(h, q) : h \in Value(m, Hits), q \in {v \in Value(m, Queries) : Positive(v)}}
           /\ Get(applyMetrics(m), "PrefixCachingOn") = {IF v = <<"True">> THEN True ELSE False : v \in Label(m, CacheConfig, "enable_prefix_caching")}
           /\ Get(applyMetrics(m), "KVCacheTokens") = {v \in Label(m, CacheConfig, "kv_cache_size_tokens") : Len(v) = 1 /\ v[1] \in Finite}
           /\ Get(applyMetrics(m), "MaxConcurrency") = {v \in Label(m, CacheConfig, "kv_cache_max_concurrency") : Len(v) = 1 /\ v[1] \in Floats}
           /\ Names(applyMetrics(m)) \subseteq ScrapeKeys
<1> DEFINE a == Value(m, KVCache)
           b == Value(m, Running)
           c == Value(m, Waiting)
           d == Value(m, Preemptions)
           e == ValueWhere(m, ByReason, <<<<"reason">>, <<"capacity">>>>)
           f == {Over(h, q) : h \in Value(m, Hits), q \in {v \in Value(m, Queries) : Positive(v)}}
           g == {IF v = <<"True">> THEN True ELSE False : v \in Label(m, CacheConfig, "enable_prefix_caching")}
           h == {v \in Label(m, CacheConfig, "kv_cache_size_tokens") : Len(v) = 1 /\ v[1] \in Finite}
           i == {v \in Label(m, CacheConfig, "kv_cache_max_concurrency") : Len(v) = 1 /\ v[1] \in Floats}
           F == [KVCacheUsage |-> a,
                 RequestsRunning |-> b,
                 RequestsWaiting |-> c,
                 Preemptions |-> d,
                 WaitingForCapacity |-> e,
                 PrefixCacheHitRate |-> f,
                 PrefixCachingOn |-> g,
                 KVCacheTokens |-> h,
                 MaxConcurrency |-> i]
<1>1. applyMetrics(m) = Object(F)
  BY DEF applyMetrics
<1> HIDE DEF a, b, c, d, e, f, g, h, i
<1>2. /\ DOMAIN F = ScrapeKeys
      /\ F["KVCacheUsage"] = a
      /\ F["RequestsRunning"] = b
      /\ F["RequestsWaiting"] = c
      /\ F["Preemptions"] = d
      /\ F["WaitingForCapacity"] = e
      /\ F["PrefixCacheHitRate"] = f
      /\ F["PrefixCachingOn"] = g
      /\ F["KVCacheTokens"] = h
      /\ F["MaxConcurrency"] = i
  BY DEF ScrapeKeys
<1> HIDE DEF F
<1>3. \A k \in ScrapeKeys : Get(applyMetrics(m), k) = F[k]
  BY <1>1, <1>2, ObjectGet
<1>4. /\ Get(applyMetrics(m), "KVCacheUsage") = a
      /\ Get(applyMetrics(m), "RequestsRunning") = b
      /\ Get(applyMetrics(m), "RequestsWaiting") = c
      /\ Get(applyMetrics(m), "Preemptions") = d
      /\ Get(applyMetrics(m), "WaitingForCapacity") = e
      /\ Get(applyMetrics(m), "PrefixCacheHitRate") = f
      /\ Get(applyMetrics(m), "PrefixCachingOn") = g
      /\ Get(applyMetrics(m), "KVCacheTokens") = h
      /\ Get(applyMetrics(m), "MaxConcurrency") = i
  BY <1>2, <1>3 DEF ScrapeKeys
<1>5. Names(applyMetrics(m)) \subseteq ScrapeKeys
  BY <1>1, <1>2, ObjectNames
<1> QED BY <1>4, <1>5 DEF a, b, c, d, e, f, g, h, i

EngineFields ==
    {"last_seen", "vllm_up", "model", "max_model_len", "kv_cache_usage_pct",
     "requests_running", "requests_waiting", "preemptions",
     "waiting_for_capacity", "prefix_cache_hit_rate_pct",
     "prefix_caching_enabled", "kv_cache_tokens", "max_concurrency"}

LEMMA StateGets ==
    ASSUME NEW r
    PROVE  /\ Get(FromVLLM(r), "last_seen") = {<<"now">>}
           /\ Get(FromVLLM(r), "vllm_up") = {IF Get(r, "Up") = {True} THEN True ELSE False}
           /\ Get(FromVLLM(r), "model") = Get(r, "Model")
           /\ Get(FromVLLM(r), "max_model_len") = {v \in Get(r, "MaxModelLen") : Positive(v)}
           /\ Get(FromVLLM(r), "kv_cache_usage_pct") = {Pct(v) : v \in Get(r, "KVCacheUsage")}
           /\ Get(FromVLLM(r), "requests_running") = Get(r, "RequestsRunning")
           /\ Get(FromVLLM(r), "requests_waiting") = Get(r, "RequestsWaiting")
           /\ Get(FromVLLM(r), "preemptions") = Get(r, "Preemptions")
           /\ Get(FromVLLM(r), "waiting_for_capacity") = Get(r, "WaitingForCapacity")
           /\ Get(FromVLLM(r), "prefix_cache_hit_rate_pct") = {Pct(v) : v \in Get(r, "PrefixCacheHitRate")}
           /\ Get(FromVLLM(r), "prefix_caching_enabled") = Get(r, "PrefixCachingOn")
           /\ Get(FromVLLM(r), "kv_cache_tokens") = {v \in Get(r, "KVCacheTokens") : Positive(v)}
           /\ Get(FromVLLM(r), "max_concurrency") = {v \in Get(r, "MaxConcurrency") : Positive(v)}
           /\ Names(FromVLLM(r)) \subseteq EngineFields
<1> DEFINE now == {<<"now">>}
           a == {IF Get(r, "Up") = {True} THEN True ELSE False}
           b == Get(r, "Model")
           c == {v \in Get(r, "MaxModelLen") : Positive(v)}
           d == {Pct(v) : v \in Get(r, "KVCacheUsage")}
           e == Get(r, "RequestsRunning")
           f == Get(r, "RequestsWaiting")
           g == Get(r, "Preemptions")
           h == Get(r, "WaitingForCapacity")
           i == {Pct(v) : v \in Get(r, "PrefixCacheHitRate")}
           j == Get(r, "PrefixCachingOn")
           k == {v \in Get(r, "KVCacheTokens") : Positive(v)}
           l == {v \in Get(r, "MaxConcurrency") : Positive(v)}
           F == [last_seen |-> now,
                 vllm_up |-> a,
                 model |-> b,
                 max_model_len |-> c,
                 kv_cache_usage_pct |-> d,
                 requests_running |-> e,
                 requests_waiting |-> f,
                 preemptions |-> g,
                 waiting_for_capacity |-> h,
                 prefix_cache_hit_rate_pct |-> i,
                 prefix_caching_enabled |-> j,
                 kv_cache_tokens |-> k,
                 max_concurrency |-> l]
<1>1. FromVLLM(r) = Object(F)
  BY DEF FromVLLM
<1> HIDE DEF now, a, b, c, d, e, f, g, h, i, j, k, l
<1>2. /\ DOMAIN F = EngineFields
      /\ F["last_seen"] = now
      /\ F["vllm_up"] = a
      /\ F["model"] = b
      /\ F["max_model_len"] = c
      /\ F["kv_cache_usage_pct"] = d
      /\ F["requests_running"] = e
      /\ F["requests_waiting"] = f
      /\ F["preemptions"] = g
      /\ F["waiting_for_capacity"] = h
      /\ F["prefix_cache_hit_rate_pct"] = i
      /\ F["prefix_caching_enabled"] = j
      /\ F["kv_cache_tokens"] = k
      /\ F["max_concurrency"] = l
  BY DEF EngineFields
<1> HIDE DEF F
<1>3. \A name \in EngineFields : Get(FromVLLM(r), name) = F[name]
  BY <1>1, <1>2, ObjectGet
<1>4. /\ Get(FromVLLM(r), "last_seen") = now
      /\ Get(FromVLLM(r), "vllm_up") = a
      /\ Get(FromVLLM(r), "model") = b
      /\ Get(FromVLLM(r), "max_model_len") = c
      /\ Get(FromVLLM(r), "kv_cache_usage_pct") = d
      /\ Get(FromVLLM(r), "requests_running") = e
      /\ Get(FromVLLM(r), "requests_waiting") = f
      /\ Get(FromVLLM(r), "preemptions") = g
      /\ Get(FromVLLM(r), "waiting_for_capacity") = h
      /\ Get(FromVLLM(r), "prefix_cache_hit_rate_pct") = i
      /\ Get(FromVLLM(r), "prefix_caching_enabled") = j
      /\ Get(FromVLLM(r), "kv_cache_tokens") = k
      /\ Get(FromVLLM(r), "max_concurrency") = l
  BY <1>2, <1>3 DEF EngineFields
<1>5. Names(FromVLLM(r)) \subseteq EngineFields
  BY <1>1, <1>2, ObjectNames
<1> QED BY <1>4, <1>5 DEF now, a, b, c, d, e, f, g, h, i, j, k, l

\* Nothing is under two values, if nothing is in what it is made of.
LEMMA GetUnique ==
    ASSUME NEW x, NEW n, Unique(x)
    PROVE  AtMostOne(Get(x, n))
BY DEF Unique, AtMostOne, Get

LEMMA StateUnique ==
    ASSUME NEW r, Unique(r)
    PROVE  Unique(FromVLLM(r))
<1> DEFINE up == {IF Get(r, "Up") = {True} THEN True ELSE False}
           now == {<<"now">>}
           V(n) == Get(r, n)
           Above(n) == {v \in Get(r, n) : Positive(v)}
           Percent(n) == {Pct(v) : v \in Get(r, n)}
           F == [last_seen |-> now,
                 vllm_up |-> up,
                 model |-> V("Model"),
                 max_model_len |-> Above("MaxModelLen"),
                 kv_cache_usage_pct |-> Percent("KVCacheUsage"),
                 requests_running |-> V("RequestsRunning"),
                 requests_waiting |-> V("RequestsWaiting"),
                 preemptions |-> V("Preemptions"),
                 waiting_for_capacity |-> V("WaitingForCapacity"),
                 prefix_cache_hit_rate_pct |-> Percent("PrefixCacheHitRate"),
                 prefix_caching_enabled |-> V("PrefixCachingOn"),
                 kv_cache_tokens |-> Above("KVCacheTokens"),
                 max_concurrency |-> Above("MaxConcurrency")]
<1>1. FromVLLM(r) = Object(F)
  BY DEF FromVLLM
<1>2. \A n : AtMostOne(V(n))
  BY GetUnique
<1>3. AtMostOne(now) /\ AtMostOne(up)
  BY DEF AtMostOne
<1>4. \A n : AtMostOne(Above(n)) /\ AtMostOne(Percent(n))
  BY <1>2 DEF AtMostOne
<1> HIDE DEF up, now, V, Above, Percent
<1>5. \A k \in DOMAIN F : AtMostOne(F[k])
  BY <1>2, <1>3, <1>4
<1> HIDE DEF F
<1> QED BY <1>1, <1>5, ObjectUnique

LEMMA ImageUnique ==
    ASSUME NEW x \in Images
    PROVE  Unique(x.labels)
<1>1. PICK s \in Lines : x = Image(s)
  BY DEF Images, Finites
<1>2. Marks \subseteq Tokens /\ s.labels \in Seq(Pairs(Tokens))
  BY LineTypes
<1>3. RenderLabels(s.labels) \in Seq(Tokens)
  BY <1>2, RenderLabelsType
<1>4. x.labels = parseLabels(RenderLabels(s.labels))
  BY <1>1 DEF Image
<1> QED BY <1>2, <1>3, <1>4, ParsedUnique

LEMMA FirstUnique ==
    ASSUME NEW S, NEW m \in Seq(S), NEW A
    PROVE  AtMostOne({s.value : s \in FirstIn(m, A)})
<1>1. \A x, y \in FirstIn(m, A) : x = y
  BY FirstInOne
<1> QED BY <1>1 DEF AtMostOne

LEMMA LabelUnique ==
    ASSUME NEW m \in Seq(Images), NEW k
    PROVE  AtMostOne(Label(m, CacheConfig, k))
<1> DEFINE X == FirstIn(m, Named(m, CacheConfig))
<1>1. \A x, y \in X : x = y /\ x \in Images
  BY FirstInOne
<1>2. Label(m, CacheConfig, k) = UNION {Get(s.labels, <<k>>) : s \in X}
  BY DEF Label
<1> HIDE DEF X
<1>3. \A x \in X : AtMostOne(Get(x.labels, <<k>>))
  BY <1>1, ImageUnique, GetUnique
<1>4. ASSUME NEW v \in Label(m, CacheConfig, k), NEW w \in Label(m, CacheConfig, k) PROVE v = w
  <2>1. PICK x \in X : v \in Get(x.labels, <<k>>)
    BY <1>2
  <2>2. PICK y \in X : w \in Get(y.labels, <<k>>)
    BY <1>2
  <2>3. x = y
    BY <1>1
  <2> QED BY <1>3, <2>1, <2>2, <2>3 DEF AtMostOne
<1> QED BY <1>4 DEF AtMostOne

LEMMA AppliedUnique ==
    ASSUME NEW m \in Seq(Images)
    PROVE  Unique(applyMetrics(m))
<1> DEFINE c == ValueWhere(m, ByReason, <<<<"reason">>, <<"capacity">>>>)
           o == {IF v = <<"True">> THEN True ELSE False : v \in Label(m, CacheConfig, "enable_prefix_caching")}
           t == {v \in Label(m, CacheConfig, "kv_cache_size_tokens") : Len(v) = 1 /\ v[1] \in Finite}
           x == {v \in Label(m, CacheConfig, "kv_cache_max_concurrency") : Len(v) = 1 /\ v[1] \in Floats}
           h == {Over(a, q) : a \in Value(m, Hits), q \in {v \in Value(m, Queries) : Positive(v)}}
           F == [KVCacheUsage |-> Value(m, KVCache), RequestsRunning |-> Value(m, Running),
                 RequestsWaiting |-> Value(m, Waiting), Preemptions |-> Value(m, Preemptions),
                 WaitingForCapacity |-> c, PrefixCacheHitRate |-> h, PrefixCachingOn |-> o,
                 KVCacheTokens |-> t, MaxConcurrency |-> x]
<1>1. applyMetrics(m) = Object(F)
  BY DEF applyMetrics
<1>2. \A n : AtMostOne(Value(m, n))
  BY FirstUnique DEF Value
<1>3. AtMostOne(c)
  BY FirstUnique DEF ValueWhere
<1>4. AtMostOne(o)
  <2>1. AtMostOne(Label(m, CacheConfig, "enable_prefix_caching"))
    BY LabelUnique
  <2> QED BY <2>1 DEF AtMostOne
<1>5. AtMostOne(t) /\ AtMostOne(x)
  <2>1. AtMostOne(Label(m, CacheConfig, "kv_cache_size_tokens"))
    BY LabelUnique
  <2>2. AtMostOne(Label(m, CacheConfig, "kv_cache_max_concurrency"))
    BY LabelUnique
  <2> QED BY <2>1, <2>2 DEF AtMostOne
<1>6. AtMostOne(h)
  <2>1. AtMostOne(Value(m, Hits)) /\ AtMostOne(Value(m, Queries))
    BY <1>2
  <2> QED BY <2>1 DEF AtMostOne
<1> HIDE DEF c, o, t, x, h
<1>7. \A k \in DOMAIN F : AtMostOne(F[k])
  BY <1>2, <1>3, <1>4, <1>5, <1>6
<1> HIDE DEF F
<1> QED BY <1>1, <1>7, ObjectUnique
-----------------------------------------------------------------------------
(***************************************************************************)
(* What json.Marshal refuses, and what it does not.                         *)
(***************************************************************************)
Texts == Tokens \cup {"*", "100", "1024", "/", "-"}

LEMMA NumberAlone ==
    ASSUME NEW x
    PROVE  NoNumber(<<x>>) <=> x \in {"NaN", "+Inf"}
<1>1. DOMAIN <<x>> = {1} /\ <<x>>[1] = x
  OBVIOUS
<1> QED BY <1>1 DEF NoNumber

LEMMA NumberConcatenated ==
    ASSUME NEW S, NEW a \in Seq(S), NEW b \in Seq(S), ~NoNumber(a), ~NoNumber(b), Len(b) > 0, b[1] # "0"
    PROVE  /\ a \o b \in Seq(S) /\ ~NoNumber(a \o b) /\ Len(a \o b) = Len(a) + Len(b)
           /\ Len(a) > 0 => (a \o b)[1] = a[1]
<1> DEFINE c == a \o b
<1>1. /\ c \in Seq(S) /\ Len(c) = Len(a) + Len(b)
      /\ \A i \in 1..Len(a) : c[i] = a[i]
      /\ \A i \in 1..Len(b) : c[Len(a) + i] = b[i]
  BY Concatenated
<1>2. Len(a) \in Nat /\ Len(b) \in Nat /\ DOMAIN a = 1..Len(a) /\ DOMAIN b = 1..Len(b)
  OBVIOUS
<1> HIDE DEF c
<1>3. DOMAIN c = 1..Len(a) + Len(b)
  BY <1>1
<1>4. ASSUME NEW i \in DOMAIN c,
             c[i] \in {"NaN", "+Inf"} \/ (c[i] = "0" /\ i > 1 /\ c[i - 1] = "/")
      PROVE  FALSE
  <2>1. CASE i <= Len(a)
    <3>1. i \in DOMAIN a /\ c[i] = a[i] /\ (i > 1 => c[i - 1] = a[i - 1])
      <4>1. i \in 1..Len(a) /\ (i > 1 => i - 1 \in 1..Len(a))
        BY <1>2, <1>3, <2>1
      <4> QED BY <1>1, <1>2, <4>1
    <3> QED BY <1>4, <3>1 DEF NoNumber
  <2>2. CASE i > Len(a)
    <3> DEFINE k == i - Len(a)
    <3>1. k \in 1..Len(b) /\ i = Len(a) + k /\ (k > 1 => k - 1 \in 1..Len(b) /\ i - 1 = Len(a) + (k - 1))
      BY <1>2, <1>3, <2>2
    <3> HIDE DEF k
    <3>2. c[i] = b[k] /\ (k > 1 => c[i - 1] = b[k - 1])
      BY <1>1, <3>1
    <3>3. CASE k = 1
      <4>1. b[1] \notin {"NaN", "+Inf"}
        BY <1>2, <3>1, <3>3 DEF NoNumber
      <4> QED BY <1>4, <3>2, <3>3, <4>1
    <3>4. CASE k # 1
      <4>1. k > 1 /\ k \in DOMAIN b
        BY <1>2, <3>1, <3>4
      <4> QED BY <1>4, <3>2, <4>1 DEF NoNumber
    <3> QED BY <3>3, <3>4
  <2> QED BY <1>2, <1>3, <2>1, <2>2
<1>5. ~NoNumber(c)
  BY <1>4 DEF NoNumber
<1>6. Len(a) > 0 => c[1] = a[1]
  BY <1>1, <1>2
<1> QED BY <1>1, <1>5, <1>6 DEF c

LEMMA PctNumber ==
    ASSUME NEW v \in Seq(Texts), ~NoNumber(v)
    PROVE  ~NoNumber(Pct(v))
<1> DEFINE b == <<"*", "100">>
<1>1. b \in Seq(Texts) /\ Len(b) = 2 /\ b[1] = "*" /\ b[2] = "100" /\ DOMAIN b = {1, 2}
  BY DEF Texts
<1>2. ~NoNumber(b)
  <2> HIDE DEF b
  <2> QED BY <1>1 DEF NoNumber
<1>3. Pct(v) = v \o b
  BY DEF Pct
<1> HIDE DEF b
<1> QED BY <1>1, <1>2, <1>3, NumberConcatenated

LEMMA OverNumber ==
    ASSUME NEW h \in Seq(Texts), NEW q \in Seq(Texts), ~NoNumber(h), ~NoNumber(q), Len(q) > 0, q[1] # "0"
    PROVE  Over(h, q) \in Seq(Texts) /\ ~NoNumber(Over(h, q))
<1> DEFINE b == <<"/">>
           c == h \o b
<1>1. b \in Seq(Texts) /\ Len(b) = 1 /\ b[1] = "/"
  BY DEF Texts
<1>2. ~NoNumber(b)
  BY NumberAlone
<1>3. Over(h, q) = c \o q
  BY DEF Over
<1> HIDE DEF b
<1>4. c \in Seq(Texts) /\ ~NoNumber(c)
  BY <1>1, <1>2, NumberConcatenated
<1> HIDE DEF c
<1> QED BY <1>3, <1>4, NumberConcatenated

LEMMA MinusNumber ==
    ASSUME NEW h \in Seq(Texts), NEW q \in Seq(Texts), ~NoNumber(h), ~NoNumber(q), Len(q) > 0, q[1] # "0"
    PROVE  Minus(h, q) \in Seq(Texts) /\ ~NoNumber(Minus(h, q))
<1> DEFINE b == <<"-">>
           c == h \o b
<1>1. b \in Seq(Texts) /\ Len(b) = 1 /\ b[1] = "-"
  BY DEF Texts
<1>2. ~NoNumber(b)
  BY NumberAlone
<1>3. Minus(h, q) = c \o q
  BY DEF Minus
<1> HIDE DEF b
<1>4. c \in Seq(Texts) /\ ~NoNumber(c)
  BY <1>1, <1>2, NumberConcatenated
<1> HIDE DEF c
<1> QED BY <1>3, <1>4, NumberConcatenated

LEMMA kibToBytesNumber ==
    ASSUME NEW x \in Finite
    PROVE  /\ kibToBytes(x) \in Seq(Texts) /\ ~NoNumber(kibToBytes(x))
           /\ Len(kibToBytes(x)) > 0 /\ kibToBytes(x)[1] = x
<1> DEFINE b == <<x, "*", "1024">>
<1>1. x \in Texts
  BY DEF Texts, Tokens, Floats, Finite
<1>2. b \in Seq(Texts) /\ Len(b) = 3 /\ b[1] = x /\ b[2] = "*" /\ b[3] = "1024" /\ DOMAIN b = {1, 2, 3}
  BY <1>1 DEF Texts
<1>3. ~NoNumber(b)
  <2> HIDE DEF b
  <2> QED BY <1>2 DEF NoNumber, Finite
<1> QED BY <1>2, <1>3 DEF kibToBytes

LEMMA FiniteNumber ==
    ASSUME NEW x \in Finite
    PROVE  <<x>> \in Seq(Texts) /\ ~NoNumber(<<x>>) /\ Len(<<x>>) > 0 /\ <<x>>[1] = x
<1>1. x \in Texts
  BY DEF Texts, Tokens, Floats, Finite
<1>2. ~NoNumber(<<x>>)
  BY NumberAlone DEF Finite
<1> QED BY <1>1, <1>2
-----------------------------------------------------------------------------
(***************************************************************************)
(* What the entities of the engine show is what it said.                    *)
(***************************************************************************)
LEMMA TruthIs ==
    ASSUME NEW said, NEW address
    PROVE  /\ Truth(said, address)["vllm_running"] = OnOff(Get(said, "up"))
           /\ Truth(said, address)["served_model"] = Get(said, "Model")
           /\ Truth(said, address)["max_model_len"] = NonZero(Get(said, "MaxModelLen"))
           /\ Truth(said, address)["kv_cache_usage"] = {Pct(v) : v \in Get(said, KVCache)}
           /\ Truth(said, address)["waiting_for_capacity"] = Get(said, ByReason)
           /\ Truth(said, address)["prefix_cache_hit_rate"] = {Pct(Over(h, q)) : h \in Get(said, Hits), q \in NonZero(Get(said, Queries))}
           /\ Truth(said, address)["prefix_caching"] = {<<"ON">> : v \in Get(said, "enable_prefix_caching")}
           /\ Truth(said, address)["kv_cache_tokens"] = Get(said, "kv_cache_size_tokens") \ {<<"None">>}
           /\ Truth(said, address)["max_concurrency"] = NonZero(Get(said, "kv_cache_max_concurrency"))
           /\ Truth(said, address)["requests_running"] = Get(said, Running)
           /\ Truth(said, address)["requests_waiting"] = Get(said, Waiting)
           /\ Truth(said, address)["preemptions"] = Get(said, Preemptions)
           /\ Truth(said, address)["generation_rate"] = {}
           /\ Truth(said, address)["gpu_utilization"] = Get(said, "gpu_utilization_pct")
           /\ Truth(said, address)["gpu_clock"] = Get(said, "gpu_clock_mhz")
           /\ Truth(said, address)["gpu_temperature"] = Get(said, "gpu_temperature_c")
           /\ Truth(said, address)["gpu_power"] = Get(said, "gpu_power_w")
           /\ Truth(said, address)["memory_available"] = {kibToBytes(v[1]) : v \in Get(said, "MemAvailable")}
           /\ Truth(said, address)["memory_used"] = {Pct(Over(Minus(kibToBytes(t[1]), kibToBytes(a[1])), kibToBytes(t[1]))) :
                  a \in Get(said, "MemAvailable"), t \in NonZero(Get(said, "MemTotal"))}
           /\ Truth(said, address)["mac_address"] = address
           /\ Truth(said, address)["last_seen"] = {<<"now">>}
<1> DEFINE v0 == OnOff(Get(said, "up"))
           v1 == Get(said, "Model")
           v2 == NonZero(Get(said, "MaxModelLen"))
           v3 == {Pct(v) : v \in Get(said, KVCache)}
           v4 == Get(said, ByReason)
           v5 == {Pct(Over(h, q)) : h \in Get(said, Hits), q \in NonZero(Get(said, Queries))}
           v6 == {<<"ON">> : v \in Get(said, "enable_prefix_caching")}
           v7 == Get(said, "kv_cache_size_tokens") \ {<<"None">>}
           v8 == NonZero(Get(said, "kv_cache_max_concurrency"))
           v9 == Get(said, Running)
           v10 == Get(said, Waiting)
           v11 == Get(said, Preemptions)
           v12 == {}
           v13 == Get(said, "gpu_utilization_pct")
           v14 == Get(said, "gpu_clock_mhz")
           v15 == Get(said, "gpu_temperature_c")
           v16 == Get(said, "gpu_power_w")
           v17 == {kibToBytes(v[1]) : v \in Get(said, "MemAvailable")}
           v18 == {Pct(Over(Minus(kibToBytes(t[1]), kibToBytes(a[1])), kibToBytes(t[1]))) :
                  a \in Get(said, "MemAvailable"), t \in NonZero(Get(said, "MemTotal"))}
           v19 == address
           v20 == {<<"now">>}
           F == [vllm_running |-> v0,
                 served_model |-> v1,
                 max_model_len |-> v2,
                 kv_cache_usage |-> v3,
                 waiting_for_capacity |-> v4,
                 prefix_cache_hit_rate |-> v5,
                 prefix_caching |-> v6,
                 kv_cache_tokens |-> v7,
                 max_concurrency |-> v8,
                 requests_running |-> v9,
                 requests_waiting |-> v10,
                 preemptions |-> v11,
                 generation_rate |-> v12,
                 gpu_utilization |-> v13,
                 gpu_clock |-> v14,
                 gpu_temperature |-> v15,
                 gpu_power |-> v16,
                 memory_available |-> v17,
                 memory_used |-> v18,
                 mac_address |-> v19,
                 last_seen |-> v20]
<1>1. Truth(said, address) = F
  BY DEF Truth
<1> HIDE DEF v0, v1, v2, v3, v4, v5, v6, v7, v8, v9, v10, v11, v12, v13, v14, v15, v16, v17, v18, v19, v20
<1>2. /\ F["vllm_running"] = v0
      /\ F["served_model"] = v1
      /\ F["max_model_len"] = v2
      /\ F["kv_cache_usage"] = v3
      /\ F["waiting_for_capacity"] = v4
      /\ F["prefix_cache_hit_rate"] = v5
      /\ F["prefix_caching"] = v6
      /\ F["kv_cache_tokens"] = v7
      /\ F["max_concurrency"] = v8
      /\ F["requests_running"] = v9
      /\ F["requests_waiting"] = v10
      /\ F["preemptions"] = v11
      /\ F["generation_rate"] = v12
      /\ F["gpu_utilization"] = v13
      /\ F["gpu_clock"] = v14
      /\ F["gpu_temperature"] = v15
      /\ F["gpu_power"] = v16
      /\ F["memory_available"] = v17
      /\ F["memory_used"] = v18
      /\ F["mac_address"] = v19
      /\ F["last_seen"] = v20
  OBVIOUS
<1> HIDE DEF F
<1>3. /\ Truth(said, address)["vllm_running"] = v0
      /\ Truth(said, address)["served_model"] = v1
      /\ Truth(said, address)["max_model_len"] = v2
      /\ Truth(said, address)["kv_cache_usage"] = v3
      /\ Truth(said, address)["waiting_for_capacity"] = v4
      /\ Truth(said, address)["prefix_cache_hit_rate"] = v5
      /\ Truth(said, address)["prefix_caching"] = v6
      /\ Truth(said, address)["kv_cache_tokens"] = v7
      /\ Truth(said, address)["max_concurrency"] = v8
      /\ Truth(said, address)["requests_running"] = v9
      /\ Truth(said, address)["requests_waiting"] = v10
      /\ Truth(said, address)["preemptions"] = v11
      /\ Truth(said, address)["generation_rate"] = v12
      /\ Truth(said, address)["gpu_utilization"] = v13
      /\ Truth(said, address)["gpu_clock"] = v14
      /\ Truth(said, address)["gpu_temperature"] = v15
      /\ Truth(said, address)["gpu_power"] = v16
      /\ Truth(said, address)["memory_available"] = v17
      /\ Truth(said, address)["memory_used"] = v18
      /\ Truth(said, address)["mac_address"] = v19
      /\ Truth(said, address)["last_seen"] = v20
  BY <1>1, <1>2
<1> QED BY <1>3 DEF v0, v1, v2, v3, v4, v5, v6, v7, v8, v9, v10, v11, v12, v13, v14, v15, v16, v17, v18, v19, v20

\* What an entity shows, by the key of its template.
LEMMA EngineShows ==
    ASSUME NEW s
    PROVE  /\ Shown(s, TRUE, "vllm_running") = OnOff(Get(s, "vllm_up"))
           /\ Shown(s, TRUE, "served_model") = Get(s, "model")
           /\ Shown(s, TRUE, "kv_cache_usage") = Get(s, "kv_cache_usage_pct")
           /\ Shown(s, TRUE, "requests_running") = Get(s, "requests_running")
           /\ Shown(s, TRUE, "requests_waiting") = Get(s, "requests_waiting")
           /\ Shown(s, TRUE, "waiting_for_capacity") = Get(s, "waiting_for_capacity")
           /\ Shown(s, TRUE, "preemptions") = Get(s, "preemptions")
           /\ Shown(s, TRUE, "prefix_cache_hit_rate") = Get(s, "prefix_cache_hit_rate_pct")
           /\ Shown(s, TRUE, "generation_rate") = Get(s, "generation_tokens_per_second")
           /\ Shown(s, TRUE, "max_model_len") = Get(s, "max_model_len")
           /\ Shown(s, TRUE, "kv_cache_tokens") = Get(s, "kv_cache_tokens")
           /\ Shown(s, TRUE, "max_concurrency") = Get(s, "max_concurrency")
           /\ Shown(s, TRUE, "prefix_caching") = OnOff(Get(s, "prefix_caching_enabled"))
<1>1. \A id \in OfEngine : Sensors(TRUE)[id] = vllmSensors[id]
  BY Keys DEF OfEngine
<1>2. \A id \in OfEngine : Shown(s, TRUE, id) = IF id \in Binary THEN OnOff(Get(s, vllmSensors[id]))
                                                              ELSE Get(s, vllmSensors[id])
  BY <1>1 DEF Shown, optional, optionalBinary, OnOff
<1>3. \A id \in OfEngine : id \in Binary <=> id \in {"vllm_running", "prefix_caching"}
  BY DEF Binary
<1> QED BY <1>2, <1>3, EngineKeys DEF OfEngine

LEMMA HostShows ==
    ASSUME NEW s, NEW serves \in BOOLEAN
    PROVE  /\ Shown(s, serves, "gpu_utilization") = Get(s, "gpu_utilization_pct")
           /\ Shown(s, serves, "gpu_clock") = Get(s, "gpu_clock_mhz")
           /\ Shown(s, serves, "gpu_temperature") = Get(s, "gpu_temperature_c")
           /\ Shown(s, serves, "gpu_power") = Get(s, "gpu_power_w")
           /\ Shown(s, serves, "memory_available") = Get(s, "memory_available_bytes")
           /\ Shown(s, serves, "memory_used") = Get(s, "memory_used_pct")
           /\ Shown(s, serves, "mac_address") = Get(s, "mac_address")
           /\ Shown(s, serves, "last_seen") = Get(s, "last_seen")
<1>1. \A id \in DOMAIN hostSensors : Sensors(serves)[id] = hostSensors[id] /\ id \notin Binary
  BY Keys DEF OfGPU, OfHost, Binary
<1>2. \A id \in DOMAIN hostSensors : Shown(s, serves, id) = Get(s, hostSensors[id])
  BY <1>1 DEF Shown, optional
<1>3. DOMAIN hostSensors = OfGPU \cup OfHost \cup {"last_seen"}
  BY Keys
<1> QED BY <1>2, <1>3, HostKeys DEF OfGPU, OfHost
\* A reading has what was said.
Matches(r, t) ==
    /\ Get(t, "up") = {IF Get(r, "Up") = {True} THEN True ELSE False}
    /\ Get(r, "Model") = Get(t, "Model")
    /\ {v \in Get(r, "MaxModelLen") : Positive(v)} = NonZero(Get(t, "MaxModelLen"))
    /\ Get(r, "KVCacheUsage") = Get(t, KVCache)
    /\ Get(r, "RequestsRunning") = Get(t, Running)
    /\ Get(r, "RequestsWaiting") = Get(t, Waiting)
    /\ Get(r, "Preemptions") = Get(t, Preemptions)
    /\ Get(r, "WaitingForCapacity") = Get(t, ByReason)
    /\ Get(r, "PrefixCacheHitRate") = {Over(h, q) : h \in Get(t, Hits), q \in NonZero(Get(t, Queries))}
    /\ Get(r, "PrefixCachingOn") = {True : v \in Get(t, "enable_prefix_caching")}
    /\ {v \in Get(r, "KVCacheTokens") : Positive(v)} = Get(t, "kv_cache_size_tokens") \ {<<"None">>}
    /\ {v \in Get(r, "MaxConcurrency") : Positive(v)} = NonZero(Get(t, "kv_cache_max_concurrency"))

LEMMA EngineShown ==
    ASSUME NEW r, NEW t, NEW address, Matches(r, t)
    PROVE  \A id \in OfEngine : Shown(FromVLLM(r), TRUE, id) = Truth(t, address)[id]
<1> DEFINE s == FromVLLM(r)
           u == Truth(t, address)
           S(id) == Shown(s, TRUE, id)
<1>1. /\ S("vllm_running") = OnOff(Get(s, "vllm_up"))
       /\ S("served_model") = Get(s, "model")
       /\ S("kv_cache_usage") = Get(s, "kv_cache_usage_pct")
       /\ S("requests_running") = Get(s, "requests_running")
       /\ S("requests_waiting") = Get(s, "requests_waiting")
       /\ S("waiting_for_capacity") = Get(s, "waiting_for_capacity")
       /\ S("preemptions") = Get(s, "preemptions")
       /\ S("prefix_cache_hit_rate") = Get(s, "prefix_cache_hit_rate_pct")
       /\ S("generation_rate") = Get(s, "generation_tokens_per_second")
       /\ S("max_model_len") = Get(s, "max_model_len")
       /\ S("kv_cache_tokens") = Get(s, "kv_cache_tokens")
       /\ S("max_concurrency") = Get(s, "max_concurrency")
       /\ S("prefix_caching") = OnOff(Get(s, "prefix_caching_enabled"))
  BY EngineShows
<1>2. /\ u["vllm_running"] = OnOff(Get(t, "up"))
       /\ u["served_model"] = Get(t, "Model")
       /\ u["max_model_len"] = NonZero(Get(t, "MaxModelLen"))
       /\ u["kv_cache_usage"] = {Pct(v) : v \in Get(t, KVCache)}
       /\ u["waiting_for_capacity"] = Get(t, ByReason)
       /\ u["prefix_cache_hit_rate"] = {Pct(Over(h, q)) : h \in Get(t, Hits), q \in NonZero(Get(t, Queries))}
       /\ u["prefix_caching"] = {<<"ON">> : v \in Get(t, "enable_prefix_caching")}
       /\ u["kv_cache_tokens"] = Get(t, "kv_cache_size_tokens") \ {<<"None">>}
       /\ u["max_concurrency"] = NonZero(Get(t, "kv_cache_max_concurrency"))
       /\ u["requests_running"] = Get(t, Running)
       /\ u["requests_waiting"] = Get(t, Waiting)
       /\ u["preemptions"] = Get(t, Preemptions)
       /\ u["generation_rate"] = {}
  BY TruthIs
<1> HIDE DEF S, u
<1>3. Get(s, "vllm_up") = Get(t, "up")
  BY StateGets DEF Matches
<1>4. S("vllm_running") = u["vllm_running"]
  <2> HIDE DEF s
  <2> QED BY <1>3, <1>1, <1>2
<1>5. S("served_model") = u["served_model"]
  <2>1. Get(s, "model") = Get(t, "Model")
    BY StateGets DEF Matches
  <2> HIDE DEF s
  <2> QED BY <2>1, <1>1, <1>2
<1>6. S("max_model_len") = u["max_model_len"]
  <2>1. Get(s, "max_model_len") = NonZero(Get(t, "MaxModelLen"))
    BY StateGets DEF Matches
  <2> HIDE DEF s
  <2> QED BY <2>1, <1>1, <1>2
<1>7. S("kv_cache_usage") = u["kv_cache_usage"]
  <2>1. Get(s, "kv_cache_usage_pct") = {Pct(v) : v \in Get(r, "KVCacheUsage")}
    BY StateGets
  <2>2. Get(r, "KVCacheUsage") = Get(t, KVCache)
    BY DEF Matches
  <2> HIDE DEF s
  <2> QED BY <2>1, <2>2, <1>1, <1>2
<1>8. S("requests_running") = u["requests_running"]
  <2>1. Get(s, "requests_running") = Get(t, Running)
    BY StateGets DEF Matches
  <2> HIDE DEF s
  <2> QED BY <2>1, <1>1, <1>2
<1>9. S("requests_waiting") = u["requests_waiting"]
  <2>1. Get(s, "requests_waiting") = Get(t, Waiting)
    BY StateGets DEF Matches
  <2> HIDE DEF s
  <2> QED BY <2>1, <1>1, <1>2
<1>10. S("preemptions") = u["preemptions"]
  <2>1. Get(s, "preemptions") = Get(t, Preemptions)
    BY StateGets DEF Matches
  <2> HIDE DEF s
  <2> QED BY <2>1, <1>1, <1>2
<1>11. S("waiting_for_capacity") = u["waiting_for_capacity"]
  <2>1. Get(s, "waiting_for_capacity") = Get(t, ByReason)
    BY StateGets DEF Matches
  <2> HIDE DEF s
  <2> QED BY <2>1, <1>1, <1>2
<1>12. S("prefix_cache_hit_rate") = u["prefix_cache_hit_rate"]
  <2> DEFINE A == Get(t, Hits)
             B == NonZero(Get(t, Queries))
  <2>1. Get(s, "prefix_cache_hit_rate_pct") = {Pct(v) : v \in {Over(h, q) : h \in A, q \in B}}
    <3>1. Get(s, "prefix_cache_hit_rate_pct") = {Pct(v) : v \in Get(r, "PrefixCacheHitRate")}
      BY StateGets
    <3>2. Get(r, "PrefixCacheHitRate") = {Over(h, q) : h \in A, q \in B}
      BY DEF Matches
    <3> HIDE DEF A, B, s
    <3> QED BY <3>1, <3>2
  <2>2. u["prefix_cache_hit_rate"] = {Pct(Over(h, q)) : h \in A, q \in B}
    BY <1>2
  <2>3. S("prefix_cache_hit_rate") = Get(s, "prefix_cache_hit_rate_pct")
    BY <1>1
  <2> HIDE DEF s, A, B
  <2>4. {Pct(v) : v \in {Over(h, q) : h \in A, q \in B}} = {Pct(Over(h, q)) : h \in A, q \in B}
    OBVIOUS
  <2> QED BY <2>1, <2>2, <2>3, <2>4
<1>13. S("generation_rate") = u["generation_rate"]
  <2>1. "generation_tokens_per_second" \notin Names(s)
    BY StateGets DEF EngineFields
  <2>2. Get(s, "generation_tokens_per_second") = {}
    BY <2>1, GetOther
  <2> HIDE DEF s
  <2> QED BY <2>2, <1>1, <1>2
<1>14. S("kv_cache_tokens") = u["kv_cache_tokens"]
  <2>1. Get(s, "kv_cache_tokens") = Get(t, "kv_cache_size_tokens") \ {<<"None">>}
    BY StateGets DEF Matches
  <2> HIDE DEF s
  <2> QED BY <2>1, <1>1, <1>2
<1>15. S("max_concurrency") = u["max_concurrency"]
  <2>1. Get(s, "max_concurrency") = NonZero(Get(t, "kv_cache_max_concurrency"))
    BY StateGets DEF Matches
  <2> HIDE DEF s
  <2> QED BY <2>1, <1>1, <1>2
<1>16. S("prefix_caching") = u["prefix_caching"]
  <2> DEFINE A == Get(t, "enable_prefix_caching")
  <2>1. Get(s, "prefix_caching_enabled") = {True : v \in A}
    <3>1. Get(r, "PrefixCachingOn") = {True : v \in A}
      BY DEF Matches
    <3> HIDE DEF A
    <3> QED BY <3>1, StateGets
  <2>2. u["prefix_caching"] = {<<"ON">> : v \in A}
    BY <1>2
  <2>3. S("prefix_caching") = OnOff(Get(s, "prefix_caching_enabled"))
    BY <1>1
  <2> HIDE DEF s, A
  <2>4. OnOff({True : v \in A}) = {<<"ON">> : v \in A}
    BY DEF OnOff
  <2> QED BY <2>1, <2>2, <2>3, <2>4
<1> HIDE DEF s
<1>17. \A id \in OfEngine : S(id) = u[id]
  BY <1>4, <1>5, <1>6, <1>7, <1>8, <1>9, <1>10, <1>11, <1>12, <1>13, <1>14, <1>15, <1>16, EngineKeys DEF OfEngine
<1> QED BY <1>17 DEF s, u, S
-----------------------------------------------------------------------------
(***************************************************************************)
(* What was said.                                                          *)
(***************************************************************************)
LEMMA ServedGets ==
    ASSUME NEW served \in Served
    PROVE  /\ Unique(served) /\ Names(served) \subseteq {"Model", "MaxModelLen"}
           /\ Get(served, "Model") \subseteq {<<"m">>}
           /\ Get(served, "MaxModelLen") \subseteq {<<l>> : l \in Finite}
<1>1. CASE served = {}
  <2>1. Unique(served) /\ Names(served) = {}
    BY <1>1 DEF Unique, Names
  <2> QED BY <1>1, <2>1, GetNone
<1>2. ASSUME served # {}
      PROVE  /\ Unique(served) /\ Names(served) \subseteq {"Model", "MaxModelLen"}
             /\ Get(served, "Model") \subseteq {<<"m">>}
             /\ Get(served, "MaxModelLen") \subseteq {<<l>> : l \in Finite}
  <2>1. PICK l \in Finite : served = {<<"Model", <<"m">>>>, <<"MaxModelLen", <<l>>>>}
    BY <1>2 DEF Served
  <2> DEFINE a == {<<"Model", <<"m">>>>}
             b == {<<"MaxModelLen", <<l>>>>}
  <2>2. served = a \cup b
    BY <2>1
  <2>3. Names(a) = {"Model"} /\ Names(b) = {"MaxModelLen"}
    BY NamesOne
  <2>4. Unique(a) /\ Unique(b)
    BY DEF Unique
  <2>5. Get(a, "Model") = {<<"m">>} /\ Get(a, "MaxModelLen") = {} /\ Get(b, "Model") = {}
        /\ Get(b, "MaxModelLen") = {<<l>>}
    BY GetOne
  <2> HIDE DEF a, b
  <2>6. Get(served, "Model") = {<<"m">>} /\ Get(served, "MaxModelLen") = {<<l>>}
    BY <2>2, <2>5, GetUnion
  <2>7. Names(served) = {"Model", "MaxModelLen"}
    BY <2>2, <2>3, NamesUnion
  <2>8. Unique(served)
    BY <2>2, <2>3, <2>4, UniqueUnion
  <2> QED BY <2>6, <2>7, <2>8
<1> QED BY <1>1, <1>2

CacheLabels == {"enable_prefix_caching", "kv_cache_size_tokens", "kv_cache_max_concurrency"}

LEMMA SaidGets ==
    ASSUME scrape \in Seq(Lines)
    PROVE  /\ \A n \in Numbers \cup {ByReason} : Get(Said, n) = SaidOf(n)
           /\ \A k \in CacheLabels :
                 Get(Said, k) = {s.labels[2][2] : s \in {t \in Written(CacheConfig, MoreLabels(CacheConfig)) :
                                                           t.labels[2][1] = k}}
           /\ Names(Said) \subseteq Numbers \cup {ByReason} \cup CacheLabels
<1> DEFINE W == Written(CacheConfig, MoreLabels(CacheConfig))
           N == Numbers \cup {ByReason}
           F == [n \in N |-> SaidOf(n)]
           a == Object(F)
           b == {s.labels[2] : s \in W}
<1>1. Said = a \cup b
  BY DEF Said
<1>2. N \cap CacheLabels = {}
  BY DEF Numbers, ByReason, CacheLabels, KVCache, Queries, Hits, Running, Waiting, Preemptions
<1>3. \A s \in W : s.labels[2] \in MoreLabels(CacheConfig)
  BY WrittenIs
<1>4. \A m \in MoreLabels(CacheConfig) : m[1] \in CacheLabels
  BY DEF MoreLabels, CacheConfig, ByReason, CacheLabels
<1> HIDE DEF N, W, F
<1>5. Names(b) \subseteq CacheLabels
  BY <1>3, <1>4 DEF Names
<1>6. DOMAIN F = N /\ \A n \in N : F[n] = SaidOf(n)
  BY DEF F
<1>7. Names(a) \subseteq N /\ \A n \in N : Get(a, n) = SaidOf(n)
  BY <1>6, ObjectGet, ObjectNames
<1>8. \A k : Get(b, k) = {s.labels[2][2] : s \in {t \in W : t.labels[2][1] = k}}
  BY DEF Get
<1> HIDE DEF a, b
<1>9. \A n \in N : Get(Said, n) = SaidOf(n)
  <2> TAKE n \in N
  <2>1. Get(b, n) = {}
    BY <1>2, <1>5, GetOther
  <2>2. Get(Said, n) = Get(a, n) \cup Get(b, n)
    BY <1>1, GetUnion
  <2> QED BY <1>7, <2>1, <2>2
<1>10. \A k \in CacheLabels : Get(Said, k) = Get(b, k)
  <2> TAKE k \in CacheLabels
  <2>1. Get(a, k) = {}
    BY <1>2, <1>7, GetOther
  <2>2. Get(Said, k) = Get(a, k) \cup Get(b, k)
    BY <1>1, GetUnion
  <2> QED BY <2>1, <2>2
<1>11. Names(Said) \subseteq N \cup CacheLabels
  BY <1>1, <1>5, <1>7, NamesUnion
<1> QED BY <1>8, <1>9, <1>10, <1>11 DEF N, W

\* The values that it can have.
LEMMA SaidValues ==
    ASSUME scrape \in Seq(Lines)
    PROVE  /\ \A n \in Numbers \cup {ByReason} : Get(Said, n) \subseteq {<<f>> : f \in Finite}
           /\ Get(Said, "enable_prefix_caching") \subseteq {<<"True">>}
           /\ Get(Said, "kv_cache_size_tokens") \subseteq {<<"None">>, <<"1">>}
           /\ Get(Said, "kv_cache_max_concurrency") \subseteq {<<"0">>, <<"+Inf">>}
<1>1. ASSUME NEW n \in Numbers \cup {ByReason}
      PROVE  Get(Said, n) \subseteq {<<f>> : f \in Finite}
  <2> DEFINE L == IF n = ByReason THEN {<<"reason", <<"capacity">>>>} ELSE MoreLabels(n)
  <2>1. Get(Said, n) = {<<s.value>> : s \in Written(n, L)}
    BY SaidGets DEF SaidOf
  <2> HIDE DEF L
  <2>2. \A s \in Written(n, L) : s.value \in Finite
    BY WrittenIs
  <2> QED BY <2>1, <2>2
<1> DEFINE W == Written(CacheConfig, MoreLabels(CacheConfig))
<1>2. \A s \in W : s.labels[2] \in MoreLabels(CacheConfig)
  BY WrittenIs
<1>3. \A m \in MoreLabels(CacheConfig) :
         /\ m[1] = "enable_prefix_caching" => m[2] = <<"True">>
         /\ m[1] = "kv_cache_size_tokens" => m[2] \in {<<"None">>, <<"1">>}
         /\ m[1] = "kv_cache_max_concurrency" => m[2] \in {<<"0">>, <<"+Inf">>}
  BY DEF MoreLabels, CacheConfig, ByReason
<1>4. \A k \in CacheLabels : Get(Said, k) = {s.labels[2][2] : s \in {t \in W : t.labels[2][1] = k}}
  BY SaidGets
<1> HIDE DEF W
<1>5. /\ Get(Said, "enable_prefix_caching") \subseteq {<<"True">>}
      /\ Get(Said, "kv_cache_size_tokens") \subseteq {<<"None">>, <<"1">>}
      /\ Get(Said, "kv_cache_max_concurrency") \subseteq {<<"0">>, <<"+Inf">>}
  <2>1. ASSUME NEW k \in CacheLabels, NEW v \in Get(Said, k)
        PROVE  \E m \in MoreLabels(CacheConfig) : m[1] = k /\ m[2] = v
    <3>1. PICK s \in W : s.labels[2][1] = k /\ v = s.labels[2][2]
      BY <1>4
    <3> QED BY <1>2, <3>1
  <2>2. ASSUME NEW v \in Get(Said, "enable_prefix_caching") PROVE v = <<"True">>
    <3>1. PICK m \in MoreLabels(CacheConfig) : m[1] = "enable_prefix_caching" /\ m[2] = v
      BY <2>1 DEF CacheLabels
    <3> QED BY <1>3, <3>1
  <2>3. ASSUME NEW v \in Get(Said, "kv_cache_size_tokens") PROVE v \in {<<"None">>, <<"1">>}
    <3>1. PICK m \in MoreLabels(CacheConfig) : m[1] = "kv_cache_size_tokens" /\ m[2] = v
      BY <2>1 DEF CacheLabels
    <3> QED BY <1>3, <3>1
  <2>4. ASSUME NEW v \in Get(Said, "kv_cache_max_concurrency") PROVE v \in {<<"0">>, <<"+Inf">>}
    <3>1. PICK m \in MoreLabels(CacheConfig) : m[1] = "kv_cache_max_concurrency" /\ m[2] = v
      BY <2>1 DEF CacheLabels
    <3> QED BY <1>3, <3>1
  <2> QED BY <2>2, <2>3, <2>4
<1> QED BY <1>1, <1>5

\* What the reader finds, if every line is readable.
LEMMA FoundIsSaid ==
    ASSUME scrape \in Seq(Lines), metrics = Parsed(scrape), \A s \in ToSet(scrape) : Readable(s)
    PROVE  /\ \A n \in Numbers : Value(metrics, n) = Get(Said, n)
           /\ ValueWhere(metrics, ByReason, <<<<"reason">>, <<"capacity">>>>) = Get(Said, ByReason)
           /\ \A k \in CacheLabels : Label(metrics, CacheConfig, k) = Get(Said, k)
<1>1. ASSUME NEW n \in Numbers PROVE Value(metrics, n) = Get(Said, n)
  <2>1. n # ByReason
    BY DEF Numbers, ByReason, KVCache, Queries, Hits, Running, Waiting, Preemptions
  <2>2. Get(Said, n) = {<<s.value>> : s \in Written(n, MoreLabels(n))}
    BY <2>1, SaidGets DEF SaidOf
  <2> QED BY <2>2, ValueRead
<1>2. ValueWhere(metrics, ByReason, <<<<"reason">>, <<"capacity">>>>) = Get(Said, ByReason)
  <2> DEFINE more == {<<"reason", <<"capacity">>>>}
  <2>1. SaidOf(ByReason) = {<<s.value>> : s \in Written(ByReason, more)}
    BY DEF SaidOf
  <2>2. Get(Said, ByReason) = SaidOf(ByReason)
    BY SaidGets
  <2>3. ValueWhere(metrics, ByReason, <<<<"reason">>, <<"capacity">>>>) = {<<s.value>> : s \in Written(ByReason, more)}
    BY CapacityRead
  <2> QED BY <2>1, <2>2, <2>3
<1>3. ASSUME NEW k \in CacheLabels PROVE Label(metrics, CacheConfig, k) = Get(Said, k)
  <2> DEFINE W == Written(CacheConfig, MoreLabels(CacheConfig))
  <2>1. \A s \in W : Readable(s)
    BY WrittenIs
  <2>2. Get(Said, k) = {s.labels[2][2] : s \in {t \in W : t.labels[2][1] = k}}
    BY SaidGets
  <2>3. k # "model_name"
    BY DEF CacheLabels
  <2>4. Label(metrics, CacheConfig, k) = {s.labels[2][2] : s \in {t \in W : Readable(t) /\ t.labels[2][1] = k}}
    BY <2>3, LabelRead
  <2> HIDE DEF W
  <2>5. {t \in W : Readable(t) /\ t.labels[2][1] = k} = {t \in W : t.labels[2][1] = k}
    BY <2>1
  <2> QED BY <2>2, <2>4, <2>5
<1> QED BY <1>1, <1>2, <1>3
-----------------------------------------------------------------------------
(***************************************************************************)
(* What Read returns has what was said.                                     *)
(***************************************************************************)
LEMMA MatchesUnscraped ==
    ASSUME NEW r, NEW t,
           Get(t, "up") = {IF Get(r, "Up") = {True} THEN True ELSE False},
           Get(r, "Model") = Get(t, "Model"),
           {v \in Get(r, "MaxModelLen") : Positive(v)} = NonZero(Get(t, "MaxModelLen")),
           \A n \in ScrapeKeys : Get(r, n) = {},
           \A n \in Numbers \cup {ByReason} \cup CacheLabels : Get(t, n) = {}
    PROVE  Matches(r, t)
<1>1. /\ Get(r, "KVCacheUsage") = {} /\ Get(r, "RequestsRunning") = {} /\ Get(r, "RequestsWaiting") = {}
      /\ Get(r, "Preemptions") = {} /\ Get(r, "WaitingForCapacity") = {} /\ Get(r, "PrefixCacheHitRate") = {}
      /\ Get(r, "PrefixCachingOn") = {} /\ Get(r, "KVCacheTokens") = {} /\ Get(r, "MaxConcurrency") = {}
  BY DEF ScrapeKeys
<1>2. /\ Get(t, KVCache) = {} /\ Get(t, Running) = {} /\ Get(t, Waiting) = {} /\ Get(t, Preemptions) = {}
      /\ Get(t, Hits) = {} /\ Get(t, Queries) = {} /\ Get(t, ByReason) = {}
      /\ Get(t, "enable_prefix_caching") = {} /\ Get(t, "kv_cache_size_tokens") = {}
      /\ Get(t, "kv_cache_max_concurrency") = {}
  BY DEF Numbers, CacheLabels
<1>3. NonZero({}) = {} /\ {v \in {} : Positive(v)} = {} /\ {} \ {<<"None">>} = {} /\ {True : v \in {}} = {}
      /\ {Over(h, q) : h \in {}, q \in {}} = {}
  BY DEF NonZero
<1>4. {Over(h, q) : h \in Get(t, Hits), q \in NonZero(Get(t, Queries))} = {}
  BY <1>2
<1>5. {True : v \in Get(t, "enable_prefix_caching")} = {}
  BY <1>2
<1>6. {v \in Get(r, "KVCacheTokens") : Positive(v)} = Get(t, "kv_cache_size_tokens") \ {<<"None">>}
  BY <1>1, <1>2
<1>7. {v \in Get(r, "MaxConcurrency") : Positive(v)} = NonZero(Get(t, "kv_cache_max_concurrency"))
  BY <1>1, <1>2, <1>3
<1> QED BY <1>1, <1>2, <1>4, <1>5, <1>6, <1>7 DEF Matches

LEMMA MatchesDown == Matches({}, {<<"up", False>>})
<1> DEFINE t == {<<"up", False>>}
<1>1. \A n : n # "up" => Get(t, n) = {}
  BY GetOne
<1>2. Get(t, "up") = {IF Get({}, "Up") = {True} THEN True ELSE False}
  BY GetOne, GetNone
<1>3. \A n \in Numbers \cup {ByReason} \cup CacheLabels \cup {"Model", "MaxModelLen"} : n # "up"
  BY DEF Numbers, ByReason, CacheLabels, KVCache, Queries, Hits, Running, Waiting, Preemptions
<1> HIDE DEF t
<1>4. \A n \in Numbers \cup {ByReason} \cup CacheLabels \cup {"Model", "MaxModelLen"} : Get(t, n) = {}
  BY <1>1, <1>3
<1>5. {v \in {} : Positive(v)} = NonZero({})
  BY DEF NonZero
<1>6. {v \in Get({}, "MaxModelLen") : Positive(v)} = NonZero(Get(t, "MaxModelLen"))
  BY <1>4, <1>5, GetNone
<1>7. Matches({}, t)
  BY <1>2, <1>4, <1>6, GetNone, MatchesUnscraped
<1> QED BY <1>7 DEF t

\* The values of which only the sign is looked at.
LEMMA PositiveFinite ==
    ASSUME NEW V, V \subseteq {<<f>> : f \in Finite}
    PROVE  {v \in V : Positive(v)} = NonZero(V)
<1>1. \A f \in Finite : <<f>> # <<"NaN">>
  BY DEF Finite
<1>2. \A v \in V : v # <<"NaN">>
  BY <1>1
<1> QED BY <1>2 DEF Positive, NonZero

LEMMA BaseGets ==
    ASSUME NEW served \in Served, NEW r, NEW t,
           r = {<<"Up", True>>} \cup served, t = {<<"up", True>>} \cup served
    PROVE  /\ Unique(r) /\ Unique(t)
           /\ Names(r) \subseteq {"Up", "Model", "MaxModelLen"}
           /\ Names(t) \subseteq {"up", "Model", "MaxModelLen"}
           /\ Get(r, "Up") = {True} /\ Get(t, "up") = {True}
           /\ Get(r, "Model") = Get(t, "Model") /\ Get(r, "Model") \subseteq {<<"m">>}
           /\ Get(r, "MaxModelLen") = Get(t, "MaxModelLen") /\ Get(r, "MaxModelLen") \subseteq {<<l>> : l \in Finite}
<1> DEFINE a == {<<"Up", True>>}
           c == {<<"up", True>>}
<1>1. Names(a) = {"Up"} /\ Names(c) = {"up"}
  BY NamesOne
<1>2. Unique(a) /\ Unique(c)
  BY DEF Unique
<1>3. /\ Get(a, "Up") = {True} /\ Get(a, "Model") = {} /\ Get(a, "MaxModelLen") = {}
      /\ Get(c, "up") = {True} /\ Get(c, "Model") = {} /\ Get(c, "MaxModelLen") = {}
  BY GetOne
<1>4. r = a \cup served /\ t = c \cup served
  OBVIOUS
<1> HIDE DEF a, c
<1>5. Unique(served) /\ Names(served) \subseteq {"Model", "MaxModelLen"}
      /\ Get(served, "Model") \subseteq {<<"m">>} /\ Get(served, "MaxModelLen") \subseteq {<<l>> : l \in Finite}
  BY ServedGets
<1>6. Get(served, "Up") = {} /\ Get(served, "up") = {}
  BY <1>5, GetOther
<1>7. Names(r) \subseteq {"Up", "Model", "MaxModelLen"} /\ Names(t) \subseteq {"up", "Model", "MaxModelLen"}
  BY <1>1, <1>4, <1>5, NamesUnion
<1>8. Unique(r) /\ Unique(t)
  <2>1. Names(a) \cap Names(served) = {} /\ Names(c) \cap Names(served) = {}
    BY <1>1, <1>5
  <2> QED BY <1>2, <1>4, <1>5, <2>1, UniqueUnion
<1>9. /\ Get(r, "Up") = Get(a, "Up") \cup Get(served, "Up")
      /\ Get(t, "up") = Get(c, "up") \cup Get(served, "up")
      /\ Get(r, "Model") = Get(a, "Model") \cup Get(served, "Model")
      /\ Get(t, "Model") = Get(c, "Model") \cup Get(served, "Model")
      /\ Get(r, "MaxModelLen") = Get(a, "MaxModelLen") \cup Get(served, "MaxModelLen")
      /\ Get(t, "MaxModelLen") = Get(c, "MaxModelLen") \cup Get(served, "MaxModelLen")
  BY <1>4, GetUnion
<1> QED BY <1>3, <1>5, <1>6, <1>7, <1>8, <1>9

LEMMA MatchesServed ==
    ASSUME NEW served \in Served
    PROVE  Matches({<<"Up", True>>} \cup served, {<<"up", True>>} \cup served)
<1> DEFINE r == {<<"Up", True>>} \cup served
           t == {<<"up", True>>} \cup served
<1>1. /\ Names(r) \subseteq {"Up", "Model", "MaxModelLen"}
      /\ Names(t) \subseteq {"up", "Model", "MaxModelLen"}
      /\ Get(r, "Up") = {True} /\ Get(t, "up") = {True}
      /\ Get(r, "Model") = Get(t, "Model")
      /\ Get(r, "MaxModelLen") = Get(t, "MaxModelLen") /\ Get(r, "MaxModelLen") \subseteq {<<l>> : l \in Finite}
  BY BaseGets
<1> HIDE DEF r, t
<1>2. \A n \in ScrapeKeys : Get(r, n) = {}
  <2>1. {"Up", "Model", "MaxModelLen"} \cap ScrapeKeys = {}
    BY DEF ScrapeKeys
  <2> QED BY <1>1, <2>1, GetOther
<1>3. \A n \in Numbers \cup {ByReason} \cup CacheLabels : Get(t, n) = {}
  <2>1. (Numbers \cup {ByReason} \cup CacheLabels) \cap {"up", "Model", "MaxModelLen"} = {}
    BY DEF Numbers, ByReason, CacheLabels, KVCache, Queries, Hits, Running, Waiting, Preemptions
  <2> QED BY <1>1, <2>1, GetOther
<1>4. {v \in Get(r, "MaxModelLen") : Positive(v)} = NonZero(Get(t, "MaxModelLen"))
  BY <1>1, PositiveFinite
<1>5. {True} = {IF {True} = {True} THEN True ELSE False}
  OBVIOUS
<1>6. Matches(r, t)
  BY <1>1, <1>2, <1>3, <1>4, <1>5, MatchesUnscraped
<1> QED BY <1>6 DEF r, t

LEMMA MatchesScrape ==
    ASSUME scrape \in Seq(Lines), metrics = Parsed(scrape), \A s \in ToSet(scrape) : Readable(s),
           NEW served \in Served, NEW r, NEW t,
           r = {<<"Up", True>>} \cup served, t = {<<"up", True>>} \cup served
    PROVE  Matches(r \cup applyMetrics(metrics), t \cup Said)
<1> DEFINE m == applyMetrics(metrics)
           x == r \cup m
           y == t \cup Said
<1>1. /\ Names(r) \subseteq {"Up", "Model", "MaxModelLen"}
      /\ Names(t) \subseteq {"up", "Model", "MaxModelLen"}
      /\ Get(r, "Up") = {True} /\ Get(t, "up") = {True}
      /\ Get(r, "Model") = Get(t, "Model")
      /\ Get(r, "MaxModelLen") = Get(t, "MaxModelLen") /\ Get(r, "MaxModelLen") \subseteq {<<l>> : l \in Finite}
  BY BaseGets
<1>2. Names(m) \subseteq ScrapeKeys
  BY AppliedGets
<1>3. Names(Said) \subseteq Numbers \cup {ByReason} \cup CacheLabels
  BY SaidGets
<1>4. \A n : Get(x, n) = Get(r, n) \cup Get(m, n)
  BY GetUnion
<1>5. \A n : Get(y, n) = Get(t, n) \cup Get(Said, n)
  BY GetUnion
<1> HIDE DEF m, x, y
<1>6. \A n \in ScrapeKeys : Get(x, n) = Get(m, n)
  <2> TAKE n \in ScrapeKeys
  <2>1. n \notin {"Up", "Model", "MaxModelLen"}
    BY DEF ScrapeKeys
  <2>2. Get(r, n) = {}
    BY <1>1, <2>1, GetOther
  <2> QED BY <1>4, <2>2
<1>7. /\ Get(x, "Up") = Get(r, "Up") /\ Get(x, "Model") = Get(r, "Model")
      /\ Get(x, "MaxModelLen") = Get(r, "MaxModelLen")
  <2>1. {"Up", "Model", "MaxModelLen"} \cap ScrapeKeys = {}
    BY DEF ScrapeKeys
  <2>2. Get(m, "Up") = {} /\ Get(m, "Model") = {} /\ Get(m, "MaxModelLen") = {}
    BY <1>2, <2>1, GetOther
  <2> QED BY <1>4, <2>2
<1> DEFINE K == Numbers \cup {ByReason} \cup CacheLabels
<1>8. K \cap {"up", "Model", "MaxModelLen"} = {}
  BY DEF Numbers, ByReason, CacheLabels, KVCache, Queries, Hits, Running, Waiting, Preemptions
<1> HIDE DEF K
<1>9. \A n \in K : Get(y, n) = Get(Said, n)
  <2> TAKE n \in K
  <2>1. Get(t, n) = {}
    BY <1>1, <1>8, GetOther
  <2> QED BY <1>5, <2>1
<1>10. /\ Get(y, "up") = Get(t, "up") /\ Get(y, "Model") = Get(t, "Model")
       /\ Get(y, "MaxModelLen") = Get(t, "MaxModelLen")
  <2>1. Get(Said, "up") = {} /\ Get(Said, "Model") = {} /\ Get(Said, "MaxModelLen") = {}
    BY <1>3, <1>8, GetOther DEF K
  <2> QED BY <1>5, <2>1
<1>11. {KVCache, Queries, Hits, Running, Waiting, Preemptions} \subseteq Numbers
       /\ Numbers \subseteq K /\ ByReason \in K /\ CacheLabels \subseteq K
  BY DEF Numbers, K
<1>12. \A n \in Numbers : Value(metrics, n) = Get(y, n)
  <2>1. \A n \in Numbers : Value(metrics, n) = Get(Said, n)
    BY FoundIsSaid
  <2> QED BY <1>9, <1>11, <2>1
<1>13. /\ Get(x, "KVCacheUsage") = Get(y, KVCache) /\ Get(x, "RequestsRunning") = Get(y, Running)
       /\ Get(x, "RequestsWaiting") = Get(y, Waiting) /\ Get(x, "Preemptions") = Get(y, Preemptions)
  <2>1. /\ Get(m, "KVCacheUsage") = Value(metrics, KVCache) /\ Get(m, "RequestsRunning") = Value(metrics, Running)
        /\ Get(m, "RequestsWaiting") = Value(metrics, Waiting) /\ Get(m, "Preemptions") = Value(metrics, Preemptions)
    BY AppliedGets DEF m
  <2>2. {"KVCacheUsage", "RequestsRunning", "RequestsWaiting", "Preemptions"} \subseteq ScrapeKeys
    BY DEF ScrapeKeys
  <2> QED BY <1>6, <1>11, <1>12, <2>1, <2>2
<1>14. Get(x, "WaitingForCapacity") = Get(y, ByReason)
  <2>1. Get(m, "WaitingForCapacity") = ValueWhere(metrics, ByReason, <<<<"reason">>, <<"capacity">>>>)
    BY AppliedGets DEF m
  <2>2. ValueWhere(metrics, ByReason, <<<<"reason">>, <<"capacity">>>>) = Get(Said, ByReason)
    BY FoundIsSaid
  <2>3. "WaitingForCapacity" \in ScrapeKeys
    BY DEF ScrapeKeys
  <2> QED BY <1>6, <1>9, <1>11, <2>1, <2>2, <2>3
<1>15. Get(x, "PrefixCacheHitRate") = {Over(h, q) : h \in Get(y, Hits), q \in NonZero(Get(y, Queries))}
  <2>1. Get(m, "PrefixCacheHitRate")
          = {Over(h, q) : h \in Value(metrics, Hits), q \in {v \in Value(metrics, Queries) : Positive(v)}}
    BY AppliedGets DEF m
  <2>2. Value(metrics, Hits) = Get(y, Hits) /\ Value(metrics, Queries) = Get(y, Queries)
    BY <1>11, <1>12
  <2>3. Get(y, Queries) \subseteq {<<f>> : f \in Finite}
    BY <1>9, <1>11, SaidValues
  <2>4. {v \in Get(y, Queries) : Positive(v)} = NonZero(Get(y, Queries))
    BY <2>3, PositiveFinite
  <2>5. "PrefixCacheHitRate" \in ScrapeKeys
    BY DEF ScrapeKeys
  <2> QED BY <1>6, <2>1, <2>2, <2>4, <2>5
<1>16. \A k \in CacheLabels : Label(metrics, CacheConfig, k) = Get(y, k)
  <2>1. \A k \in CacheLabels : Label(metrics, CacheConfig, k) = Get(Said, k)
    BY FoundIsSaid
  <2> QED BY <1>9, <1>11, <2>1
<1>17. /\ Get(y, "enable_prefix_caching") \subseteq {<<"True">>}
       /\ Get(y, "kv_cache_size_tokens") \subseteq {<<"None">>, <<"1">>}
       /\ Get(y, "kv_cache_max_concurrency") \subseteq {<<"0">>, <<"+Inf">>}
  BY <1>9, <1>11, SaidValues DEF CacheLabels
<1>18. Get(x, "PrefixCachingOn") = {True : v \in Get(y, "enable_prefix_caching")}
  <2> DEFINE V == Get(y, "enable_prefix_caching")
  <2>1. Get(m, "PrefixCachingOn")
          = {IF v = <<"True">> THEN True ELSE False : v \in Label(metrics, CacheConfig, "enable_prefix_caching")}
    BY AppliedGets DEF m
  <2>2. Label(metrics, CacheConfig, "enable_prefix_caching") = V
    BY <1>16 DEF CacheLabels
  <2>3. "PrefixCachingOn" \in ScrapeKeys
    BY DEF ScrapeKeys
  <2>4. \A v \in V : v = <<"True">>
    BY <1>17
  <2> HIDE DEF V
  <2>5. {IF v = <<"True">> THEN True ELSE False : v \in V} = {True : v \in V}
    BY <2>4
  <2>6. Get(x, "PrefixCachingOn") = {True : v \in V}
    BY <1>6, <2>1, <2>2, <2>3, <2>5
  <2> QED BY <2>6 DEF V
<1>19. {v \in Get(x, "KVCacheTokens") : Positive(v)} = Get(y, "kv_cache_size_tokens") \ {<<"None">>}
  <2> DEFINE V == Get(y, "kv_cache_size_tokens")
  <2>1. Get(m, "KVCacheTokens")
          = {v \in Label(metrics, CacheConfig, "kv_cache_size_tokens") : Len(v) = 1 /\ v[1] \in Finite}
    BY AppliedGets DEF m
  <2>2. Label(metrics, CacheConfig, "kv_cache_size_tokens") = V
    BY <1>16 DEF CacheLabels
  <2>3. "KVCacheTokens" \in ScrapeKeys
    BY DEF ScrapeKeys
  <2>4. V \subseteq {<<"None">>, <<"1">>}
    BY <1>17
  <2> HIDE DEF V
  <2>5. /\ Len(<<"1">>) = 1 /\ <<"1">>[1] \in Finite /\ Positive(<<"1">>)
        /\ <<"None">>[1] \notin Finite /\ <<"1">> # <<"None">>
    BY DEF Positive, Finite
  <2>6. Get(x, "KVCacheTokens") = {v \in V : Len(v) = 1 /\ v[1] \in Finite}
    BY <1>6, <2>1, <2>2, <2>3
  <2>7. {v \in Get(x, "KVCacheTokens") : Positive(v)} = V \ {<<"None">>}
    BY <2>4, <2>5, <2>6
  <2> QED BY <2>7 DEF V
<1>20. {v \in Get(x, "MaxConcurrency") : Positive(v)} = NonZero(Get(y, "kv_cache_max_concurrency"))
  <2> DEFINE V == Get(y, "kv_cache_max_concurrency")
  <2>1. Get(m, "MaxConcurrency")
          = {v \in Label(metrics, CacheConfig, "kv_cache_max_concurrency") : Len(v) = 1 /\ v[1] \in Floats}
    BY AppliedGets DEF m
  <2>2. Label(metrics, CacheConfig, "kv_cache_max_concurrency") = V
    BY <1>16 DEF CacheLabels
  <2>3. "MaxConcurrency" \in ScrapeKeys
    BY DEF ScrapeKeys
  <2>4. V \subseteq {<<"0">>, <<"+Inf">>}
    BY <1>17
  <2> HIDE DEF V
  <2>5. /\ Len(<<"0">>) = 1 /\ <<"0">>[1] \in Floats /\ Len(<<"+Inf">>) = 1 /\ <<"+Inf">>[1] \in Floats
        /\ Positive(<<"+Inf">>) /\ <<"+Inf">> # <<"0">> /\ ~Positive(<<"0">>)
    BY DEF Positive, Floats, Finite
  <2>6. Get(x, "MaxConcurrency") = {v \in V : Len(v) = 1 /\ v[1] \in Floats}
    BY <1>6, <2>1, <2>2, <2>3
  <2>7. {v \in Get(x, "MaxConcurrency") : Positive(v)} = V \ {<<"0">>}
    BY <2>4, <2>5, <2>6
  <2> QED BY <2>7 DEF V, NonZero
<1>21. /\ Get(y, "up") = {True} /\ Get(x, "Up") = {True} /\ {True} = {IF {True} = {True} THEN True ELSE False}
       /\ Get(x, "Model") = Get(y, "Model")
       /\ {v \in Get(x, "MaxModelLen") : Positive(v)} = NonZero(Get(y, "MaxModelLen"))
  <2>1. {v \in Get(r, "MaxModelLen") : Positive(v)} = NonZero(Get(t, "MaxModelLen"))
    BY <1>1, PositiveFinite
  <2> QED BY <1>1, <1>7, <1>10, <2>1
<1>22. Matches(x, y)
  BY <1>13, <1>14, <1>15, <1>18, <1>19, <1>20, <1>21 DEF Matches
<1> QED BY <1>22 DEF x, y, m
-----------------------------------------------------------------------------
(***************************************************************************)
(* What of a reading is no number.                                          *)
(***************************************************************************)
Ones == {<<f>> : f \in Finite}

\* A reading's values are texts of the kinds that the readers make.
Proper(r) ==
    /\ Get(r, "Model") \subseteq {<<"m">>} /\ Get(r, "MaxModelLen") \subseteq Ones
    /\ Get(r, "KVCacheUsage") \subseteq Ones /\ Get(r, "RequestsRunning") \subseteq Ones
    /\ Get(r, "RequestsWaiting") \subseteq Ones /\ Get(r, "Preemptions") \subseteq Ones
    /\ Get(r, "WaitingForCapacity") \subseteq Ones
    /\ \A v \in Get(r, "PrefixCacheHitRate") : v \in Seq(Texts) /\ ~NoNumber(v)
    /\ Get(r, "PrefixCachingOn") \subseteq {True, False}
    /\ Get(r, "KVCacheTokens") \subseteq {<<"1">>}
    /\ Get(r, "MaxConcurrency") \subseteq {<<"0">>, <<"+Inf">>}

LEMMA OnesNumbers ==
    ASSUME NEW v \in Ones
    PROVE  v \in Seq(Texts) /\ ~NoNumber(v) /\ Len(v) > 0 /\ v = <<v[1]>> /\ v[1] \in Finite
BY FiniteNumber DEF Ones

LEMMA PairValue ==
    ASSUME NEW x, NEW p \in x
    PROVE  p[1] \in Names(x) /\ p[2] \in Get(x, p[1])
BY DEF Names, Get

LEMMA StateNumbers ==
    ASSUME NEW r, Proper(r), NEW p \in FromVLLM(r), NoNumber(p[2])
    PROVE  <<"+Inf">> \in Get(r, "MaxConcurrency")
<1> DEFINE s == FromVLLM(r)
           k == p[1]
           v == p[2]
<1>1. Names(s) \subseteq EngineFields
  BY StateGets
<1>2. k \in EngineFields /\ v \in Get(s, k)
  BY <1>1, PairValue
<1>3. ~NoNumber(<<"now">>) /\ ~NoNumber(True) /\ ~NoNumber(False) /\ ~NoNumber(<<"m">>)
      /\ ~NoNumber(<<"0">>) /\ ~NoNumber(<<"1">>)
  BY NumberAlone DEF True, False
<1>4. \A w \in Ones : ~NoNumber(w) /\ ~NoNumber(Pct(w))
  BY OnesNumbers, PctNumber
<1>5. /\ Get(s, "last_seen") = {<<"now">>}
      /\ Get(s, "vllm_up") \subseteq {True, False}
      /\ Get(s, "model") \subseteq {<<"m">>}
      /\ Get(s, "max_model_len") \subseteq Ones
      /\ Get(s, "requests_running") \subseteq Ones
      /\ Get(s, "requests_waiting") \subseteq Ones
      /\ Get(s, "preemptions") \subseteq Ones
      /\ Get(s, "waiting_for_capacity") \subseteq Ones
      /\ Get(s, "prefix_caching_enabled") \subseteq {True, False}
  BY StateGets DEF Proper
<1>6. Get(s, "kv_cache_usage_pct") \subseteq {Pct(w) : w \in Ones}
  <2>1. Get(s, "kv_cache_usage_pct") = {Pct(w) : w \in Get(r, "KVCacheUsage")} /\ Get(r, "KVCacheUsage") \subseteq Ones
    BY StateGets DEF Proper
  <2> HIDE DEF s
  <2> QED BY <2>1
<1>7. \A w \in Get(s, "prefix_cache_hit_rate_pct") : ~NoNumber(w)
  <2>1. Get(s, "prefix_cache_hit_rate_pct") = {Pct(w) : w \in Get(r, "PrefixCacheHitRate")}
    BY StateGets
  <2>2. \A w \in Get(r, "PrefixCacheHitRate") : ~NoNumber(Pct(w))
    BY PctNumber DEF Proper
  <2> HIDE DEF s
  <2> QED BY <2>1, <2>2
<1>8. Get(s, "kv_cache_tokens") \subseteq {<<"1">>}
  BY StateGets DEF Proper
<1>9. Get(s, "max_concurrency") \subseteq Get(r, "MaxConcurrency") /\ Get(r, "MaxConcurrency") \subseteq {<<"0">>, <<"+Inf">>}
  BY StateGets DEF Proper
<1>10. NoNumber(v)
  OBVIOUS
<1> HIDE DEF s, k, v
<1>11. \A w \in Get(s, "kv_cache_usage_pct") : ~NoNumber(w)
  BY <1>4, <1>6
<1>12. \A n \in EngineFields \ {"max_concurrency"} : \A w \in Get(s, n) : ~NoNumber(w)
  BY <1>3, <1>4, <1>5, <1>7, <1>8, <1>11 DEF EngineFields
<1>13. k = "max_concurrency"
  BY <1>2, <1>10, <1>12
<1>14. v = <<"+Inf">> /\ v \in Get(r, "MaxConcurrency")
  BY <1>2, <1>3, <1>9, <1>10, <1>13
<1> QED BY <1>14

LEMMA ProperDown == Proper({})
BY GetNone DEF Proper

LEMMA ProperServed ==
    ASSUME NEW served \in Served
    PROVE  Proper({<<"Up", True>>} \cup served)
<1> DEFINE r == {<<"Up", True>>} \cup served
           t == {<<"up", True>>} \cup served
<1>1. /\ Names(r) \subseteq {"Up", "Model", "MaxModelLen"}
      /\ Get(r, "Model") \subseteq {<<"m">>} /\ Get(r, "MaxModelLen") \subseteq {<<l>> : l \in Finite}
  <2>1. t = {<<"up", True>>} \cup served
    OBVIOUS
  <2> HIDE DEF t
  <2> QED BY <2>1, BaseGets
<1> HIDE DEF r
<1>2. \A n \in ScrapeKeys : Get(r, n) = {}
  <2>1. {"Up", "Model", "MaxModelLen"} \cap ScrapeKeys = {}
    BY DEF ScrapeKeys
  <2> QED BY <1>1, <2>1, GetOther
<1>3. Proper(r)
  BY <1>1, <1>2 DEF Proper, Ones, ScrapeKeys
<1> QED BY <1>3 DEF r

\* The labels that it finds were said.
LEMMA FoundWasSaid ==
    ASSUME scrape \in Seq(Lines), metrics = Parsed(scrape), NEW k \in CacheLabels
    PROVE  Label(metrics, CacheConfig, k) \subseteq Get(Said, k)
<1> DEFINE W == Written(CacheConfig, MoreLabels(CacheConfig))
<1>1. Get(Said, k) = {s.labels[2][2] : s \in {t \in W : t.labels[2][1] = k}}
  BY SaidGets
<1>2. k # "model_name"
  BY DEF CacheLabels
<1>3. Label(metrics, CacheConfig, k) = {s.labels[2][2] : s \in {t \in W : Readable(t) /\ t.labels[2][1] = k}}
  BY <1>2, LabelRead
<1> HIDE DEF W
<1> QED BY <1>1, <1>3

LEMMA FoundFinite ==
    ASSUME NEW m \in Seq(Images), NEW A
    PROVE  {s.value : s \in FirstIn(m, A)} \subseteq Ones
<1>1. \A x \in Images : x.value \in Ones
  <2> TAKE x \in Images
  <2>1. PICK s \in Lines : x = Image(s) /\ s.value \in Finite
    BY DEF Images, Finites
  <2>2. x.value = <<s.value>>
    BY <2>1 DEF Image
  <2> QED BY <2>1, <2>2 DEF Ones
<1>2. \A x \in FirstIn(m, A) : x \in Images
  BY FirstInOne
<1> QED BY <1>1, <1>2

LEMMA ProperScrape ==
    ASSUME scrape \in Seq(Lines), metrics = Parsed(scrape), NEW served \in Served, NEW r,
           r = {<<"Up", True>>} \cup served
    PROVE  /\ Proper(r \cup applyMetrics(metrics))
           /\ Get(r \cup applyMetrics(metrics), "MaxConcurrency") \subseteq Get(Said, "kv_cache_max_concurrency")
           /\ Unique(r \cup applyMetrics(metrics))
<1> DEFINE m == applyMetrics(metrics)
           x == r \cup m
           t == {<<"up", True>>} \cup served
<1>1. /\ Names(r) \subseteq {"Up", "Model", "MaxModelLen"} /\ Unique(r)
      /\ Get(r, "Model") \subseteq {<<"m">>} /\ Get(r, "MaxModelLen") \subseteq {<<l>> : l \in Finite}
  <2>1. t = {<<"up", True>>} \cup served
    OBVIOUS
  <2> HIDE DEF t
  <2> QED BY <2>1, BaseGets
<1>2. Names(m) \subseteq ScrapeKeys
  BY AppliedGets
<1>3. \A n : Get(x, n) = Get(r, n) \cup Get(m, n)
  BY GetUnion
<1>4. metrics \in Seq(Images)
  BY ParsedLength
<1>5. {"Up", "Model", "MaxModelLen"} \cap ScrapeKeys = {}
  BY DEF ScrapeKeys
<1>6. Unique(m)
  BY <1>4, AppliedUnique
<1>7. /\ Get(m, "KVCacheUsage") = Value(metrics, KVCache) /\ Get(m, "RequestsRunning") = Value(metrics, Running)
      /\ Get(m, "RequestsWaiting") = Value(metrics, Waiting) /\ Get(m, "Preemptions") = Value(metrics, Preemptions)
      /\ Get(m, "WaitingForCapacity") = ValueWhere(metrics, ByReason, <<<<"reason">>, <<"capacity">>>>)
      /\ Get(m, "PrefixCacheHitRate")
          = {Over(h, q) : h \in Value(metrics, Hits), q \in {v \in Value(metrics, Queries) : Positive(v)}}
      /\ Get(m, "PrefixCachingOn")
          = {IF v = <<"True">> THEN True ELSE False : v \in Label(metrics, CacheConfig, "enable_prefix_caching")}
      /\ Get(m, "KVCacheTokens")
          = {v \in Label(metrics, CacheConfig, "kv_cache_size_tokens") : Len(v) = 1 /\ v[1] \in Finite}
      /\ Get(m, "MaxConcurrency")
          = {v \in Label(metrics, CacheConfig, "kv_cache_max_concurrency") : Len(v) = 1 /\ v[1] \in Floats}
  BY AppliedGets
<1> HIDE DEF m, x
<1>8. Unique(x)
  <2>1. Names(r) \cap Names(m) = {}
    BY <1>1, <1>2, <1>5
  <2> QED BY <1>1, <1>6, <2>1, UniqueUnion DEF x
<1>9. \A n \in ScrapeKeys : Get(x, n) = Get(m, n)
  <2> TAKE n \in ScrapeKeys
  <2>1. Get(r, n) = {}
    BY <1>1, <1>5, GetOther
  <2> QED BY <1>3, <2>1
<1>10. Get(x, "Model") = Get(r, "Model") /\ Get(x, "MaxModelLen") = Get(r, "MaxModelLen")
  <2>1. Get(m, "Model") = {} /\ Get(m, "MaxModelLen") = {}
    BY <1>2, <1>5, GetOther
  <2> QED BY <1>3, <2>1
<1>11. \A n : Value(metrics, n) \subseteq Ones
  BY <1>4, FoundFinite DEF Value
<1>12. ValueWhere(metrics, ByReason, <<<<"reason">>, <<"capacity">>>>) \subseteq Ones
  BY <1>4, FoundFinite DEF ValueWhere
<1>13. ASSUME NEW v \in Get(m, "PrefixCacheHitRate") PROVE v \in Seq(Texts) /\ ~NoNumber(v)
  <2>1. PICK h \in Value(metrics, Hits), q \in {w \in Value(metrics, Queries) : Positive(w)} : v = Over(h, q)
    BY <1>7
  <2>2. h \in Ones /\ q \in Ones /\ Positive(q)
    BY <1>11
  <2>3. q[1] # "0"
    <3>1. q = <<q[1]>>
      BY <2>2, OnesNumbers
    <3> QED BY <2>2, <3>1 DEF Positive
  <2> QED BY <2>1, <2>2, <2>3, OnesNumbers, OverNumber
<1>14. Get(m, "PrefixCachingOn") \subseteq {True, False}
  BY <1>7
<1>15. Get(m, "KVCacheTokens") \subseteq {<<"1">>}
  <2>1. Label(metrics, CacheConfig, "kv_cache_size_tokens") \subseteq Get(Said, "kv_cache_size_tokens")
    BY FoundWasSaid DEF CacheLabels
  <2>2. Get(Said, "kv_cache_size_tokens") \subseteq {<<"None">>, <<"1">>}
    BY SaidValues
  <2>3. <<"None">>[1] \notin Finite
    BY DEF Finite
  <2> QED BY <1>7, <2>1, <2>2, <2>3
<1>16. Get(m, "MaxConcurrency") \subseteq Get(Said, "kv_cache_max_concurrency")
       /\ Get(Said, "kv_cache_max_concurrency") \subseteq {<<"0">>, <<"+Inf">>}
  <2>1. Label(metrics, CacheConfig, "kv_cache_max_concurrency") \subseteq Get(Said, "kv_cache_max_concurrency")
    BY FoundWasSaid DEF CacheLabels
  <2>2. Get(Said, "kv_cache_max_concurrency") \subseteq {<<"0">>, <<"+Inf">>}
    BY SaidValues
  <2> QED BY <1>7, <2>1, <2>2
<1>17. /\ Get(m, "KVCacheUsage") \subseteq Ones /\ Get(m, "RequestsRunning") \subseteq Ones
       /\ Get(m, "RequestsWaiting") \subseteq Ones /\ Get(m, "Preemptions") \subseteq Ones
       /\ Get(m, "WaitingForCapacity") \subseteq Ones
  BY <1>7, <1>11, <1>12
<1>18. Proper(x)
  BY <1>1, <1>9, <1>10, <1>13, <1>14, <1>15, <1>16, <1>17 DEF Proper, Ones, ScrapeKeys
<1>19. Get(x, "MaxConcurrency") \subseteq Get(Said, "kv_cache_max_concurrency")
  BY <1>9, <1>16 DEF ScrapeKeys
<1> QED BY <1>8, <1>18, <1>19 DEF x, m
-----------------------------------------------------------------------------
(***************************************************************************)
(* The accelerator.                                                        *)
(***************************************************************************)
LEMMA FunctionIsSeq ==
    ASSUME NEW S, NEW n \in Nat, NEW f \in [1..n -> S]
    PROVE  f \in Seq(S)
OBVIOUS

LEMMA RowTypes ==
    ASSUME NEW row \in Rows
    PROVE  \/ Len(row) < 4 /\ "NaN" \notin ToSet(row)
           \/ Len(row) = 4 /\ DOMAIN row = 1..4 /\ row \in [1..4 -> SmiFields]
<1>1. CASE row = <<>>
  <2>1. Len(row) = 0 /\ DOMAIN row = {}
    BY <1>1
  <2> QED BY <2>1 DEF ToSet
<1>2. CASE row = <<"1">>
  <2>1. Len(row) = 1 /\ DOMAIN row = {1} /\ row[1] = "1"
    BY <1>2
  <2> QED BY <2>1 DEF ToSet
<1>3. CASE row \in [1..4 -> SmiFields]
  <2>1. DOMAIN row = 1..4
    BY <1>3
  <2>2. row \in Seq(SmiFields)
    BY <1>3, FunctionIsSeq
  <2>3. Len(row) = 4
    BY <2>1, <2>2
  <2> QED BY <1>3, <2>1, <2>3
<1>4. row = <<>> \/ row = <<"1">> \/ row \in [1..4 -> SmiFields]
  BY DEF Rows
<1> QED BY <1>1, <1>2, <1>3, <1>4

\* What the pass is told of a row.
RowSaid(row) == IF Len(row) < 4 THEN {} ELSE {<<GPUKeys[i], <<row[i]>>>> : i \in {j \in 1..4 : row[j] \in Finite}}

LEMMA KeysOfGPU ==
    /\ \A i, j \in 1..4 : GPUKeys[i] = GPUKeys[j] => i = j
    /\ GPUKeys[1] = "gpu_utilization_pct" /\ GPUKeys[2] = "gpu_clock_mhz"
    /\ GPUKeys[3] = "gpu_temperature_c" /\ GPUKeys[4] = "gpu_power_w"
    /\ ToSet(GPUKeys) = {"gpu_utilization_pct", "gpu_clock_mhz", "gpu_temperature_c", "gpu_power_w"}
    /\ \A i \in 1..4 : GPUKeys[i] \in ToSet(GPUKeys)
<1> DEFINE k == GPUKeys
<1>1. /\ k[1] = "gpu_utilization_pct" /\ k[2] = "gpu_clock_mhz"
      /\ k[3] = "gpu_temperature_c" /\ k[4] = "gpu_power_w" /\ DOMAIN k = {1, 2, 3, 4}
  BY DEF GPUKeys
<1>2. 1..4 = {1, 2, 3, 4}
  OBVIOUS
<1> HIDE DEF k
<1>3. \A i, j \in {1, 2, 3, 4} : k[i] = k[j] => i = j
  BY <1>1
<1>4. ToSet(k) = {k[1], k[2], k[3], k[4]}
  BY <1>1 DEF ToSet
<1>5. \A i \in 1..4 : k[i] \in ToSet(k)
  BY <1>1, <1>2 DEF ToSet
<1> QED BY <1>1, <1>2, <1>3, <1>4, <1>5 DEF k

LEMMA SmiGets ==
    ASSUME NEW row, ~(Len(row) < 4)
    PROVE  /\ \A i \in 1..4 : Get(parseSMI(row), GPUKeys[i]) = smiFloat(row, i)
           /\ Names(parseSMI(row)) \subseteq ToSet(GPUKeys) /\ Unique(parseSMI(row))
<1> DEFINE a == smiFloat(row, 1)
           b == smiFloat(row, 2)
           c == smiFloat(row, 3)
           d == smiFloat(row, 4)
           F == [gpu_utilization_pct |-> a, gpu_clock_mhz |-> b, gpu_temperature_c |-> c, gpu_power_w |-> d]
<1>1. parseSMI(row) = Object(F)
  BY DEF parseSMI
<1>2. \A i : AtMostOne(smiFloat(row, i))
  BY DEF smiFloat, AtMostOne
<1>3. 1..4 = {1, 2, 3, 4}
  OBVIOUS
<1>4. \A i \in {1, 2, 3, 4} : smiFloat(row, i) = IF i = 1 THEN a ELSE IF i = 2 THEN b ELSE IF i = 3 THEN c ELSE d
  OBVIOUS
<1>5. AtMostOne(a) /\ AtMostOne(b) /\ AtMostOne(c) /\ AtMostOne(d)
  BY <1>2
<1> HIDE DEF a, b, c, d
<1>6. DOMAIN F = ToSet(GPUKeys)
  BY KeysOfGPU
<1>7. /\ F["gpu_utilization_pct"] = a /\ F["gpu_clock_mhz"] = b
      /\ F["gpu_temperature_c"] = c /\ F["gpu_power_w"] = d
  OBVIOUS
<1> HIDE DEF F
<1>8. \A i \in {1, 2, 3, 4} : F[GPUKeys[i]] = smiFloat(row, i)
  BY <1>4, <1>7, KeysOfGPU
<1>9. \A i \in 1..4 : Get(Object(F), GPUKeys[i]) = smiFloat(row, i)
  BY <1>3, <1>6, <1>8, ObjectGet, KeysOfGPU
<1>10. \A k \in DOMAIN F : AtMostOne(F[k])
  BY <1>5, <1>6, <1>7, KeysOfGPU
<1> QED BY <1>1, <1>6, <1>9, <1>10, ObjectNames, ObjectUnique

LEMMA RowSaidGets ==
    ASSUME NEW row, ~(Len(row) < 4)
    PROVE  /\ \A i \in 1..4 : Get(RowSaid(row), GPUKeys[i]) = IF row[i] \in Finite THEN {<<row[i]>>} ELSE {}
           /\ Names(RowSaid(row)) \subseteq ToSet(GPUKeys)
<1> DEFINE J == {j \in 1..4 : row[j] \in Finite}
           x == {<<GPUKeys[i], <<row[i]>>>> : i \in J}
<1>1. RowSaid(row) = x
  BY DEF RowSaid
<1>2. ASSUME NEW i \in 1..4 PROVE Get(x, GPUKeys[i]) = IF row[i] \in Finite THEN {<<row[i]>>} ELSE {}
  <2>1. \A v : v \in Get(x, GPUKeys[i]) <=> \E j \in J : GPUKeys[j] = GPUKeys[i] /\ v = <<row[j]>>
    <3> DEFINE P(j) == <<GPUKeys[j], <<row[j]>>>>
    <3>1. \A p : p \in x <=> \E j \in J : p = P(j)
      OBVIOUS
    <3>2. \A j : P(j)[1] = GPUKeys[j] /\ P(j)[2] = <<row[j]>>
      OBVIOUS
    <3> HIDE DEF x, P, J
    <3>3. \A v : v \in Get(x, GPUKeys[i]) <=> \E p \in x : p[1] = GPUKeys[i] /\ v = p[2]
      BY DEF Get
    <3>4. ASSUME NEW v \in Get(x, GPUKeys[i])
          PROVE  \E j \in J : GPUKeys[j] = GPUKeys[i] /\ v = <<row[j]>>
      <4>1. PICK p \in x : p[1] = GPUKeys[i] /\ v = p[2]
        BY <3>3
      <4> QED BY <3>1, <3>2, <4>1
    <3>5. ASSUME NEW j \in J, GPUKeys[j] = GPUKeys[i]
          PROVE  <<row[j]>> \in Get(x, GPUKeys[i])
      <4>1. P(j) \in x
        BY <3>1
      <4> QED BY <3>2, <3>3, <3>5, <4>1
    <3> QED BY <3>4, <3>5
  <2>2. \A v : v \in Get(x, GPUKeys[i]) <=> i \in J /\ v = <<row[i]>>
    BY <2>1, KeysOfGPU
  <2> HIDE DEF x
  <2> QED BY <2>2
<1>3. Names(x) \subseteq ToSet(GPUKeys)
  BY KeysOfGPU DEF Names
<1> QED BY <1>1, <1>2, <1>3

\* The values of a row that is parsed.
LEMMA RowShown ==
    ASSUME NEW row \in Rows
    PROVE  /\ Unique(parseSMI(row))
           /\ Names(parseSMI(row)) \subseteq ToSet(GPUKeys) /\ Names(RowSaid(row)) \subseteq ToSet(GPUKeys)
           /\ \/ \A k \in ToSet(GPUKeys) : Get(parseSMI(row), k) = Get(RowSaid(row), k)
              \/ \E p \in parseSMI(row) : NoNumber(p[2])
           /\ (\E p \in parseSMI(row) : NoNumber(p[2])) => "NaN" \in ToSet(row)
<1>1. CASE Len(row) < 4
  <2>1. parseSMI(row) = {} /\ RowSaid(row) = {}
    BY <1>1 DEF parseSMI, RowSaid
  <2>2. Unique({}) /\ Names({}) = {}
    BY DEF Unique, Names
  <2> QED BY <2>1, <2>2
<1>2. CASE ~(Len(row) < 4)
  <2>1. DOMAIN row = 1..4 /\ row \in [1..4 -> SmiFields]
    BY <1>2, RowTypes
  <2> DEFINE x == parseSMI(row)
             y == RowSaid(row)
  <2>2. /\ \A i \in 1..4 : Get(x, GPUKeys[i]) = smiFloat(row, i)
        /\ Names(x) \subseteq ToSet(GPUKeys) /\ Unique(x)
    BY <1>2, SmiGets
  <2>3. /\ \A i \in 1..4 : Get(y, GPUKeys[i]) = IF row[i] \in Finite THEN {<<row[i]>>} ELSE {}
        /\ Names(y) \subseteq ToSet(GPUKeys)
    BY <1>2, RowSaidGets
  <2> HIDE DEF x, y
  <2>4. \A k \in ToSet(GPUKeys) : \E i \in 1..4 : k = GPUKeys[i]
    BY KeysOfGPU
  <2>5. \A i \in 1..4 : row[i] \in {"1", "[N/A]", "NaN"}
    BY <2>1 DEF SmiFields
  <2>6. ASSUME NEW i \in 1..4, row[i] # "NaN"
        PROVE  smiFloat(row, i) = IF row[i] \in Finite THEN {<<row[i]>>} ELSE {}
    BY <2>5, <2>6 DEF smiFloat, Floats, Finite
  <2>7. ASSUME \A i \in 1..4 : row[i] # "NaN"
        PROVE  \A k \in ToSet(GPUKeys) : Get(x, k) = Get(y, k)
    <3> TAKE k \in ToSet(GPUKeys)
    <3>1. PICK i \in 1..4 : k = GPUKeys[i]
      BY <2>4
    <3> QED BY <2>2, <2>3, <2>6, <2>7, <3>1
  <2>8. ASSUME NEW i \in 1..4, row[i] = "NaN"
        PROVE  \E p \in x : NoNumber(p[2])
    <3>1. <<"NaN">> \in Get(x, GPUKeys[i])
      BY <2>2, <2>8 DEF smiFloat, Floats
    <3>2. PICK p \in x : p[2] = <<"NaN">>
      BY <3>1 DEF Get
    <3>3. NoNumber(<<"NaN">>)
      BY NumberAlone
    <3> QED BY <3>2, <3>3
  <2>9. ASSUME NEW p \in x, NoNumber(p[2]) PROVE "NaN" \in ToSet(row)
    <3>1. p[1] \in ToSet(GPUKeys) /\ p[2] \in Get(x, p[1])
      BY <2>2, PairValue
    <3>2. PICK i \in 1..4 : p[1] = GPUKeys[i]
      BY <2>4, <3>1
    <3>3. p[2] \in smiFloat(row, i)
      BY <2>2, <3>1, <3>2
    <3>4. row[i] \in Floats /\ p[2] = <<row[i]>>
      BY <3>3 DEF smiFloat
    <3>5. row[i] \in {"NaN", "+Inf"}
      BY <2>9, <3>4, NumberAlone
    <3>6. row[i] = "NaN"
      BY <2>5, <3>5
    <3> QED BY <2>1, <3>6 DEF ToSet
  <2> QED BY <2>2, <2>3, <2>7, <2>8, <2>9 DEF x, y
<1> QED BY <1>1, <1>2
-----------------------------------------------------------------------------
(***************************************************************************)
(* The memory.                                                             *)
(***************************************************************************)
MemNames == {"MemTotal", "MemFree", "MemAvailable"}
MemLines == MemNames \X {"0", "1", "8"}
MemPairs == {<<n, kibToBytes(v)>> : n \in MemNames, v \in {"0", "1", "8"}}

LEMMA NotesType ==
    ASSUME NEW m \in SUBSET MemPairs, NEW line \in MemLines
    PROVE  Notes(m, line) \in SUBSET MemPairs
<1>1. <<line[1], kibToBytes(line[2])>> \in MemPairs
  BY DEF MemLines, MemPairs
<1> QED BY <1>1 DEF Notes

LEMMA MemSteps ==
    ASSUME NEW lines \in Seq(MemLines)
    PROVE  \E f \in [0..Len(lines) -> SUBSET MemPairs] :
              /\ f[0] = {}
              /\ \A i \in 1..Len(lines) : f[i] = Notes(f[i - 1], lines[i])
              /\ parseMemInfo(lines) = f[Len(lines)]
<1> DEFINE n == Len(lines)
           S == SUBSET MemPairs
           base == {}
           G(x, i) == Notes(x, lines[i])
           Def(f) == f = [i \in 0..n |-> IF i = 0 THEN base ELSE G(f[i - 1], i)]
           t == CHOOSE g : Def(g)
<1>1. n \in Nat /\ \A i \in 1..n : lines[i] \in MemLines
  OBVIOUS
<1>2. base \in S
  OBVIOUS
<1>3. \A x \in S, i \in 1..n : G(x, i) \in S
  BY <1>1, NotesType
<1>4. parseMemInfo(lines) = t[n]
  BY DEF parseMemInfo
<1> HIDE DEF n, S, base, G
<1> DEFINE step == [z \in S \X (1..n) |-> G(z[1], z[2])]
<1>5. step \in [S \X (1..n) -> S]
  BY <1>3
<1>6. PICK f : Follows(f, S, n, base, step)
  <2> HIDE DEF step
  <2> QED BY <1>1, <1>2, <1>5, Recursion
<1>7. \A i \in 1..n : f[i] = G(f[i - 1], i)
  <2> SUFFICES ASSUME NEW i \in 1..n PROVE f[i] = G(f[i - 1], i)
    OBVIOUS
  <2>1. i - 1 \in 0..n
    BY <1>1
  <2>2. f[i - 1] \in S /\ f[i] = step[<<f[i - 1], i>>]
    BY <1>6, <2>1 DEF Follows
  <2>3. \A z \in S \X (1..n) : step[z] = G(z[1], z[2])
    OBVIOUS
  <2> HIDE DEF step
  <2> QED BY <2>2, <2>3
<1> HIDE DEF step
<1>8. Def(f)
  <2>1. \A i \in 0..n : f[i] = IF i = 0 THEN base ELSE G(f[i - 1], i)
    BY <1>1, <1>6, <1>7 DEF Follows
  <2>2. f \in [0..n -> S]
    BY <1>6 DEF Follows
  <2> QED BY <2>1, <2>2
<1>9. Def(t)
  <2> HIDE DEF Def
  <2> QED BY <1>8
<1> HIDE DEF t
<1>10. t[0] = base /\ \A i \in 1..n : t[i] = G(t[i - 1], i)
  BY <1>1, <1>9
<1>11. t[n] = f[n]
  <2>1. t[0] = f[0] /\ \A i \in 1..n : t[i - 1] = f[i - 1] => t[i] = f[i]
    BY <1>6, <1>7, <1>10 DEF Follows
  <2> QED BY <1>1, <2>1, Agree
<1>12. f \in [0..n -> S] /\ f[0] = base /\ (\A i \in 1..n : f[i] = G(f[i - 1], i)) /\ parseMemInfo(lines) = f[n]
  BY <1>4, <1>6, <1>7, <1>11 DEF Follows
<1> QED BY <1>12 DEF n, S, base, G

LEMMA MemEmpty == parseMemInfo(<<>>) = {}
<1> DEFINE none == <<>>
<1>3. none \in Seq(MemLines) /\ Len(none) = 0
  OBVIOUS
<1> HIDE DEF none
<1>4. PICK f \in [0..Len(none) -> SUBSET MemPairs] :
              /\ f[0] = {}
              /\ \A i \in 1..Len(none) : f[i] = Notes(f[i - 1], none[i])
              /\ parseMemInfo(none) = f[Len(none)]
  BY <1>3, MemSteps
<1> QED BY <1>3, <1>4 DEF none

LEMMA MemAppends ==
    ASSUME NEW lines \in Seq(MemLines), NEW c \in MemLines
    PROVE  /\ parseMemInfo(Append(lines, c)) = Notes(parseMemInfo(lines), c)
           /\ parseMemInfo(lines) \in SUBSET MemPairs
<1> DEFINE more == Append(lines, c)
           n == Len(lines)
           k == Len(more)
           S == SUBSET MemPairs
           G(x, e, i) == Notes(x, e)
<1>1. /\ more \in Seq(MemLines) /\ k = n + 1 /\ n \in Nat
      /\ more[n + 1] = c /\ \A i \in 1..n : more[i] = lines[i]
  OBVIOUS
<1>2. PICK f \in [0..n -> S] :
              /\ f[0] = {}
              /\ \A i \in 1..n : f[i] = G(f[i - 1], lines[i], i)
              /\ parseMemInfo(lines) = f[n]
  BY MemSteps
<1>3. PICK g \in [0..k -> S] :
              /\ g[0] = {}
              /\ \A i \in 1..k : g[i] = G(g[i - 1], more[i], i)
              /\ parseMemInfo(more) = g[k]
  <2> HIDE DEF more
  <2> QED BY <1>1, MemSteps
<1> HIDE DEF more, n, k, S, G
<1>4. \A i \in 1..n : f[i - 1] = g[i - 1] => f[i] = g[i]
  <2>1. \A i \in 1..n : i \in 1..k /\ more[i] = lines[i]
    BY <1>1
  <2> QED BY <2>1, <1>2, <1>3
<1>5. f[n] = g[n]
  <2>1. n \in Nat /\ f[0] = g[0]
    BY <1>1, <1>2, <1>3
  <2> QED BY <1>4, <2>1, Agree
<1>6. g[k] = G(g[n], c, n + 1)
  <2>1. k \in 1..k /\ k - 1 = n
    BY <1>1
  <2> QED BY <1>1, <1>3, <2>1
<1>7. f[n] \in S
  BY <1>1, <1>2
<1>8. parseMemInfo(more) = G(parseMemInfo(lines), c, n + 1) /\ parseMemInfo(lines) \in S
  BY <1>2, <1>3, <1>5, <1>6, <1>7
<1> QED BY <1>8 DEF more, n, S, G
\* The two figures of which the sets are the texts.
MemOf(T, A) == {<<"MemTotal", kibToBytes(t)>> : t \in T} \cup {<<"MemAvailable", kibToBytes(a)>> : a \in A}
LinesOf(T, A) == {<<"MemTotal", t>> : t \in T} \cup {<<"MemFree", "8">>} \cup {<<"MemAvailable", a>> : a \in A}

LEMMA NotesOne ==
    /\ \A t : Notes({}, <<"MemTotal", t>>) = MemOf({t}, {})
    /\ \A m : Notes(m, <<"MemFree", "8">>) = m
    /\ \A T : Notes(MemOf(T, {}), <<"MemAvailable", "1">>) = MemOf(T, {"1"})
<1>1. ASSUME NEW t PROVE Notes({}, <<"MemTotal", t>>) = MemOf({t}, {})
  <2>1. Names({}) = {} /\ "MemTotal" \in Known /\ ~(Known \subseteq {})
    BY DEF Names, Known
  <2> QED BY <2>1 DEF Notes, MemOf
<1>2. ASSUME NEW m PROVE Notes(m, <<"MemFree", "8">>) = m
  BY DEF Notes, Known
<1>3. ASSUME NEW T PROVE Notes(MemOf(T, {}), <<"MemAvailable", "1">>) = MemOf(T, {"1"})
  <2> DEFINE m == MemOf(T, {})
             line == <<"MemAvailable", "1">>
             new == <<"MemAvailable", kibToBytes("1")>>
  <2>1. \A f \in m : f[1] = "MemTotal"
    BY DEF MemOf
  <2>2. line[1] = "MemAvailable" /\ line[2] = "1"
    OBVIOUS
  <2>3. MemOf(T, {"1"}) = m \cup {new}
    BY DEF MemOf
  <2> HIDE DEF m, line
  <2>4. "MemAvailable" \in Known /\ "MemAvailable" \notin Names(m)
    BY <2>1 DEF Known, Names
  <2>5. {f \in m : f[1] # line[1]} = m
    BY <2>1, <2>2
  <2>6. Notes(m, line) = {f \in m : f[1] # line[1]} \cup {<<line[1], kibToBytes(line[2])>>}
    BY <2>2, <2>4 DEF Notes
  <2>7. Notes(m, line) = m \cup {new}
    BY <2>2, <2>5, <2>6
  <2> QED BY <2>3, <2>7 DEF m, line
<1> QED BY <1>1, <1>2, <1>3

LEMMA SetAppend ==
    ASSUME NEW S, NEW seq \in Seq(S), NEW e \in S
    PROVE  ToSet(Append(seq, e)) = ToSet(seq) \cup {e}
<1> DEFINE more == Append(seq, e)
           n == Len(seq)
<1>1. /\ n \in Nat /\ DOMAIN seq = 1..n /\ DOMAIN more = 1..n + 1
      /\ more[n + 1] = e /\ \A i \in 1..n : more[i] = seq[i]
  OBVIOUS
<1>2. 1..n + 1 = 1..n \cup {n + 1}
  BY <1>1
<1> HIDE DEF more, n
<1>3. ToSet(more) = {more[i] : i \in 1..n + 1} /\ ToSet(seq) = {seq[i] : i \in 1..n}
  BY <1>1 DEF ToSet
<1>4. ToSet(more) = ToSet(seq) \cup {e}
  BY <1>1, <1>2, <1>3
<1> QED BY <1>4 DEF more

LEMMA MemRead ==
    ASSUME NEW lines \in MemInfos
    PROVE  \E T \in {{}, {"0"}, {"1"}}, A \in {{}, {"1"}} :
              parseMemInfo(lines) = MemOf(T, A) /\ ToSet(lines) = LinesOf(T, A)
<1> DEFINE free == <<"MemFree", "8">>
           avail == <<"MemAvailable", "1">>
<1>1. PICK total \in {<<>>, <<<<"MemTotal", "0">>>>, <<<<"MemTotal", "1">>>>}, tail \in {<<>>, <<avail>>} :
         lines = total \o <<free>> \o tail
  BY DEF MemInfos
<1>2. /\ free \in MemLines /\ avail \in MemLines
      /\ <<"MemTotal", "0">> \in MemLines /\ <<"MemTotal", "1">> \in MemLines
  BY DEF MemLines, MemNames
<1>3. /\ Notes({}, <<"MemTotal", "0">>) = MemOf({"0"}, {}) /\ Notes({}, <<"MemTotal", "1">>) = MemOf({"1"}, {})
      /\ \A m : Notes(m, free) = m
      /\ \A T : Notes(MemOf(T, {}), avail) = MemOf(T, {"1"})
  BY NotesOne
<1> HIDE DEF free, avail
<1>4. PICK T \in {{}, {"0"}, {"1"}} :
         /\ total \in Seq(MemLines) /\ parseMemInfo(total) = MemOf(T, {})
         /\ ToSet(total) = {<<"MemTotal", t>> : t \in T}
  <2>1. ASSUME total = <<>>
        PROVE  total \in Seq(MemLines) /\ parseMemInfo(total) = MemOf({}, {}) /\ ToSet(total) = {}
    <3>1. MemOf({}, {}) = {}
      BY DEF MemOf
    <3>2. DOMAIN <<>> = {}
      OBVIOUS
    <3> QED BY <2>1, <3>1, <3>2, MemEmpty DEF ToSet
  <2>2. ASSUME NEW t, <<"MemTotal", t>> \in MemLines, total = <<<<"MemTotal", t>>>>
        PROVE  /\ total \in Seq(MemLines) /\ parseMemInfo(total) = MemOf({t}, {})
               /\ ToSet(total) = {<<"MemTotal", t>>}
    <3> DEFINE first == <<"MemTotal", t>>
               none == <<>>
    <3>1. none \in Seq(MemLines) /\ Append(none, first) = total /\ DOMAIN none = {}
      BY <2>2
    <3>2. parseMemInfo(total) = Notes(parseMemInfo(none), first)
      <4> HIDE DEF none
      <4>1. first \in MemLines
        BY <2>2
      <4> HIDE DEF first
      <4> QED BY <3>1, <4>1, MemAppends
    <3>3. parseMemInfo(none) = {}
      BY MemEmpty
    <3>4. Notes({}, first) = MemOf({t}, {})
      BY NotesOne
    <3>5. ToSet(total) = {first}
      <4>1. DOMAIN total = {1} /\ total[1] = first
        BY <2>2
      <4> QED BY <4>1 DEF ToSet
    <3>6. total \in Seq(MemLines)
      BY <2>2
    <3> QED BY <3>2, <3>3, <3>4, <3>5, <3>6
  <2>3. {<<"MemTotal", t>> : t \in {}} = {} /\ \A t : {<<"MemTotal", u>> : u \in {t}} = {<<"MemTotal", t>>}
    OBVIOUS
  <2>4. CASE total = <<>>
    BY <2>1, <2>3, <2>4
  <2>5. CASE total = <<<<"MemTotal", "0">>>>
    BY <1>2, <2>2, <2>3, <2>5
  <2>6. CASE total = <<<<"MemTotal", "1">>>>
    BY <1>2, <2>2, <2>3, <2>6
  <2> QED BY <1>1, <2>4, <2>5, <2>6
<1> DEFINE two == Append(total, free)
<1>5. /\ two \in Seq(MemLines) /\ total \o <<free>> = two
      /\ parseMemInfo(two) = MemOf(T, {}) /\ ToSet(two) = LinesOf(T, {})
  <2>1. two \in Seq(MemLines) /\ total \o <<free>> = two
    BY <1>2, <1>4, AppendIsConcat
  <2>2. parseMemInfo(two) = Notes(parseMemInfo(total), free)
    BY <1>2, <1>4, MemAppends
  <2>3. ToSet(two) = ToSet(total) \cup {free}
    BY <1>2, <1>4, SetAppend
  <2>4. LinesOf(T, {}) = {<<"MemTotal", t>> : t \in T} \cup {free}
    BY DEF LinesOf, free
  <2> QED BY <1>3, <1>4, <2>1, <2>2, <2>3, <2>4
<1> HIDE DEF two
<1>6. CASE tail = <<>>
  <2>1. lines = two
    BY <1>1, <1>5, <1>6, ConcatEmptySeq
  <2> QED BY <1>5, <2>1
<1>7. CASE tail = <<avail>>
  <2>1. lines = Append(two, avail)
    BY <1>1, <1>2, <1>5, <1>7, AppendIsConcat
  <2>2. parseMemInfo(lines) = Notes(parseMemInfo(two), avail)
    BY <1>2, <1>5, <2>1, MemAppends
  <2>3. ToSet(lines) = ToSet(two) \cup {avail}
    BY <1>2, <1>5, <2>1, SetAppend
  <2>4. LinesOf(T, {"1"}) = LinesOf(T, {}) \cup {avail}
    BY DEF LinesOf, avail
  <2>5. parseMemInfo(lines) = MemOf(T, {"1"}) /\ ToSet(lines) = LinesOf(T, {"1"})
    BY <1>3, <1>5, <2>2, <2>3, <2>4
  <2> QED BY <2>5
<1> QED BY <1>1, <1>6, <1>7
\* What the pass publishes of the memory and of the address, and what it is told.
MemObject(lines) == Object([
    memory_available_bytes |-> Get(parseMemInfo(lines), "MemAvailable"),
    memory_used_pct |-> UsedPct(parseMemInfo(lines)),
    mac_address |-> mac])
MemSaid(lines) == {<<l[1], <<l[2]>>>> : l \in ToSet(lines)}

LEMMA GetProduct ==
    ASSUME NEW k, NEW V, NEW n
    PROVE  Get({k} \X V, n) = IF k = n THEN V ELSE {}
<1>1. CASE k = n
  <2>1. {p \in {k} \X V : p[1] = n} = {k} \X V
    BY <1>1
  <2>2. {p[2] : p \in {k} \X V} = V
    <3>1. \A v \in V : <<k, v>> \in {k} \X V /\ <<k, v>>[2] = v
      OBVIOUS
    <3>2. \A p \in {k} \X V : p[2] \in V
      OBVIOUS
    <3> QED BY <3>1, <3>2
  <2> QED BY <1>1, <2>1, <2>2 DEF Get
<1>2. CASE k # n
  <2>1. {p \in {k} \X V : p[1] = n} = {}
    BY <1>2
  <2> QED BY <1>2, <2>1 DEF Get
<1> QED BY <1>1, <1>2

LEMMA MemGets ==
    ASSUME NEW T, NEW A
    PROVE  /\ Get(MemOf(T, A), "MemTotal") = {kibToBytes(t) : t \in T}
           /\ Get(MemOf(T, A), "MemAvailable") = {kibToBytes(a) : a \in A}
<1> DEFINE x == {<<"MemTotal", kibToBytes(t)>> : t \in T}
           y == {<<"MemAvailable", kibToBytes(a)>> : a \in A}
           z == MemOf(T, A)
<1>1. z = x \cup y
  BY DEF MemOf
<1> DEFINE V == {kibToBytes(t) : t \in T}
           W == {kibToBytes(a) : a \in A}
<1>2. x = {"MemTotal"} \X V /\ y = {"MemAvailable"} \X W
  OBVIOUS
<1> HIDE DEF x, y, z, V, W
<1>3. /\ Get(x, "MemTotal") = V /\ Get(y, "MemAvailable") = W
      /\ Get(x, "MemAvailable") = {} /\ Get(y, "MemTotal") = {}
  BY <1>2, GetProduct
<1>4. /\ Get(z, "MemTotal") = Get(x, "MemTotal") \cup Get(y, "MemTotal")
      /\ Get(z, "MemAvailable") = Get(x, "MemAvailable") \cup Get(y, "MemAvailable")
  BY <1>1, GetUnion
<1> QED BY <1>3, <1>4 DEF z, V, W

LEMMA MemSaidGets ==
    ASSUME NEW lines, NEW T, NEW A, ToSet(lines) = LinesOf(T, A)
    PROVE  /\ Get(MemSaid(lines), "MemTotal") = {<<t>> : t \in T}
           /\ Get(MemSaid(lines), "MemAvailable") = {<<a>> : a \in A}
           /\ Names(MemSaid(lines)) \subseteq MemNames
<1> DEFINE x == {<<"MemTotal", <<t>>>> : t \in T}
           f == {<<"MemFree", <<"8">>>>}
           y == {<<"MemAvailable", <<a>>>> : a \in A}
           z == MemSaid(lines)
<1>1. z = x \cup f \cup y
  <2> DEFINE S(l) == <<l[1], <<l[2]>>>>
             L == LinesOf(T, A)
  <2>1. z = {S(l) : l \in L}
    BY DEF MemSaid
  <2>2. \A l : l \in L <=> \/ \E t \in T : l = <<"MemTotal", t>>
                          \/ l = <<"MemFree", "8">>
                          \/ \E a \in A : l = <<"MemAvailable", a>>
    BY DEF LinesOf
  <2>3. /\ \A t : S(<<"MemTotal", t>>) = <<"MemTotal", <<t>>>>
        /\ S(<<"MemFree", "8">>) = <<"MemFree", <<"8">>>>
        /\ \A a : S(<<"MemAvailable", a>>) = <<"MemAvailable", <<a>>>>
    OBVIOUS
  <2> HIDE DEF S, L, z
  <2>4. \A p \in z : p \in x \cup f \cup y
    BY <2>1, <2>2, <2>3
  <2>5. \A p \in x \cup f \cup y : p \in z
    BY <2>1, <2>2, <2>3
  <2> HIDE DEF x, f, y
  <2> QED BY <2>4, <2>5
<1> DEFINE V == {<<t>> : t \in T}
           W == {<<a>> : a \in A}
<1>2. x = {"MemTotal"} \X V /\ y = {"MemAvailable"} \X W /\ f = {"MemFree"} \X {<<"8">>}
  OBVIOUS
<1>3. \A p \in x \cup f \cup y : p[1] \in MemNames
  BY DEF MemNames
<1> HIDE DEF x, f, y, z, V, W
<1>4. /\ Get(x, "MemTotal") = V /\ Get(y, "MemAvailable") = W
      /\ Get(x, "MemAvailable") = {} /\ Get(y, "MemTotal") = {}
      /\ Get(f, "MemTotal") = {} /\ Get(f, "MemAvailable") = {}
  BY <1>2, GetProduct
<1>5. \A n : Get(z, n) = Get(x \cup f, n) \cup Get(y, n)
  BY <1>1, GetUnion
<1>6. \A n : Get(x \cup f, n) = Get(x, n) \cup Get(f, n)
  BY GetUnion
<1>7. Names(z) \subseteq MemNames
  BY <1>1, <1>3 DEF Names
<1>8. /\ Get(z, "MemTotal") = Get(x \cup f, "MemTotal") \cup Get(y, "MemTotal")
      /\ Get(x \cup f, "MemTotal") = Get(x, "MemTotal") \cup Get(f, "MemTotal")
      /\ Get(z, "MemAvailable") = Get(x \cup f, "MemAvailable") \cup Get(y, "MemAvailable")
      /\ Get(x \cup f, "MemAvailable") = Get(x, "MemAvailable") \cup Get(f, "MemAvailable")
  BY <1>5, <1>6
<1> QED BY <1>4, <1>7, <1>8 DEF z, V, W

LEMMA Singles ==
    ASSUME NEW A, NEW B, B = {<<a>> : a \in A}
    PROVE  (\A b \in B : b[1] \in A) /\ (\A a \in A : \E b \in B : b[1] = a)
<1>1. ASSUME NEW b \in B PROVE b[1] \in A
  <2>1. PICK a \in A : b = <<a>>
    OBVIOUS
  <2> QED BY <2>1
<1>2. ASSUME NEW a \in A PROVE \E b \in B : b[1] = a
  <2>1. <<a>> \in B /\ <<a>>[1] = a
    OBVIOUS
  <2> QED BY <2>1
<1> QED BY <1>1, <1>2

LEMMA Alone ==
    ASSUME NEW A
    PROVE  {kibToBytes(v[1]) : v \in {<<a>> : a \in A}} = {kibToBytes(a) : a \in A}
<1> DEFINE B == {<<a>> : a \in A}
           K(a) == kibToBytes(a)
<1>1. (\A b \in B : b[1] \in A) /\ (\A a \in A : \E b \in B : b[1] = a)
  <2>1. B = {<<a>> : a \in A}
    OBVIOUS
  <2> HIDE DEF B
  <2> QED BY <2>1, Singles
<1> HIDE DEF B, K
<1>2. {K(v[1]) : v \in B} = {K(a) : a \in A}
  BY <1>1
<1> QED BY <1>2 DEF B, K

LEMMA MemShown ==
    ASSUME NEW lines \in MemInfos, mac \in {{}, {<<"mac">>}}
    PROVE  /\ Get(MemObject(lines), "memory_available_bytes")
                = {kibToBytes(v[1]) : v \in Get(MemSaid(lines), "MemAvailable")}
           /\ Get(MemObject(lines), "memory_used_pct")
                = {Pct(Over(Minus(kibToBytes(t[1]), kibToBytes(a[1])), kibToBytes(t[1]))) :
                     a \in Get(MemSaid(lines), "MemAvailable"), t \in NonZero(Get(MemSaid(lines), "MemTotal"))}
           /\ Get(MemObject(lines), "mac_address") = mac
           /\ Names(MemObject(lines)) \subseteq {"memory_available_bytes", "memory_used_pct", "mac_address"}
           /\ Names(MemSaid(lines)) \subseteq MemNames
           /\ Unique(MemObject(lines))
           /\ \A p \in MemObject(lines) : ~NoNumber(p[2])
<1> DEFINE P == parseMemInfo(lines)
           S == MemSaid(lines)
           O == MemObject(lines)
           u == Get(P, "MemAvailable")
           w == UsedPct(P)
           F == [memory_available_bytes |-> u, memory_used_pct |-> w, mac_address |-> mac]
           Used(t, a) == Pct(Over(Minus(t, a), t))
<1>1. PICK T \in {{}, {"0"}, {"1"}}, A \in {{}, {"1"}} :
         P = MemOf(T, A) /\ ToSet(lines) = LinesOf(T, A)
  BY MemRead
<1>2. Get(P, "MemTotal") = {kibToBytes(t) : t \in T} /\ u = {kibToBytes(a) : a \in A}
  BY <1>1, MemGets
<1>3. /\ Get(S, "MemTotal") = {<<t>> : t \in T} /\ Get(S, "MemAvailable") = {<<a>> : a \in A}
      /\ Names(S) \subseteq MemNames
  BY <1>1, MemSaidGets
<1>4. O = Object(F)
  BY DEF MemObject
<1>5. w = {Used(t, a) : a \in u, t \in {v \in Get(P, "MemTotal") : v # kibToBytes("0")}}
  BY DEF UsedPct
<1>6. \A t : kibToBytes(t) = kibToBytes("0") <=> t = "0"
  BY DEF kibToBytes
<1> HIDE DEF P, S, O, u, w, Used
<1>7. /\ Get(O, "memory_available_bytes") = u /\ Get(O, "memory_used_pct") = w /\ Get(O, "mac_address") = mac
      /\ Names(O) \subseteq {"memory_available_bytes", "memory_used_pct", "mac_address"}
      /\ DOMAIN F = {"memory_available_bytes", "memory_used_pct", "mac_address"}
      /\ F["memory_available_bytes"] = u /\ F["memory_used_pct"] = w /\ F["mac_address"] = mac
  <2>1. /\ DOMAIN F = {"memory_available_bytes", "memory_used_pct", "mac_address"}
        /\ F["memory_available_bytes"] = u /\ F["memory_used_pct"] = w /\ F["mac_address"] = mac
    OBVIOUS
  <2> HIDE DEF F
  <2> QED BY <1>4, <2>1, ObjectGet, ObjectNames
<1> HIDE DEF F
<1>8. u = {kibToBytes(v[1]) : v \in Get(S, "MemAvailable")}
  BY <1>2, <1>3, Alone
<1>9. {v \in Get(P, "MemTotal") : v # kibToBytes("0")} = {kibToBytes(t) : t \in T \ {"0"}}
  BY <1>2, <1>6
<1>10. NonZero(Get(S, "MemTotal")) = {<<t>> : t \in T \ {"0"}}
  BY <1>3 DEF NonZero
<1>11. w = {Used(kibToBytes(t), kibToBytes(a)) : a \in A, t \in T \ {"0"}}
  BY <1>2, <1>5, <1>9
<1>12. {Used(kibToBytes(t[1]), kibToBytes(a[1])) : a \in Get(S, "MemAvailable"), t \in NonZero(Get(S, "MemTotal"))}
         = {Used(kibToBytes(t), kibToBytes(a)) : a \in A, t \in T \ {"0"}}
  <2> DEFINE C == {<<a>> : a \in A}
             D == {<<t>> : t \in T \ {"0"}}
             E == T \ {"0"}
             U(t, a) == Used(kibToBytes(t), kibToBytes(a))
  <2>1. /\ (\A c \in C : c[1] \in A) /\ (\A a \in A : \E c \in C : c[1] = a)
        /\ (\A d \in D : d[1] \in E) /\ (\A t \in E : \E d \in D : d[1] = t)
    <3>1. C = {<<a>> : a \in A} /\ D = {<<t>> : t \in E}
      OBVIOUS
    <3> HIDE DEF C, D, E
    <3>2. (\A c \in C : c[1] \in A) /\ (\A a \in A : \E c \in C : c[1] = a)
      BY <3>1, Singles
    <3>3. (\A d \in D : d[1] \in E) /\ (\A t \in E : \E d \in D : d[1] = t)
      BY <3>1, Singles
    <3> QED BY <3>2, <3>3
  <2>2. Get(S, "MemAvailable") = C /\ NonZero(Get(S, "MemTotal")) = D
    BY <1>3, <1>10
  <2> HIDE DEF C, D, E, U
  <2>3. {U(t[1], a[1]) : a \in C, t \in D} = {U(t, a) : a \in A, t \in E}
    BY <2>1
  <2> QED BY <2>2, <2>3 DEF E, U
<1>13. w = {Used(kibToBytes(t[1]), kibToBytes(a[1])) :
              a \in Get(S, "MemAvailable"), t \in NonZero(Get(S, "MemTotal"))}
  BY <1>11, <1>12
<1>14. A \subseteq Finite /\ T \subseteq Finite /\ A \subseteq {"1"} /\ T \ {"0"} \subseteq {"1"}
  BY DEF Finite
<1>15. ASSUME NEW v \in u PROVE ~NoNumber(v)
  BY <1>2, <1>14, kibToBytesNumber
<1>16. ASSUME NEW v \in w PROVE ~NoNumber(v)
  <2>1. v = Used(kibToBytes("1"), kibToBytes("1"))
    BY <1>11, <1>14
  <2> DEFINE x == kibToBytes("1")
  <2>2. x \in Seq(Texts) /\ ~NoNumber(x) /\ Len(x) > 0 /\ x[1] # "0"
    <3>1. "1" \in Finite
      BY DEF Finite
    <3> QED BY <3>1, kibToBytesNumber
  <2> HIDE DEF x
  <2>3. Minus(x, x) \in Seq(Texts) /\ ~NoNumber(Minus(x, x))
    BY <2>2, MinusNumber
  <2>4. Over(Minus(x, x), x) \in Seq(Texts) /\ ~NoNumber(Over(Minus(x, x), x))
    BY <2>2, <2>3, OverNumber
  <2>5. ~NoNumber(Pct(Over(Minus(x, x), x)))
    BY <2>4, PctNumber
  <2> QED BY <2>1, <2>5 DEF x, Used
<1>17. AtMostOne(u) /\ AtMostOne(w) /\ AtMostOne(mac)
  <2>1. \A a, b \in A : a = b
    OBVIOUS
  <2>2. \A s, t \in T \ {"0"} : s = t
    OBVIOUS
  <2>3. AtMostOne(mac)
    BY DEF AtMostOne
  <2> QED BY <1>2, <1>11, <2>1, <2>2, <2>3 DEF AtMostOne
<1>18. Unique(O)
  <2>1. \A k \in DOMAIN F : AtMostOne(F[k])
    BY <1>7, <1>17
  <2> QED BY <1>4, <2>1, ObjectUnique
<1>19. ASSUME NEW p \in O PROVE ~NoNumber(p[2])
  <2>1. p[1] \in Names(O) /\ p[2] \in Get(O, p[1])
    BY PairValue
  <2>2. p[2] \in u \/ p[2] \in w \/ p[2] \in mac
    BY <1>7, <2>1
  <2>3. p[2] \in mac => p[2] = <<"mac">>
    OBVIOUS
  <2>4. ~NoNumber(<<"mac">>)
    BY NumberAlone
  <2> QED BY <1>15, <1>16, <2>2, <2>3, <2>4
<1> QED BY <1>3, <1>7, <1>8, <1>13, <1>18, <1>19 DEF O, S, Used
-----------------------------------------------------------------------------
(***************************************************************************)
(* What one source adds leaves what the others said alone.                  *)
(***************************************************************************)
EngineWords == Numbers \cup {ByReason} \cup CacheLabels \cup {"up", "Model", "MaxModelLen"}
EngineKeySet == EngineFields \cup {"generation_tokens_per_second"}
MemKeys == {"memory_available_bytes", "memory_used_pct", "mac_address"}

LEMMA WordsApart ==
    /\ EngineWords \cap (ToSet(GPUKeys) \cup MemNames) = {} /\ ToSet(GPUKeys) \cap MemNames = {}
    /\ EngineKeySet \cap (ToSet(GPUKeys) \cup MemKeys) = {} /\ ToSet(GPUKeys) \cap MemKeys = {}
<1>1. EngineWords \cap (ToSet(GPUKeys) \cup MemNames) = {} /\ ToSet(GPUKeys) \cap MemNames = {}
  BY KeysOfGPU DEF EngineWords, MemNames, Numbers, ByReason, CacheLabels, KVCache, Queries, Hits, Running, Waiting, Preemptions
<1>2. EngineKeySet \cap (ToSet(GPUKeys) \cup MemKeys) = {} /\ ToSet(GPUKeys) \cap MemKeys = {}
  BY KeysOfGPU DEF EngineKeySet, EngineFields, MemKeys
<1> QED BY <1>1, <1>2

LEMMA KeyOf ==
    ASSUME NEW serves \in BOOLEAN
    PROVE  /\ \A id \in OfEngine : serves => Sensors(serves)[id] \in EngineKeySet
           /\ Sensors(serves)["last_seen"] = "last_seen"
           /\ \A id \in OfGPU : Sensors(serves)[id] \in ToSet(GPUKeys)
           /\ \A id \in OfHost : Sensors(serves)[id] \in MemKeys
<1>1. \A id \in OfEngine : vllmSensors[id] \in EngineKeySet
  BY EngineKeys DEF OfEngine, EngineKeySet, EngineFields
<1>2. \A id \in OfGPU : hostSensors[id] \in ToSet(GPUKeys)
  BY HostKeys, KeysOfGPU DEF OfGPU
<1>3. \A id \in OfHost : hostSensors[id] \in MemKeys
  BY HostKeys DEF OfHost, MemKeys
<1>4. DOMAIN hostSensors = OfGPU \cup OfHost \cup {"last_seen"} /\ hostSensors["last_seen"] = "last_seen"
  BY Keys, HostKeys
<1>5. /\ \A id \in OfEngine : serves => Sensors(serves)[id] = vllmSensors[id]
      /\ \A id \in DOMAIN hostSensors : Sensors(serves)[id] = hostSensors[id]
  BY Keys DEF OfEngine
<1> QED BY <1>1, <1>2, <1>3, <1>4, <1>5

\* What the templates of those keys show.
LEMMA ShownKept ==
    ASSUME NEW s, NEW more, NEW serves, NEW id, Sensors(serves)[id] \notin Names(more)
    PROVE  Shown(s \cup more, serves, id) = Shown(s, serves, id)
<1> DEFINE k == Sensors(serves)[id]
           x == s \cup more
<1>1. Get(more, k) = {}
  BY GetOther
<1>2. Get(x, k) = Get(s, k) \cup Get(more, k)
  BY GetUnion
<1> HIDE DEF x
<1>3. Get(x, k) = Get(s, k)
  BY <1>1, <1>2
<1>4. Shown(x, serves, id) = Shown(s, serves, id)
  BY <1>3 DEF Shown, optional, optionalBinary
<1> QED BY <1>4 DEF x

LEMMA ShownAdded ==
    ASSUME NEW s, NEW more, NEW serves \in BOOLEAN, NEW id \in OfGPU \cup OfHost,
           Sensors(serves)[id] \notin Names(s)
    PROVE  Shown(s \cup more, serves, id) = Shown(more, serves, id)
<1>1. s \cup more = more \cup s
  OBVIOUS
<1> QED BY <1>1, ShownKept

LEMMA GetKept ==
    ASSUME NEW t, NEW more, NEW A, A \cap Names(more) = {}
    PROVE  \A n \in A : Get(t \cup more, n) = Get(t, n)
<1> TAKE n \in A
<1>1. Get(more, n) = {}
  BY GetOther
<1>2. Get(t \cup more, n) = Get(t, n) \cup Get(more, n)
  BY GetUnion
<1> QED BY <1>1, <1>2

LEMMA TruthSame ==
    ASSUME NEW t, NEW u, NEW address
    PROVE  /\ (\A n \in EngineWords : Get(t, n) = Get(u, n)) =>
                 \A id \in OfEngine \cup {"last_seen"} : Truth(t, address)[id] = Truth(u, address)[id]
           /\ (\A n \in ToSet(GPUKeys) : Get(t, n) = Get(u, n)) =>
                 \A id \in OfGPU : Truth(t, address)[id] = Truth(u, address)[id]
<1> DEFINE a == Truth(t, address)
           b == Truth(u, address)
<1>1. ASSUME \A n \in EngineWords : Get(t, n) = Get(u, n)
      PROVE  \A id \in OfEngine \cup {"last_seen"} : a[id] = b[id]
  <2>1. {KVCache, Queries, Hits, Running, Waiting, Preemptions, ByReason, "up", "Model", "MaxModelLen",
         "enable_prefix_caching", "kv_cache_size_tokens", "kv_cache_max_concurrency"} \subseteq EngineWords
    BY DEF EngineWords, Numbers, CacheLabels
  <2>2. /\ Get(t, "up") = Get(u, "up") /\ Get(t, "Model") = Get(u, "Model")
        /\ Get(t, "MaxModelLen") = Get(u, "MaxModelLen") /\ Get(t, KVCache) = Get(u, KVCache)
        /\ Get(t, ByReason) = Get(u, ByReason) /\ Get(t, Hits) = Get(u, Hits) /\ Get(t, Queries) = Get(u, Queries)
        /\ Get(t, "enable_prefix_caching") = Get(u, "enable_prefix_caching")
        /\ Get(t, "kv_cache_size_tokens") = Get(u, "kv_cache_size_tokens")
        /\ Get(t, "kv_cache_max_concurrency") = Get(u, "kv_cache_max_concurrency")
        /\ Get(t, Running) = Get(u, Running) /\ Get(t, Waiting) = Get(u, Waiting)
        /\ Get(t, Preemptions) = Get(u, Preemptions)
    BY <1>1, <2>1
  <2>3. /\ a["vllm_running"] = b["vllm_running"] /\ a["served_model"] = b["served_model"]
        /\ a["max_model_len"] = b["max_model_len"] /\ a["kv_cache_usage"] = b["kv_cache_usage"]
        /\ a["waiting_for_capacity"] = b["waiting_for_capacity"]
        /\ a["prefix_cache_hit_rate"] = b["prefix_cache_hit_rate"]
        /\ a["prefix_caching"] = b["prefix_caching"] /\ a["kv_cache_tokens"] = b["kv_cache_tokens"]
        /\ a["max_concurrency"] = b["max_concurrency"] /\ a["requests_running"] = b["requests_running"]
        /\ a["requests_waiting"] = b["requests_waiting"] /\ a["preemptions"] = b["preemptions"]
        /\ a["generation_rate"] = b["generation_rate"] /\ a["last_seen"] = b["last_seen"]
    BY <2>2 DEF Truth
  <2> HIDE DEF a, b
  <2> QED BY <2>3, EngineKeys DEF OfEngine
<1>2. ASSUME \A n \in ToSet(GPUKeys) : Get(t, n) = Get(u, n)
      PROVE  \A id \in OfGPU : a[id] = b[id]
  <2>1. /\ a["gpu_utilization"] = Get(t, "gpu_utilization_pct") /\ a["gpu_clock"] = Get(t, "gpu_clock_mhz")
        /\ a["gpu_temperature"] = Get(t, "gpu_temperature_c") /\ a["gpu_power"] = Get(t, "gpu_power_w")
    BY TruthIs
  <2>2. /\ b["gpu_utilization"] = Get(u, "gpu_utilization_pct") /\ b["gpu_clock"] = Get(u, "gpu_clock_mhz")
        /\ b["gpu_temperature"] = Get(u, "gpu_temperature_c") /\ b["gpu_power"] = Get(u, "gpu_power_w")
    BY TruthIs
  <2> HIDE DEF a, b
  <2> QED BY <1>2, <2>1, <2>2, KeysOfGPU DEF OfGPU
<1> QED BY <1>1, <1>2
-----------------------------------------------------------------------------
(***************************************************************************)
(* The lines that an engine writes are lines.                              *)
(***************************************************************************)
LEMMA ModelNamesType ==
    ASSUME scrape \in Seq(Lines)
    PROVE  ModelNames \subseteq Seq(Chars)
<1>1. CASE scrape = <<>>
  <2>1. MaxChars \in Nat
    BY PayloadAssumption
  <2>2. ModelNames = BoundedSeq(Chars, MaxChars)
    BY <1>1 DEF ModelNames
  <2> HIDE DEF Chars
  <2>3. ASSUME NEW f \in BoundedSeq(Chars, MaxChars) PROVE f \in Seq(Chars)
    <3>1. PICK n \in 0..MaxChars : f \in [1..n -> Chars]
      BY DEF BoundedSeq, SeqOf
    <3>2. n \in Nat
      BY <2>1
    <3> QED BY <3>1, <3>2, FunctionIsSeq
  <2> QED BY <2>2, <2>3
<1>2. CASE scrape # <<>>
  <2> DEFINE s == scrape[1]
  <2>1. ModelNames = {s.labels[1][2]}
    BY <1>2 DEF ModelNames
  <2>2. s \in Lines
    <3> HIDE DEF Lines
    <3> QED BY <1>2
  <2> HIDE DEF s
  <2>3. s.labels[1][2] \in Seq(Chars)
    BY <2>2 DEF Lines
  <2> QED BY <2>1, <2>3
<1> QED BY <1>1, <1>2

LEMMA SamplesAreLines ==
    ASSUME scrape \in Seq(Lines), NEW s \in Samples
    PROVE  s \in Lines
<1> DEFINE names == Numbers \cup {ByReason, CacheConfig}
           Q(n) == {n} \X ModelNames \X MoreLabels(n) \X (IF n = CacheConfig THEN {"1"} ELSE Floats)
           L(t) == [name |-> t[1], labels |-> <<<<"model_name", t[2]>>, t[3]>>, value |-> t[4]]
<1>1. Samples = {L(t) : t \in UNION {Q(n) : n \in names}}
  BY DEF Samples
<1>2. PICK n \in names : \E t \in Q(n) : s = L(t)
  <2> HIDE DEF Q, L
  <2> QED BY <1>1
<1>3. PICK t \in Q(n) : s = L(t)
  BY <1>2
<1>4. t[1] = n /\ t[2] \in ModelNames /\ t[3] \in MoreLabels(n) /\ t[4] \in (IF n = CacheConfig THEN {"1"} ELSE Floats)
  BY <1>3
<1>5. t[2] \in Seq(Chars)
  BY <1>4, ModelNamesType
<1>6. t[4] \in Floats /\ (n = CacheConfig => t[4] = "1")
  BY <1>4 DEF Floats, Finite
<1>7. /\ s.name = n /\ s.labels = <<<<"model_name", t[2]>>, t[3]>> /\ s.value = t[4]
      /\ s = [name |-> n, labels |-> <<<<"model_name", t[2]>>, t[3]>>, value |-> t[4]]
  BY <1>3, <1>4
<1>8. t[3] \in UNION {MoreLabels(k) : k \in names}
  BY <1>2, <1>4
<1>9. <<<<"model_name", t[2]>>, t[3]>> \in ({"model_name"} \X Seq(Chars)) \X UNION {MoreLabels(k) : k \in names}
  BY <1>5, <1>8
<1>10. s.labels[2] = t[3]
  BY <1>7
<1> QED BY <1>2, <1>4, <1>6, <1>7, <1>9, <1>10 DEF Lines

\* The samples of a scrape have a name and a number.
LEMMA ParsedType ==
    ASSUME NEW lines \in Seq(Lines)
    PROVE  \A s \in ToSet(Parsed(lines)) : s.name # <<>> /\ s.value[1] \in Finite
<1>1. Parsed(lines) \in Seq(Images)
  BY ParsedLength
<1>2. ASSUME NEW x \in Images PROVE x.name # <<>> /\ x.value[1] \in Finite
  <2>1. PICK s \in Lines : x = Image(s) /\ s.value \in Finite
    BY DEF Images, Finites
  <2>2. x.name = <<s.name>> /\ x.value = <<s.value>>
    BY <2>1 DEF Image
  <2> QED BY <2>1, <2>2
<1>3. ToSet(Parsed(lines)) \subseteq Images
  BY <1>1 DEF ToSet
<1> QED BY <1>2, <1>3
-----------------------------------------------------------------------------
(***************************************************************************)
(* The invariant.                                                          *)
(***************************************************************************)
LEMMA WorkerShown ==
    ASSUME NEW serves \in BOOLEAN, NEW t, NEW address
    PROVE  /\ Shown(WorkerState, serves, "last_seen") = Truth(t, address)["last_seen"]
           /\ Names(WorkerState) = {"last_seen"} /\ Sensors(serves)["last_seen"] = "last_seen"
           /\ Unique(WorkerState) /\ \A p \in WorkerState : ~NoNumber(p[2])
<1>1. Get(WorkerState, "last_seen") = {<<"now">>}
  BY GetOne DEF WorkerState
<1>2. Names(WorkerState) = {"last_seen"}
  BY NamesOne DEF WorkerState
<1>3. Unique(WorkerState)
  BY DEF Unique, WorkerState
<1>4. \A p \in WorkerState : ~NoNumber(p[2])
  <2>1. ~NoNumber(<<"now">>)
    BY NumberAlone
  <2> QED BY <2>1 DEF WorkerState
<1>5. Shown(WorkerState, serves, "last_seen") = Get(WorkerState, "last_seen")
  BY HostShows
<1>6. Truth(t, address)["last_seen"] = {<<"now">>}
  BY TruthIs
<1> QED BY <1>1, <1>2, <1>3, <1>4, <1>5, <1>6, KeyOf

LEMMA NamesNone == Names({}) = {} /\ Unique({})
BY DEF Names, Unique

LEMMA InitHolds == Init => PayloadInv
<1> SUFFICES ASSUME Init PROVE PayloadInv
  OBVIOUS
<1>1. TypeOK
  <2>1. \A object \in {reading, state, published} : \A p, q \in object : p[1] = q[1] => p = q
    BY NamesNone, WorkerShown DEF Init, Unique
  <2>2. Len(metrics) <= Len(scrape) /\ Len(scrape) <= MaxLines /\ ToSet(metrics) = {}
    BY PayloadAssumption DEF Init, ToSet
  <2> QED BY <2>1, <2>2 DEF Init, TypeOK
<1>2. ScrapeInv
  BY ParsedEmpty DEF Init, ScrapeInv
<1>3. EngineInv
  BY DEF Init, EngineInv
<1>4. StateInv
  <2>1. Ready = {"last_seen"}
    BY DEF Init, Ready
  <2>2. state = WorkerState /\ withVLLM \in BOOLEAN /\ told = {}
    BY DEF Init
  <2>3. Names(told) = {}
    BY <2>2, NamesNone
  <2> QED BY <2>1, <2>2, <2>3, WorkerShown DEF StateInv
<1>5. PublishedInv
  BY DEF Init, PublishedInv
<1> QED BY <1>1, <1>2, <1>3, <1>4, <1>5 DEF PayloadInv

\* Until a source has answered the state is a worker's.
LEMMA EarlyState ==
    ASSUME state' = WorkerState, withVLLM' \in BOOLEAN, ~garbled', Names(told') \subseteq EngineWords,
           pc' \in {"health", "models", "metrics"} \/ (pc' = "smi" /\ ~withVLLM')
    PROVE  StateInv'
<1>1. Ready' = {"last_seen"}
  BY DEF Ready
<1>2. Names(told') \cap ToSet(GPUKeys) = {} /\ Names(told') \cap {"MemTotal", "MemAvailable"} = {}
  BY WordsApart DEF MemNames
<1>3. Shown(state', withVLLM', "last_seen") = Truth(told', mac')["last_seen"]
  BY WorkerShown
<1>4. Names(state') = {"last_seen"} /\ Sensors(withVLLM')["last_seen"] = "last_seen"
      /\ \A p \in state' : ~NoNumber(p[2])
  BY WorkerShown
<1> QED BY <1>1, <1>2, <1>3, <1>4 DEF StateInv

\* What the engine says is named by its words.
LEMMA EngineTold ==
    ASSUME EngineInv, pc \in {"idle", "health", "models", "metrics"}
    PROVE  Names(told) \subseteq EngineWords
<1>1. CASE pc \in {"idle", "health"}
  BY <1>1, NamesNone DEF EngineInv
<1>2. CASE pc = "models"
  <2>1. told = {<<"up", True>>}
    BY <1>2 DEF EngineInv
  <2>2. Names(told) = {"up"}
    BY <2>1, NamesOne
  <2> QED BY <2>2 DEF EngineWords
<1>3. CASE pc = "metrics"
  <2>1. PICK served \in Served : told = {<<"up", True>>} \cup served
    BY <1>3 DEF EngineInv
  <2>2. Names(told) \subseteq {"up", "Model", "MaxModelLen"}
    BY <2>1, BaseGets
  <2> QED BY <2>2 DEF EngineWords
<1> QED BY <1>1, <1>2, <1>3

\* Nothing is published before the end.
LEMMA UnpublishedKept ==
    ASSUME PublishedInv, pc # "done", pc' # "done", UNCHANGED Published
    PROVE  PublishedInv'
BY DEF PublishedInv, Published

LEMMA BeginsHolds ==
    ASSUME PayloadInv, Begins
    PROVE  PayloadInv'
<1> USE DEF PayloadInv
<1>1. withVLLM \in BOOLEAN
  BY DEF TypeOK
<1>2. TypeOK'
  BY DEF TypeOK, Begins, Config, Published, history
<1>3. ScrapeInv'
  BY DEF ScrapeInv, Begins, history
<1>4. EngineInv'
  BY <1>1 DEF EngineInv, Begins, Config, history
<1>5. StateInv'
  <2>1. state' = WorkerState /\ ~garbled /\ garbled' = garbled
    BY DEF EngineInv, Begins, history
  <2>2. Names(told') \subseteq EngineWords
    BY EngineTold DEF Begins, history
  <2>3. pc' = "health" \/ (pc' = "smi" /\ ~withVLLM')
    BY <1>1 DEF Begins, Config
  <2> QED BY <1>1, <2>1, <2>2, <2>3, EarlyState DEF Begins, Config
<1>6. PublishedInv'
  BY UnpublishedKept DEF Begins
<1> QED BY <1>2, <1>3, <1>4, <1>5, <1>6

LEMMA HealthAnswersHolds ==
    ASSUME PayloadInv, HealthAnswers
    PROVE  PayloadInv'
<1> USE DEF PayloadInv
<1>1. told' = {<<"up", True>>} /\ reading' = {<<"Up", True>>} /\ withVLLM /\ state' = WorkerState /\ ~garbled'
      /\ endless' = {}
  BY DEF EngineInv, HealthAnswers, Config
<1>2. TypeOK'
  BY <1>1 DEF TypeOK, HealthAnswers, Config, Published
<1>3. ScrapeInv'
  BY DEF ScrapeInv, HealthAnswers
<1>4. EngineInv'
  BY <1>1 DEF EngineInv, HealthAnswers, Config
<1>5. StateInv'
  <2>1. Names(told') \subseteq EngineWords
    <3>1. Names({<<"up", True>>}) = {"up"}
      BY NamesOne
    <3> QED BY <1>1, <3>1 DEF EngineWords
  <2>2. pc' = "models" /\ withVLLM' \in BOOLEAN
    BY <1>2 DEF HealthAnswers, TypeOK
  <2> QED BY <1>1, <2>1, <2>2, EarlyState
<1>6. PublishedInv'
  BY UnpublishedKept DEF HealthAnswers
<1> QED BY <1>2, <1>3, <1>4, <1>5, <1>6

LEMMA ModelsEndHolds ==
    ASSUME PayloadInv, ModelsEnd
    PROVE  PayloadInv'
<1> USE DEF PayloadInv
<1>1. PICK served \in Served : reading' = {<<"Up", True>>} \cup served /\ told' = {<<"up", True>>} \cup served
  BY DEF EngineInv, ModelsEnd
<1>2. withVLLM /\ state' = WorkerState /\ ~garbled' /\ endless' = {}
  BY DEF EngineInv, ModelsEnd, Config
<1>3. Unique(reading') /\ Names(told') \subseteq {"up", "Model", "MaxModelLen"}
  BY <1>1, BaseGets
<1>4. TypeOK'
  BY <1>2, <1>3 DEF TypeOK, ModelsEnd, Config, Published, Unique
<1>5. ScrapeInv'
  BY DEF ScrapeInv, ModelsEnd
<1>6. EngineInv'
  BY <1>1, <1>2 DEF EngineInv, ModelsEnd, Config
<1>7. StateInv'
  <2>1. Names(told') \subseteq EngineWords
    BY <1>3 DEF EngineWords
  <2>2. pc' = "metrics" /\ withVLLM' \in BOOLEAN
    BY <1>4 DEF ModelsEnd, TypeOK
  <2> QED BY <1>2, <2>1, <2>2, EarlyState
<1>8. PublishedInv'
  BY UnpublishedKept DEF ModelsEnd
<1> QED BY <1>4, <1>5, <1>6, <1>7, <1>8

LEMMA ReadsLineHolds ==
    ASSUME PayloadInv, ReadsLine
    PROVE  PayloadInv'
<1> USE DEF PayloadInv
<1>1. PICK s \in Samples : scrape' = Append(scrape, s) /\ metrics' = metrics \o OfLine(s)
  BY DEF ReadsLine, OfLine
<1>2. scrape \in Seq(Lines) /\ metrics = Parsed(scrape) /\ s \in Lines
  BY SamplesAreLines DEF ScrapeInv
<1>3. scrape' \in Seq(Lines) /\ metrics' = Parsed(scrape') /\ Len(scrape') = Len(scrape) + 1 /\ Len(scrape) \in Nat
  <2> HIDE DEF Lines
  <2>1. Append(scrape, s) \in Seq(Lines) /\ Len(Append(scrape, s)) = Len(scrape) + 1 /\ Len(scrape) \in Nat
    BY <1>2
  <2>2. Parsed(Append(scrape, s)) = Parsed(scrape) \o OfLine(s)
    BY <1>2, ParsedAppends
  <2> QED BY <1>1, <1>2, <2>1, <2>2
<1>4. ScrapeInv'
  BY <1>3 DEF ScrapeInv, ReadsLine
<1>5. Len(metrics') <= Len(scrape') /\ \A x \in ToSet(metrics') : x.name # <<>> /\ x.value[1] \in Finite
  BY <1>3, ParsedLength, ParsedType
<1>6. TypeOK'
  <2>1. Len(scrape') <= MaxLines
    BY <1>3, PayloadAssumption DEF ReadsLine
  <2> QED BY <1>5, <2>1 DEF TypeOK, ReadsLine, Config, Published
<1>7. EngineInv'
  BY DEF EngineInv, ReadsLine, Config
<1>8. StateInv'
  <2>1. state' = WorkerState /\ ~garbled' /\ endless' = {} /\ pc' = "metrics" /\ withVLLM' \in BOOLEAN
    BY DEF EngineInv, ReadsLine, Config, TypeOK
  <2>2. Names(told') \subseteq EngineWords
    BY EngineTold DEF ReadsLine
  <2> QED BY <2>1, <2>2, EarlyState
<1>9. PublishedInv'
  BY UnpublishedKept DEF ReadsLine
<1> QED BY <1>4, <1>6, <1>7, <1>8, <1>9
-----------------------------------------------------------------------------
LEMMA SaidPairs ==
    ASSUME scrape \in Seq(Lines), NEW p \in Said
    PROVE  p = <<p[1], p[2]>>
<1> DEFINE W == Written(CacheConfig, MoreLabels(CacheConfig))
           F == [n \in Numbers \cup {ByReason} |-> SaidOf(n)]
           b == {s.labels[2] : s \in W}
<1>1. Said = Object(F) \cup b
  BY DEF Said
<1>2. ASSUME NEW s \in W PROVE s.labels[2] = <<s.labels[2][1], s.labels[2][2]>>
  <2>1. s \in ToSet(scrape)
    BY FirstInOne DEF Written, FirstIn
  <2>2. s \in Lines
    <3> HIDE DEF Lines
    <3> QED BY <2>1 DEF ToSet
  <2>3. s.labels[2] \in Pairs(Tokens)
    <3> HIDE DEF Lines
    <3>1. s.labels \in Seq(Pairs(Tokens)) /\ Len(s.labels) = 2
      BY <2>2, LineTypes
    <3> QED BY <3>1
  <2> QED BY <2>3 DEF Pairs
<1> HIDE DEF W, F
<1>3. CASE p \in Object(F)
  <2>1. PICK k \in DOMAIN F : \E v \in F[k] : p = <<k, v>>
    BY <1>3, Members
  <2> QED BY <2>1
<1>4. CASE p \in b
  BY <1>2, <1>4
<1> QED BY <1>1, <1>3, <1>4

\* A name for a truth value among the arguments of an operator.
Yes == TRUE

\* The fields of the engine are the keys of its entities.
LEMMA FieldKeys ==
    ASSUME NEW k \in EngineFields
    PROVE  \E id \in OfEngine \cup {"last_seen"} : Sensors(Yes)[id] = k
<1>1. \A id \in OfEngine : Sensors(Yes)[id] = vllmSensors[id]
  BY Keys DEF OfEngine, Yes
<1>2. Sensors(Yes)["last_seen"] = "last_seen"
  BY KeyOf DEF Yes
<1>3. k = "last_seen" \/ \E id \in OfEngine : vllmSensors[id] = k
  BY EngineKeys DEF OfEngine, EngineFields
<1> QED BY <1>1, <1>2, <1>3

LEMMA EntityShown ==
    ASSUME NEW r, NEW t, NEW address, NEW id \in OfEngine, Matches(r, t)
    PROVE  Shown(FromVLLM(r), Yes, id) = Truth(t, address)[id]
BY EngineShown, Zenon DEF Yes

\* The end of Read, whichever way it ends: r is what it returns.
LEMMA ReadHolds ==
    ASSUME PayloadInv, pc \in {"health", "metrics"}, NEW STATE r, Unique(r), Proper(r), Reads(r),
           metrics' = <<>>, scrape' = <<>>, garbled' \in BOOLEAN, ~garbled' => Matches(r, told'),
           Names(told') \subseteq EngineWords, endless' \subseteq {"label"},
           <<"+Inf">> \in Get(r, "MaxConcurrency") => endless' # {},
           UNCHANGED <<Config, Published>>
    PROVE  PayloadInv'
<1>1. pc' = "smi" /\ reading' = r /\ state' = FromVLLM(r)
  BY DEF Reads
<1>2. withVLLM' = Yes /\ withVLLM' \in BOOLEAN /\ mac' = mac /\ lost' = lost /\ published' = published
  BY DEF PayloadInv, EngineInv, TypeOK, Config, Published, Yes
<1>3. TypeOK'
  <2>1. Unique(FromVLLM(r))
    BY StateUnique
  <2>2. Len(metrics') <= Len(scrape') /\ Len(scrape') <= MaxLines /\ ToSet(metrics') = {}
    BY PayloadAssumption DEF ToSet
  <2>3. mac' \in {{}, {<<"mac">>}} /\ lost' \in BOOLEAN
        /\ \A p, q \in published' : p[1] = q[1] => p = q
    BY <1>2 DEF PayloadInv, TypeOK
  <2> QED BY <1>1, <1>2, <2>1, <2>2, <2>3 DEF TypeOK, Unique
<1>4. ScrapeInv'
  BY ParsedEmpty DEF ScrapeInv
<1>5. EngineInv'
  BY <1>1, <1>2 DEF EngineInv, Yes
<1>6. PublishedInv'
  BY <1>1, UnpublishedKept DEF PayloadInv
<1>7. StateInv'
  <2> DEFINE s == FromVLLM(r)
  <2>1. Ready' = OfEngine \cup {"last_seen"}
    BY <1>1, <1>2 DEF Ready, Yes
  <2>2. ASSUME ~garbled', NEW id \in OfEngine \cup {"last_seen"}
        PROVE  Shown(s, Yes, id) = Truth(told', mac')[id]
    <3>1. CASE id \in OfEngine
      <4>1. Matches(r, told')
        BY <2>2
      <4> QED BY <3>1, <4>1, EntityShown
    <3>2. CASE id = "last_seen"
      <4>1. Shown(s, Yes, "last_seen") = Get(s, "last_seen")
        <5>1. Yes \in BOOLEAN
          BY DEF Yes
        <5> QED BY <5>1, HostShows
      <4>2. Get(s, "last_seen") = {<<"now">>}
        BY StateGets
      <4>3. Truth(told', mac')["last_seen"] = {<<"now">>}
        BY TruthIs
      <4> QED BY <3>2, <4>1, <4>2, <4>3
    <3> QED BY <2>2, <3>1, <3>2
  <2>3. Names(s) \subseteq {Sensors(Yes)[id] : id \in OfEngine \cup {"last_seen"}}
    <3>1. Names(s) \subseteq EngineFields
      BY StateGets
    <3> HIDE DEF s
    <3> QED BY <3>1, FieldKeys
  <2>4. Names(told') \cap ToSet(GPUKeys) = {} /\ Names(told') \cap {"MemTotal", "MemAvailable"} = {}
    BY WordsApart DEF MemNames
  <2>5. \A p \in s : NoNumber(p[2]) => endless' # {}
    BY StateNumbers
  <2> HIDE DEF s
  <2>6. state' = s
    BY <1>1 DEF s
  <2> QED BY <1>2, <2>1, <2>2, <2>3, <2>4, <2>5, <2>6 DEF StateInv
<1> QED BY <1>3, <1>4, <1>5, <1>6, <1>7 DEF PayloadInv

LEMMA HealthFailsHolds ==
    ASSUME PayloadInv, HealthFails
    PROVE  PayloadInv'
<1>1. pc = "health" /\ told = {} /\ ~garbled /\ endless = {} /\ scrape = <<>> /\ metrics = <<>>
  BY ParsedEmpty DEF PayloadInv, EngineInv, ScrapeInv, HealthFails
<1>2. Names(told') \subseteq EngineWords
  <2>1. told' = {<<"up", False>>}
    BY <1>1 DEF HealthFails
  <2>2. Names(told') = {"up"}
    BY <2>1, NamesOne
  <2> QED BY <2>2 DEF EngineWords
<1>3. Matches({}, told')
  BY <1>1, MatchesDown DEF HealthFails
<1>4. Unique({}) /\ Proper({}) /\ Get({}, "MaxConcurrency") = {}
  BY NamesNone, ProperDown, GetNone
<1>5. /\ Reads({}) /\ metrics' = <<>> /\ scrape' = <<>> /\ garbled' = FALSE /\ endless' = {}
      /\ UNCHANGED <<Config, Published>>
  BY <1>1 DEF HealthFails
<1> QED BY <1>1, <1>2, <1>3, <1>4, <1>5, ReadHolds

LEMMA ScrapeFailsHolds ==
    ASSUME PayloadInv, ScrapeFails
    PROVE  PayloadInv'
<1> DEFINE r == reading
<1>1. PICK served \in Served : r = {<<"Up", True>>} \cup served /\ told = {<<"up", True>>} \cup served
  BY DEF PayloadInv, EngineInv, ScrapeFails
<1>2. /\ pc = "metrics" /\ ~garbled /\ endless = {} /\ garbled' = garbled /\ endless' = endless
      /\ told' = told /\ Reads(r) /\ metrics' = <<>> /\ scrape' = <<>> /\ UNCHANGED <<Config, Published>>
  BY DEF PayloadInv, EngineInv, ScrapeFails, ForgetsScrape
<1>3. Unique(r) /\ Names(r) \subseteq {"Up", "Model", "MaxModelLen"} /\ Names(told) \subseteq {"up", "Model", "MaxModelLen"}
  BY <1>1, BaseGets
<1>4. Proper(r) /\ Matches(r, told)
  BY <1>1, ProperServed, MatchesServed
<1>5. Get(r, "MaxConcurrency") = {}
  BY <1>3, GetOther
<1>6. Names(told') \subseteq EngineWords
  BY <1>2, <1>3 DEF EngineWords
<1>7. garbled' = FALSE /\ endless' = {} /\ Matches(r, told')
  <2>1. garbled \in BOOLEAN
    BY DEF PayloadInv, TypeOK
  <2> QED BY <1>2, <1>4, <2>1
<1> HIDE DEF r
<1> QED BY <1>2, <1>3, <1>4, <1>5, <1>6, <1>7, ReadHolds

LEMMA ScrapeEndsHolds ==
    ASSUME PayloadInv, ScrapeEnds
    PROVE  PayloadInv'
<1> DEFINE r == reading \cup applyMetrics(metrics)
           bad == \E s \in ToSet(scrape) : ~Readable(s)
<1>1. PICK served \in Served : reading = {<<"Up", True>>} \cup served /\ told = {<<"up", True>>} \cup served
  BY DEF PayloadInv, EngineInv, ScrapeEnds
<1>2. scrape \in Seq(Lines) /\ metrics = Parsed(scrape)
  BY DEF PayloadInv, ScrapeInv
<1>3. /\ pc = "metrics" /\ garbled' = bad /\ told' = told \cup Said /\ Reads(r)
      /\ endless' = IF <<"kv_cache_max_concurrency", <<"+Inf">>>> \in told' THEN {"label"} ELSE {}
      /\ metrics' = <<>> /\ scrape' = <<>> /\ UNCHANGED <<Config, Published>>
  BY DEF ScrapeEnds, ForgetsScrape
<1>4. Proper(r) /\ Unique(r) /\ Get(r, "MaxConcurrency") \subseteq Get(Said, "kv_cache_max_concurrency")
  BY <1>1, <1>2, ProperScrape
<1>5. ASSUME ~bad PROVE Matches(r, told')
  <2>1. \A s \in ToSet(scrape) : Readable(s)
    BY <1>5
  <2>2. Matches(r, told \cup Said)
    BY <1>1, <1>2, <2>1, MatchesScrape
  <2> QED BY <1>3, <2>2
<1>6. Names(told') \subseteq EngineWords
  <2>1. Names(told) \subseteq {"up", "Model", "MaxModelLen"}
    BY <1>1, BaseGets
  <2>2. Names(Said) \subseteq Numbers \cup {ByReason} \cup CacheLabels
    BY <1>2, SaidGets
  <2>3. Names(told') = Names(told) \cup Names(Said)
    BY <1>3, NamesUnion
  <2> QED BY <2>1, <2>2, <2>3 DEF EngineWords
<1>7. ASSUME <<"+Inf">> \in Get(r, "MaxConcurrency") PROVE endless' # {}
  <2>1. <<"+Inf">> \in Get(Said, "kv_cache_max_concurrency")
    BY <1>4, <1>7
  <2>2. <<"kv_cache_max_concurrency", <<"+Inf">>>> \in Said
    <3> DEFINE inf == <<"+Inf">>
               k == "kv_cache_max_concurrency"
    <3>1. PICK p \in Said : p[1] = k /\ p[2] = inf
      BY <2>1 DEF Get
    <3>2. p = <<p[1], p[2]>>
      <4>1. \A s : s \in Said => s = <<s[1], s[2]>>
        BY <1>2, SaidPairs
      <4> QED BY <4>1
    <3> QED BY <3>1, <3>2
  <2> QED BY <1>3, <2>2
<1> HIDE DEF r, bad
<1>8. garbled' \in BOOLEAN /\ endless' \subseteq {"label"}
  <2>1. bad \in BOOLEAN
    BY DEF bad
  <2> QED BY <1>3, <2>1
<1> QED BY <1>3, <1>4, <1>5, <1>6, <1>7, <1>8, ReadHolds

LEMMA KeysUsed ==
    ASSUME NEW serves \in BOOLEAN
    PROVE  /\ \A k \in ToSet(GPUKeys) : \E id \in OfGPU : Sensors(serves)[id] = k
           /\ \A k \in MemKeys : \E id \in OfHost : Sensors(serves)[id] = k
<1>1. DOMAIN hostSensors = OfGPU \cup OfHost \cup {"last_seen"}
      /\ \A id \in DOMAIN hostSensors : Sensors(serves)[id] = hostSensors[id]
  BY Keys
<1>2. \A k \in ToSet(GPUKeys) : \E id \in OfGPU : hostSensors[id] = k
  BY HostKeys, KeysOfGPU DEF OfGPU
<1>3. \A k \in MemKeys : \E id \in OfHost : hostSensors[id] = k
  BY HostKeys DEF OfHost, MemKeys
<1> QED BY <1>1, <1>2, <1>3

\* The keys that a state has when a source is asked.
LEMMA StateNames ==
    ASSUME StateInv, withVLLM \in BOOLEAN
    PROVE  /\ pc = "smi" => /\ Names(state) \subseteq EngineKeySet
                            /\ Ready \subseteq OfEngine \cup {"last_seen"}
                            /\ \A id \in Ready : Sensors(withVLLM)[id] \in EngineKeySet
           /\ pc = "memory" => /\ Names(state) \subseteq EngineKeySet \cup ToSet(GPUKeys)
                               /\ Ready \subseteq OfEngine \cup {"last_seen"} \cup OfGPU
                               /\ \A id \in Ready : Sensors(withVLLM)[id] \in EngineKeySet \cup ToSet(GPUKeys)
<1> DEFINE K(id) == Sensors(withVLLM)[id]
<1>1. Names(state) \subseteq {K(id) : id \in Ready}
  BY DEF StateInv
<1>2. /\ \A id \in OfEngine : withVLLM => K(id) \in EngineKeySet
      /\ K("last_seen") = "last_seen" /\ \A id \in OfGPU : K(id) \in ToSet(GPUKeys)
  BY KeyOf
<1>3. "last_seen" \in EngineKeySet
  BY DEF EngineKeySet, EngineFields
<1> HIDE DEF K
<1>4. ASSUME pc = "smi"
      PROVE  Ready \subseteq OfEngine \cup {"last_seen"} /\ \A id \in Ready : K(id) \in EngineKeySet
  BY <1>2, <1>3, <1>4 DEF Ready
<1>5. ASSUME pc = "memory"
      PROVE  /\ Ready \subseteq OfEngine \cup {"last_seen"} \cup OfGPU
             /\ \A id \in Ready : K(id) \in EngineKeySet \cup ToSet(GPUKeys)
  BY <1>2, <1>3, <1>5 DEF Ready
<1>6. ASSUME pc = "smi" PROVE Names(state) \subseteq EngineKeySet
  BY <1>1, <1>4, <1>6
<1>7. ASSUME pc = "memory" PROVE Names(state) \subseteq EngineKeySet \cup ToSet(GPUKeys)
  BY <1>1, <1>5, <1>7
<1> QED BY <1>4, <1>5, <1>6, <1>7 DEF K

LEMMA GPUShown ==
    ASSUME NEW x, NEW t, NEW address, NEW serves, NEW id, serves \in BOOLEAN, id \in OfGPU,
           \A k \in ToSet(GPUKeys) : Get(x, k) = Get(t, k)
    PROVE  Shown(x, serves, id) = Truth(t, address)[id]
<1> DEFINE S(i) == Shown(x, serves, i)
           u == Truth(t, address)
<1>1. /\ S("gpu_utilization") = Get(x, "gpu_utilization_pct") /\ S("gpu_clock") = Get(x, "gpu_clock_mhz")
      /\ S("gpu_temperature") = Get(x, "gpu_temperature_c") /\ S("gpu_power") = Get(x, "gpu_power_w")
  BY HostShows
<1>2. /\ u["gpu_utilization"] = Get(t, "gpu_utilization_pct") /\ u["gpu_clock"] = Get(t, "gpu_clock_mhz")
      /\ u["gpu_temperature"] = Get(t, "gpu_temperature_c") /\ u["gpu_power"] = Get(t, "gpu_power_w")
  BY TruthIs
<1> HIDE DEF S, u
<1>3. S(id) = u[id]
  BY <1>1, <1>2, KeysOfGPU DEF OfGPU
<1> QED BY <1>3 DEF S, u

LEMMA ReadsAcceleratorHolds ==
    ASSUME PayloadInv, ReadsAccelerator
    PROVE  PayloadInv'
<1>1. PICK row \in Rows : /\ state' = state \cup parseSMI(row) /\ told' = told \cup RowSaid(row)
                          /\ endless' = endless \cup IF "NaN" \in ToSet(row) THEN {"nvidia-smi"} ELSE {}
  BY DEF ReadsAccelerator, RowSaid
<1> DEFINE x == parseSMI(row)
           y == RowSaid(row)
           v == withVLLM
<1>2. /\ Unique(x) /\ Names(x) \subseteq ToSet(GPUKeys) /\ Names(y) \subseteq ToSet(GPUKeys)
      /\ \/ \A k \in ToSet(GPUKeys) : Get(x, k) = Get(y, k)
         \/ \E p \in x : NoNumber(p[2])
      /\ (\E p \in x : NoNumber(p[2])) => "NaN" \in ToSet(row)
  BY RowShown
<1>3. /\ pc = "smi" /\ pc' = "memory" /\ v \in BOOLEAN /\ withVLLM' = v /\ mac' = mac /\ garbled' = garbled
      /\ state' = state \cup x /\ told' = told \cup y /\ StateInv
  BY <1>1 DEF PayloadInv, TypeOK, ReadsAccelerator, Config
<1> HIDE DEF x, y, v
<1>4. /\ Names(state) \subseteq EngineKeySet /\ Ready \subseteq OfEngine \cup {"last_seen"}
      /\ \A id \in Ready : Sensors(v)[id] \in EngineKeySet
  BY <1>3, StateNames DEF v
<1>5. TypeOK'
  <2>1. Unique(state)
    BY DEF PayloadInv, TypeOK, Unique
  <2>2. Names(state) \cap Names(x) = {}
    BY <1>2, <1>4, WordsApart
  <2>3. Unique(state')
    BY <1>2, <1>3, <2>1, <2>2, UniqueUnion
  <2>4. endless' \subseteq {"nvidia-smi", "label"}
    BY <1>1 DEF PayloadInv, TypeOK
  <2> QED BY <1>3, <2>3, <2>4 DEF PayloadInv, TypeOK, ReadsAccelerator, Config, Published, Unique
<1>6. ScrapeInv'
  BY <1>3 DEF PayloadInv, ScrapeInv, ReadsAccelerator
<1>7. EngineInv'
  BY <1>3 DEF PayloadInv, EngineInv, v
<1>8. PublishedInv'
  BY <1>3, UnpublishedKept DEF PayloadInv, ReadsAccelerator
<1>9. Ready' = Ready \cup OfGPU
  BY <1>3 DEF Ready, v
<1>10. ASSUME ~garbled'
       PROVE  \/ \A id \in Ready' : Shown(state', v, id) = Truth(told', mac)[id]
              \/ \E pair \in state' : NoNumber(pair[2])
  <2>1. CASE (\E pair \in state : NoNumber(pair[2])) \/ (\E pair \in x : NoNumber(pair[2]))
    BY <1>3, <2>1
  <2>2. CASE /\ \A id \in Ready : Shown(state, v, id) = Truth(told, mac)[id]
             /\ \A k \in ToSet(GPUKeys) : Get(x, k) = Get(y, k)
    <3>0. v \in BOOLEAN
      BY <1>3
    <3>1. ASSUME NEW id \in Ready PROVE Shown(state', v, id) = Truth(told', mac)[id]
      <4>1. Sensors(v)[id] \notin Names(x)
        BY <1>2, <1>4, WordsApart
      <4>2. Shown(state', v, id) = Shown(state, v, id)
        BY <1>3, <4>1, ShownKept
      <4>3. \A n \in EngineWords : Get(told', n) = Get(told, n)
        <5>1. EngineWords \cap Names(y) = {}
          BY <1>2, WordsApart
        <5> QED BY <1>3, <5>1, GetKept
      <4>4. Truth(told', mac)[id] = Truth(told, mac)[id]
        BY <1>4, <4>3, TruthSame
      <4> QED BY <2>2, <4>2, <4>4
    <3>2. ASSUME NEW id \in OfGPU PROVE Shown(state', v, id) = Truth(told', mac)[id]
      <4>1. Sensors(v)[id] \in ToSet(GPUKeys)
        BY <1>3, KeyOf
      <4>2. Sensors(v)[id] \notin Names(state)
        BY <1>4, <4>1, WordsApart
      <4>3. Shown(state', v, id) = Shown(x, v, id)
        BY <1>3, <4>2, ShownAdded
      <4>4. \A k \in ToSet(GPUKeys) : Get(x, k) = Get(told', k)
        <5>1. Names(told) \cap ToSet(GPUKeys) = {}
          BY <1>3 DEF StateInv
        <5>2. \A k \in ToSet(GPUKeys) : Get(y \cup told, k) = Get(y, k)
          BY <5>1, GetKept
        <5>3. told' = y \cup told
          BY <1>3
        <5> QED BY <2>2, <5>2, <5>3
      <4>5. Shown(x, v, id) = Truth(told', mac)[id]
        BY <3>0, <4>4, GPUShown
      <4> QED BY <4>3, <4>5
    <3> QED BY <1>9, <3>1, <3>2
  <2>3. ~garbled
    BY <1>3, <1>10
  <2>4. \/ \A id \in Ready : Shown(state, v, id) = Truth(told, mac)[id]
        \/ \E pair \in state : NoNumber(pair[2])
    BY <1>3, <2>3 DEF StateInv, v
  <2> QED BY <1>2, <2>1, <2>2, <2>4
<1>11. Names(state') \subseteq {Sensors(v)[id] : id \in Ready'}
  <2> DEFINE K(id) == Sensors(v)[id]
  <2>1. Names(state) \subseteq {K(id) : id \in Ready}
    BY <1>3 DEF StateInv, v
  <2>2. \A k \in ToSet(GPUKeys) : \E id \in OfGPU : K(id) = k
    BY <1>3, KeysUsed
  <2>3. Names(state') = Names(state) \cup Names(x)
    BY <1>3, NamesUnion
  <2> HIDE DEF K
  <2>4. Names(state') \subseteq {K(id) : id \in Ready'}
    BY <1>2, <1>9, <2>1, <2>2, <2>3
  <2> QED BY <2>4 DEF K
<1>12. Names(told') \cap {"MemTotal", "MemAvailable"} = {}
  <2>1. Names(told) \cap {"MemTotal", "MemAvailable"} = {}
    BY <1>3 DEF StateInv
  <2>2. Names(told') = Names(told) \cup Names(y)
    BY <1>3, NamesUnion
  <2> QED BY <1>2, <2>1, <2>2, WordsApart DEF MemNames
<1>13. \A pair \in state' : NoNumber(pair[2]) => endless' # {}
  <2>1. \A pair \in state : NoNumber(pair[2]) => endless # {}
    BY <1>3 DEF StateInv
  <2> QED BY <1>1, <1>2, <1>3, <2>1
<1>14. StateInv'
  BY <1>3, <1>10, <1>11, <1>12, <1>13 DEF StateInv
<1> QED BY <1>5, <1>6, <1>7, <1>8, <1>14 DEF PayloadInv

\* What was said of the memory, as its entities show it.
AvailableSaid(t) == {kibToBytes(v[1]) : v \in Get(t, "MemAvailable")}
UsedSaid(t) == {Pct(Over(Minus(kibToBytes(b[1]), kibToBytes(a[1])), kibToBytes(b[1]))) :
                  a \in Get(t, "MemAvailable"), b \in NonZero(Get(t, "MemTotal"))}

LEMMA HostShown ==
    ASSUME NEW x, NEW t, NEW address, NEW serves, NEW id, serves \in BOOLEAN, id \in OfHost,
           Get(x, "memory_available_bytes") = AvailableSaid(t), Get(x, "memory_used_pct") = UsedSaid(t),
           Get(x, "mac_address") = address
    PROVE  Shown(x, serves, id) = Truth(t, address)[id]
<1> DEFINE S(i) == Shown(x, serves, i)
           u == Truth(t, address)
<1>1. /\ S("memory_available") = Get(x, "memory_available_bytes") /\ S("memory_used") = Get(x, "memory_used_pct")
      /\ S("mac_address") = Get(x, "mac_address")
  BY HostShows
<1>2. u["memory_available"] = AvailableSaid(t) /\ u["mac_address"] = address
  BY TruthIs DEF AvailableSaid
<1>3. u["memory_used"] = UsedSaid(t)
  BY TruthIs DEF UsedSaid
<1> HIDE DEF S, u
<1>4. S("memory_available") = u["memory_available"]
  BY <1>1, <1>2
<1>5. S("memory_used") = u["memory_used"]
  BY <1>1, <1>3
<1>6. S("mac_address") = u["mac_address"]
  BY <1>1, <1>2
<1>7. S(id) = u[id]
  BY <1>4, <1>5, <1>6 DEF OfHost
<1> QED BY <1>7 DEF S, u

LEMMA ReadsMemoryHolds ==
    ASSUME PayloadInv, ReadsMemory
    PROVE  PayloadInv'
<1>1. PICK lines \in MemInfos : state' = state \cup MemObject(lines) /\ told' = told \cup MemSaid(lines)
  BY DEF ReadsMemory, MemObject, MemSaid
<1> DEFINE x == MemObject(lines)
           y == MemSaid(lines)
           v == withVLLM
<1>2. /\ Get(x, "memory_available_bytes") = {kibToBytes(w[1]) : w \in Get(y, "MemAvailable")}
      /\ Get(x, "memory_used_pct")
            = {Pct(Over(Minus(kibToBytes(t[1]), kibToBytes(a[1])), kibToBytes(t[1]))) :
                 a \in Get(y, "MemAvailable"), t \in NonZero(Get(y, "MemTotal"))}
      /\ Get(x, "mac_address") = mac
      /\ Names(x) \subseteq {"memory_available_bytes", "memory_used_pct", "mac_address"}
      /\ Names(y) \subseteq MemNames
      /\ Unique(x)
      /\ \A p \in x : ~NoNumber(p[2])
  <2>1. mac \in {{}, {<<"mac">>}}
    BY DEF PayloadInv, TypeOK
  <2> QED BY <2>1, MemShown
<1>3. /\ pc = "memory" /\ pc' = "publish" /\ withVLLM' = v /\ mac' = mac /\ garbled' = garbled
      /\ endless' = endless /\ state' = state \cup x /\ told' = told \cup y /\ StateInv
  BY <1>1 DEF PayloadInv, ReadsMemory, Config
<1>4. v \in BOOLEAN
  BY DEF PayloadInv, TypeOK
<1> HIDE DEF x, y, v
<1>5. /\ Names(state) \subseteq EngineKeySet \cup ToSet(GPUKeys) /\ Ready \subseteq OfEngine \cup {"last_seen"} \cup OfGPU
      /\ \A id \in Ready : Sensors(v)[id] \in EngineKeySet \cup ToSet(GPUKeys)
  BY <1>3, <1>4, StateNames DEF v
<1>6. Names(x) \subseteq MemKeys
  BY <1>2 DEF MemKeys
<1>7. TypeOK'
  <2>1. Unique(state)
    BY DEF PayloadInv, TypeOK, Unique
  <2>2. Names(state) \cap Names(x) = {}
    BY <1>6, <1>5, WordsApart
  <2>3. Unique(state')
    BY <1>2, <1>3, <2>1, <2>2, UniqueUnion
  <2> QED BY <1>3, <2>3 DEF PayloadInv, TypeOK, ReadsMemory, Config, Published, Unique
<1>8. ScrapeInv'
  BY <1>3 DEF PayloadInv, ScrapeInv, ReadsMemory
<1>9. EngineInv'
  BY <1>3 DEF PayloadInv, EngineInv, v
<1>10. PublishedInv'
  BY <1>3, UnpublishedKept DEF PayloadInv, ReadsMemory
<1>11. Ready' = Ready \cup OfHost
  BY <1>3 DEF Ready, v
<1>12. ASSUME ~garbled'
       PROVE  \/ \A id \in Ready' : Shown(state', v, id) = Truth(told', mac)[id]
              \/ \E pair \in state' : NoNumber(pair[2])
  <2>1. CASE \E pair \in state : NoNumber(pair[2])
    BY <1>3, <2>1
  <2>2. CASE \A id \in Ready : Shown(state, v, id) = Truth(told, mac)[id]
    <3>1. ASSUME NEW id \in Ready PROVE Shown(state', v, id) = Truth(told', mac)[id]
      <4>1. Sensors(v)[id] \notin Names(x)
        BY <1>5, <1>6, WordsApart
      <4>2. Shown(state', v, id) = Shown(state, v, id)
        BY <1>3, <4>1, ShownKept
      <4>3. \A n \in EngineWords : Get(told', n) = Get(told, n)
        <5>1. EngineWords \cap Names(y) = {}
          BY <1>2, WordsApart
        <5> QED BY <1>3, <5>1, GetKept
      <4>4. \A n \in ToSet(GPUKeys) : Get(told', n) = Get(told, n)
        <5>1. ToSet(GPUKeys) \cap Names(y) = {}
          BY <1>2, WordsApart
        <5> QED BY <1>3, <5>1, GetKept
      <4>5. /\ \A i \in OfEngine \cup {"last_seen"} : Truth(told', mac)[i] = Truth(told, mac)[i]
            /\ \A i \in OfGPU : Truth(told', mac)[i] = Truth(told, mac)[i]
        BY <4>3, <4>4, TruthSame
      <4>6. Truth(told', mac)[id] = Truth(told, mac)[id]
        BY <1>5, <4>5
      <4> QED BY <2>2, <4>2, <4>6
    <3>2. ASSUME NEW id \in OfHost PROVE Shown(state', v, id) = Truth(told', mac)[id]
      <4>1. Sensors(v)[id] \in MemKeys
        BY <1>4, KeyOf
      <4>2. Sensors(v)[id] \notin Names(state)
        BY <1>5, <4>1, WordsApart
      <4>3. Shown(state', v, id) = Shown(x, v, id)
        BY <1>3, <1>4, <4>2, ShownAdded
      <4>4. Get(told', "MemAvailable") = Get(y, "MemAvailable") /\ Get(told', "MemTotal") = Get(y, "MemTotal")
        <5>1. {"MemTotal", "MemAvailable"} \cap Names(told) = {}
          BY <1>3 DEF StateInv
        <5>2. \A k \in {"MemTotal", "MemAvailable"} : Get(y \cup told, k) = Get(y, k)
          BY <5>1, GetKept
        <5>3. told' = y \cup told
          BY <1>3
        <5> QED BY <5>2, <5>3
      <4>5. /\ Get(x, "memory_available_bytes") = AvailableSaid(told')
            /\ Get(x, "memory_used_pct") = UsedSaid(told') /\ Get(x, "mac_address") = mac
        BY <1>2, <4>4 DEF AvailableSaid, UsedSaid
      <4>6. Shown(x, v, id) = Truth(told', mac)[id]
        BY <1>4, <4>5, HostShown
      <4> QED BY <4>3, <4>6
    <3> QED BY <1>11, <3>1, <3>2
  <2>3. ~garbled
    BY <1>3, <1>12
  <2>4. \/ \A id \in Ready : Shown(state, v, id) = Truth(told, mac)[id]
        \/ \E pair \in state : NoNumber(pair[2])
    BY <1>3, <2>3 DEF StateInv, v
  <2> QED BY <2>1, <2>2, <2>4
<1>13. Names(state') \subseteq {Sensors(v)[id] : id \in Ready'}
  <2> DEFINE K(id) == Sensors(v)[id]
  <2>1. Names(state) \subseteq {K(id) : id \in Ready}
    BY <1>3 DEF StateInv, v
  <2>2. \A k \in MemKeys : \E id \in OfHost : K(id) = k
    BY <1>4, KeysUsed
  <2>3. Names(state') = Names(state) \cup Names(x)
    BY <1>3, NamesUnion
  <2> HIDE DEF K
  <2>4. Names(state') \subseteq {K(id) : id \in Ready'}
    BY <1>6, <1>11, <2>1, <2>2, <2>3
  <2> QED BY <2>4 DEF K
<1>14. \A pair \in state' : NoNumber(pair[2]) => endless' # {}
  <2>1. \A pair \in state : NoNumber(pair[2]) => endless # {}
    BY <1>3 DEF StateInv
  <2> QED BY <1>2, <1>3, <2>1
<1>15. StateInv'
  BY <1>3, <1>12, <1>13, <1>14 DEF StateInv
<1> QED BY <1>7, <1>8, <1>9, <1>10, <1>15 DEF PayloadInv

LEMMA PublishesHolds ==
    ASSUME PayloadInv, Publishes
    PROVE  PayloadInv'
<1>1. /\ pc = "publish" /\ pc' = "done" /\ state' = state /\ withVLLM' = withVLLM /\ mac' = mac
      /\ told' = told /\ garbled' = garbled /\ endless' = endless /\ metrics' = metrics /\ scrape' = scrape
      /\ reading' = reading
      /\ lost' = (\E pair \in state : NoNumber(pair[2])) /\ published' = IF lost' THEN published ELSE state
  BY DEF Publishes, Config, history
<1>2. published = {} /\ withVLLM \in BOOLEAN
  BY <1>1 DEF PayloadInv, PublishedInv, TypeOK
<1>3. TypeOK'
  <2>1. lost' \in BOOLEAN
    BY <1>1
  <2>2. \A p, q \in state : p[1] = q[1] => p = q
    BY DEF PayloadInv, TypeOK
  <2>3. \A p, q \in published' : p[1] = q[1] => p = q
    BY <1>1, <1>2, <2>2
  <2> QED BY <1>1, <2>1, <2>3 DEF PayloadInv, TypeOK
<1>4. ScrapeInv'
  BY <1>1 DEF PayloadInv, ScrapeInv
<1>5. EngineInv'
  BY <1>1 DEF PayloadInv, EngineInv
<1>6. Ready' = Ready
  BY <1>1 DEF Ready
<1>7. StateInv'
  BY <1>1, <1>6 DEF PayloadInv, StateInv
<1>8. PublishedInv'
  BY <1>1, <1>2 DEF PublishedInv
<1> QED BY <1>3, <1>4, <1>5, <1>7, <1>8 DEF PayloadInv

LEMMA StepHolds == PayloadInv /\ [Next]_vars => PayloadInv'
<1> SUFFICES ASSUME PayloadInv, [Next]_vars PROVE PayloadInv'
  OBVIOUS
<1>1. CASE Begins
  BY <1>1, BeginsHolds
<1>2. CASE HealthAnswers
  BY <1>2, HealthAnswersHolds
<1>3. CASE HealthFails
  BY <1>3, HealthFailsHolds
<1>4. CASE ModelsEnd
  BY <1>4, ModelsEndHolds
<1>5. CASE ReadsLine
  BY <1>5, ReadsLineHolds
<1>6. CASE ScrapeEnds
  BY <1>6, ScrapeEndsHolds
<1>7. CASE ScrapeFails
  BY <1>7, ScrapeFailsHolds
<1>8. CASE ReadsAccelerator
  BY <1>8, ReadsAcceleratorHolds
<1>9. CASE ReadsMemory
  BY <1>9, ReadsMemoryHolds
<1>10. CASE Publishes
  BY <1>10, PublishesHolds
<1>11. CASE UNCHANGED vars
  <2>1. UNCHANGED <<pc, withVLLM, mac, metrics, reading, state, published, lost, scrape, told, garbled, endless>>
    BY <1>11 DEF vars, history
  <2>2. TypeOK' /\ ScrapeInv' /\ EngineInv' /\ PublishedInv'
    BY <2>1 DEF PayloadInv, TypeOK, ScrapeInv, EngineInv, PublishedInv
  <2>3. Ready' = Ready
    BY <2>1 DEF Ready
  <2>4. StateInv'
    BY <2>1, <2>3 DEF PayloadInv, StateInv
  <2> QED BY <2>2, <2>4 DEF PayloadInv
<1> QED BY <1>1, <1>2, <1>3, <1>4, <1>5, <1>6, <1>7, <1>8, <1>9, <1>10, <1>11 DEF Next
-----------------------------------------------------------------------------
(***************************************************************************)
(* The theorems.                                                           *)
(***************************************************************************)
\* What is known of the state, the reading and the payload at each step of a pass,
\* for scrapes of any length and model names of any length: the invariant that
\* the other theorems follow from.
THEOREM PayloadInvHolds == Spec => []PayloadInv
<1> QED BY InitHolds, StepHolds, PTL DEF Spec

\* Every object that a pass builds names each of its fields once, and every sample
\* that the reader keeps has a name and a finite number.
THEOREM PayloadTyping == Spec => []TypeOK
<1>1. PayloadInv => TypeOK
  BY DEF PayloadInv
<1> QED BY <1>1, PayloadInvHolds, PTL

\* The reader recovers every line of every scrape, whatever the model is called:
\* its name and its number or nothing, and its labels unless one ends in a
\* backslash.  (parseLine, splitLabelsAndValue, parseLabels.)
THEOREM LinesRecoveredHolds == Spec => []LinesRecovered
<1>1. PayloadInv => LinesRecovered
  <2> SUFFICES ASSUME PayloadInv, NEW s \in ToSet(scrape) PROVE Recovered(s)
    BY DEF LinesRecovered
  <2>1. scrape \in Seq(Lines)
    BY DEF PayloadInv, ScrapeInv
  <2>2. s \in Lines
    <3> HIDE DEF Lines
    <3> QED BY <2>1 DEF ToSet
  <2> QED BY <2>2, LinesAreRecovered
<1> QED BY <1>1, PayloadInvHolds, PTL

\* A payload is lost only to a number that is none, from nvidia-smi or from the one
\* label that is read as a float: nothing that observe computes divides by zero or
\* takes a sample that is not finite.  (UsedPct, applyMetrics, PublishState.)
THEOREM LostOnlyToNoNumberHolds == Spec => []LostOnlyToNoNumber
<1>1. PayloadInv => LostOnlyToNoNumber
  BY DEF PayloadInv, StateInv, PublishedInv, LostOnlyToNoNumber
<1> QED BY <1>1, PayloadInvHolds, PTL

\* Every entity of a published payload shows what its source said in that pass, and
\* is unknown if the source said nothing.  (Client.Read, FromVLLM, parseSMI,
\* ReadMemory and the templates of sensors.go.)
THEOREM ShowsWhatWasSaidHolds == Spec => []ShowsWhatWasSaid
<1>1. PayloadInv => ShowsWhatWasSaid
  <2> SUFFICES ASSUME PayloadInv, Fresh, ~garbled
               PROVE  /\ \A id \in DOMAIN Sensors(withVLLM) : Shown(published, withVLLM, id) = Truth(told, mac)[id]
                      /\ Names(published) \subseteq {Sensors(withVLLM)[id] : id \in DOMAIN Sensors(withVLLM)}
                      /\ ~withVLLM => DOMAIN Sensors(withVLLM) \cap DOMAIN vllmSensors = {}
    BY DEF ShowsWhatWasSaid
  <2>1. withVLLM \in BOOLEAN /\ StateInv /\ pc = "done" /\ published = state
        /\ ~(\E pair \in state : NoNumber(pair[2]))
    BY DEF PayloadInv, TypeOK, PublishedInv, Fresh
  <2>2. DOMAIN Sensors(withVLLM) = OfGPU \cup OfHost \cup {"last_seen"} \cup (IF withVLLM THEN OfEngine ELSE {})
        /\ OfEngine \cap (OfGPU \cup OfHost \cup {"last_seen"}) = {}
    BY <2>1, Keys
  <2>3. Ready = DOMAIN Sensors(withVLLM)
    BY <2>1, <2>2 DEF Ready
  <2>4. \A id \in Ready : Shown(state, withVLLM, id) = Truth(told, mac)[id]
    BY <2>1 DEF StateInv
  <2>5. Names(state) \subseteq {Sensors(withVLLM)[id] : id \in Ready}
    BY <2>1 DEF StateInv
  <2>6. ~withVLLM => DOMAIN Sensors(withVLLM) \cap DOMAIN vllmSensors = {}
    BY <2>2 DEF OfEngine
  <2> QED BY <2>1, <2>3, <2>4, <2>5, <2>6
<1> QED BY <1>1, PayloadInvHolds, PTL
================================================================================
