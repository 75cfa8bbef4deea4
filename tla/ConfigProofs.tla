---------------------------- MODULE ConfigProofs ----------------------------
(***************************************************************************)
(* The configuration of the client, for every command line, every file,    *)
(* every pattern and every length of the buffer: options come from where   *)
(* they should, the command line has the last word, and a command is sent  *)
(* as it was typed.                                                        *)
(*                                                                         *)
(* What a recursive function computes is proved by its least exception:    *)
(* the numbers for which the claim fails have no least member.             *)
(***************************************************************************)
EXTENDS ClientConfig, TLAPS, SequenceTheorems, WellFoundedInduction

\* A set of numbers that is not empty has a least one.
LEMMA LeastNumber ==
    ASSUME NEW S \in SUBSET Nat, S # {}
    PROVE  /\ Min(S) \in S
           /\ \A n \in S : Min(S) <= n
<1> DEFINE Less == OpToRel(<, Nat)
<1>1. \A a, b \in Nat : a < b => <<a, b>> \in Less
  BY Zenon DEF OpToRel
<1>2. IsWellFoundedOn(Less, Nat)
  BY NatLessThanWellFounded
<1> HIDE DEF Less
<1>3. PICK x \in S : \A y \in S : ~(<<y, x>> \in Less)
  BY <1>2, WFMin
<1>4. ASSUME NEW y \in S
      PROVE  x <= y
  <2>1. x \in Nat /\ y \in Nat
    OBVIOUS
  <2>2. ~(y < x)
    BY <1>1, <1>3, <2>1, Zenon
  <2> QED
    BY <2>1, <2>2
<1> QED
  BY <1>4 DEF Min

\* Induction: a set that holds 0 and, with every number, the next one.
LEMMA Induction ==
    ASSUME NEW P, 0 \in P, \A n \in Nat : n \in P => n + 1 \in P
    PROVE  Nat \subseteq P
<1> SUFFICES ASSUME Nat \ P # {}
             PROVE  FALSE
  OBVIOUS
<1> DEFINE m == Min(Nat \ P)
<1>1. m \in Nat \ P /\ \A n \in Nat \ P : m <= n
  BY LeastNumber, Zenon
<1> HIDE DEF m
<1>2. m # 0 /\ m - 1 \in Nat /\ ~(m <= m - 1)
  BY <1>1
<1>3. m - 1 \in P
  BY <1>1, <1>2, Zenon
<1>4. (m - 1) + 1 \in P
  BY <1>2, <1>3
<1>5. (m - 1) + 1 = m
  BY <1>1
<1> QED
  BY <1>1, <1>4, <1>5

----------------------------------------------------------------------------
(* The length of a command.                                                *)

\* f counts the units of the first n words.
Counts(f, words, n) ==
    f = [k \in 0..n |-> IF k = 0 THEN 0 ELSE f[k - 1] + Size[words[k]]]

LEMMA CountExists ==
    ASSUME NEW words, NEW n \in Nat
    PROVE  \E f : Counts(f, words, n)
<1> DEFINE P == {i \in Nat : \E f : Counts(f, words, i)}
<1>1. 0 \in P
  <2>1. Counts([k \in 0..0 |-> 0], words, 0)
    BY DEF Counts
  <2> QED
    BY <2>1
<1>2. ASSUME NEW i \in Nat, i \in P
      PROVE  i + 1 \in P
  <2>1. PICK f : Counts(f, words, i)
    BY <1>2
  <2> DEFINE g == [k \in 0..(i + 1) |-> IF k = i + 1 THEN f[i] + Size[words[i + 1]] ELSE f[k]]
             h == [k \in 0..(i + 1) |-> IF k = 0 THEN 0 ELSE g[k - 1] + Size[words[k]]]
  <2>2. ASSUME NEW k \in 0..(i + 1)
        PROVE  g[k] = IF k = 0 THEN 0 ELSE g[k - 1] + Size[words[k]]
    <3>1. \A j \in 0..i : f[j] = IF j = 0 THEN 0 ELSE f[j - 1] + Size[words[j]]
      BY <2>1 DEF Counts
    <3>2. CASE k = 0
      BY <3>1, <3>2
    <3>3. CASE k # 0 /\ k # i + 1
      <4>1. k \in 0..i /\ k - 1 \in 0..i /\ k - 1 # i + 1 /\ k - 1 \in 0..(i + 1)
        BY <3>3
      <4> QED
        BY <3>1, <3>3, <4>1
    <3>4. CASE k = i + 1
      <4>1. k - 1 = i /\ k # 0 /\ i \in 0..(i + 1) /\ i # i + 1
        BY <3>4
      <4> QED
        BY <3>4, <4>1
    <3> QED
      BY <3>2, <3>3, <3>4
  <2>3. g = h
    BY <2>2, Zenon
  <2>4. Counts(g, words, i + 1)
    BY <2>3, Zenon DEF Counts
  <2> HIDE DEF g
  <2> QED
    BY <2>4
<1> HIDE DEF P
<1>3. Nat \subseteq P
  BY <1>1, <1>2, Induction
<1> QED
  BY <1>3 DEF P

\* The count of a prefix depends on the prefix only.
LEMMA CountUnique ==
    ASSUME NEW s, NEW t, NEW f, NEW g, NEW m \in Nat, NEW n \in Nat,
           Counts(f, s, m), Counts(g, t, n),
           NEW i \in Nat, i <= m, i <= n, \A k \in 1..i : s[k] = t[k]
    PROVE  f[i] = g[i]
<1> DEFINE P == {k \in Nat : k <= i => f[k] = g[k]}
<1>1. /\ \A k \in 0..m : f[k] = IF k = 0 THEN 0 ELSE f[k - 1] + Size[s[k]]
      /\ \A k \in 0..n : g[k] = IF k = 0 THEN 0 ELSE g[k - 1] + Size[t[k]]
  BY DEF Counts
<1>2. 0 \in P
  BY <1>1
<1>3. ASSUME NEW k \in Nat, k \in P
      PROVE  k + 1 \in P
  <2> SUFFICES ASSUME k + 1 <= i
               PROVE  f[k + 1] = g[k + 1]
    OBVIOUS
  <2>1. /\ k + 1 \in 0..m /\ k + 1 \in 0..n /\ k + 1 # 0 /\ (k + 1) - 1 = k
        /\ k + 1 \in 1..i /\ k <= i
    OBVIOUS
  <2>2. f[k] = g[k] /\ s[k + 1] = t[k + 1]
    BY <1>3, <2>1
  <2>3. f[k + 1] = f[k] + Size[s[k + 1]] /\ g[k + 1] = g[k] + Size[t[k + 1]]
    BY <1>1, <2>1
  <2> QED
    BY <2>2, <2>3
<1> HIDE DEF P
<1>4. Nat \subseteq P
  BY <1>2, <1>3, Induction
<1> QED
  BY <1>4 DEF P

LEMMA CountNat ==
    ASSUME NEW words \in Seq(Words), NEW f, Counts(f, words, Len(words))
    PROVE  f[Len(words)] \in Nat
<1> DEFINE n == Len(words)
           P == {k \in Nat : k <= n => f[k] \in Nat}
<1>0. n \in Nat
  OBVIOUS
<1>1. \A k \in 0..n : f[k] = IF k = 0 THEN 0 ELSE f[k - 1] + Size[words[k]]
  BY DEF Counts
<1>2. 0 \in P
  BY <1>0, <1>1
<1>3. ASSUME NEW k \in Nat, k \in P
      PROVE  k + 1 \in P
  <2> SUFFICES ASSUME k + 1 <= n
               PROVE  f[k + 1] \in Nat
    OBVIOUS
  <2>1. k + 1 \in 0..n /\ k + 1 \in 1..n /\ k + 1 # 0 /\ (k + 1) - 1 = k /\ k <= n
    BY <1>0
  <2>2. f[k] \in Nat /\ words[k + 1] \in Words
    BY <1>3, <2>1
  <2>3. Size[words[k + 1]] \in Nat
    BY <2>2, ConfigAssumption
  <2>4. f[k + 1] = f[k] + Size[words[k + 1]]
    BY <1>1, <2>1
  <2> QED
    BY <2>2, <2>3, <2>4
<1> HIDE DEF P
<1>4. Nat \subseteq P
  BY <1>2, <1>3, Induction
<1> QED
  BY <1>0, <1>4 DEF P

LEMMA LengthIsCount ==
    ASSUME NEW words, Len(words) \in Nat
    PROVE  \E f : /\ Counts(f, words, Len(words))
                  /\ Length(words) = f[Len(words)] + Len(words) - 1
<1> DEFINE n == Len(words)
           total == CHOOSE f : f = [k \in 0..n |-> IF k = 0 THEN 0 ELSE f[k - 1] + Size[words[k]]]
<1>1. \E f : f = [k \in 0..n |-> IF k = 0 THEN 0 ELSE f[k - 1] + Size[words[k]]]
  BY CountExists DEF Counts
<1>2. Counts(total, words, n)
  BY <1>1, Zenon DEF Counts
<1>3. Length(words) = total[n] + n - 1
  BY Zenon DEF Length
<1> HIDE DEF total
<1> QED
  BY <1>2, <1>3

\* A word more: its units and a space.
LEMMA LengthAppend ==
    ASSUME NEW words \in Seq(Words), NEW w \in Words
    PROVE  /\ Length(words) \in Int
           /\ Size[w] \in Nat \ {0}
           /\ Length(Append(words, w)) = Length(words) + 1 + Size[w]
<1> DEFINE n == Len(words)
           more == Append(words, w)
<1>1. /\ n \in Nat /\ Len(more) = n + 1 /\ more[n + 1] = w
      /\ \A k \in 1..n : more[k] = words[k]
  OBVIOUS
<1>2. PICK f : Counts(f, words, n) /\ Length(words) = f[n] + n - 1
  BY LengthIsCount
<1>3. PICK g : Counts(g, more, n + 1) /\ Length(more) = g[n + 1] + (n + 1) - 1
  <2>1. Len(more) = n + 1 /\ Len(more) \in Nat
    BY <1>1
  <2> HIDE DEF more, n
  <2>2. \E g : Counts(g, more, Len(more)) /\ Length(more) = g[Len(more)] + Len(more) - 1
    BY <2>1, LengthIsCount, Zenon
  <2> QED
    BY <2>1, <2>2
<1> HIDE DEF more
<1>4. f[n] \in Nat
  BY <1>2, CountNat
<1>5. f[n] = g[n]
  <2>1. n + 1 \in Nat /\ n <= n /\ n <= n + 1 /\ \A k \in 1..n : words[k] = more[k]
    BY <1>1
  <2> HIDE DEF n
  <2> QED
    BY <1>1, <1>2, <1>3, <2>1, CountUnique
<1>6. g[n + 1] = g[n] + Size[w]
  <2>1. \A k \in 0..(n + 1) : g[k] = IF k = 0 THEN 0 ELSE g[k - 1] + Size[more[k]]
    BY <1>3 DEF Counts
  <2>2. n + 1 \in 0..(n + 1) /\ n + 1 # 0 /\ (n + 1) - 1 = n
    BY <1>1
  <2> QED
    BY <1>1, <2>1, <2>2
<1>7. Size[w] \in Nat \ {0}
  BY ConfigAssumption
<1> HIDE DEF n
<1>8. Length(more) = Length(words) + 1 + Size[w]
  BY <1>1, <1>2, <1>3, <1>4, <1>5, <1>6, <1>7
<1> QED
  BY <1>1, <1>2, <1>4, <1>7, <1>8 DEF more

LEMMA LengthOne ==
    ASSUME NEW w \in Words
    PROVE  Length(<<w>>) = Size[w]
<1>1. PICK f : Counts(f, << >>, 0) /\ Length(<< >>) = f[0] + 0 - 1
  BY LengthIsCount, Len(<< >>) = 0
<1>2. f[0] = 0
  BY <1>1 DEF Counts
<1>3. << >> \in Seq(Words) /\ Append(<< >>, w) = <<w>>
  OBVIOUS
<1>4. Length(<<w>>) = Length(<< >>) + 1 + Size[w] /\ Size[w] \in Nat
  BY <1>3, LengthAppend
<1> QED
  BY <1>1, <1>2, <1>4

----------------------------------------------------------------------------
(* The matching of a host with a pattern.                                  *)

\* Piece k of the pattern fits what the cut gives it.
Fitting(p, h, cut, k) ==
    IF p[k] = "*" THEN cut[k] >= cut[k - 1]
    ELSE cut[k] = cut[k - 1] + 1 /\ p[k] \in {"?", h[cut[k]]}

\* The pattern from i on covers the host from j on.
CoversFrom(p, h, i, j) ==
    \E cut \in [0..Len(p) -> 0..Len(h)] :
        /\ cut[i - 1] = j - 1 /\ cut[Len(p)] = Len(h)
        /\ \A k \in i..Len(p) : Fitting(p, h, cut, k)

\* One step of the matcher, given the answers for the rest of the pattern.
MatchStep(m, p, h, i, j) ==
    IF i > Len(p) THEN j > Len(h)
    ELSE IF p[i] = "*" THEN \E k \in j..(Len(h) + 1) : m[i + 1][k]
    ELSE j <= Len(h) /\ p[i] \in {"?", h[j]} /\ m[i + 1][j + 1]

\* A pattern that is used up covers only the end of the host.
LEMMA CoverEnd ==
    ASSUME NEW p, NEW h, Len(p) \in Nat, Len(h) \in Nat, NEW j \in 1..(Len(h) + 1)
    PROVE  CoversFrom(p, h, Len(p) + 1, j) <=> j > Len(h)
<1> DEFINE n == Len(p)
           e == Len(h)
<1>1. (n + 1) - 1 = n /\ (j > e <=> j - 1 = e)
  OBVIOUS
<1>2. ASSUME CoversFrom(p, h, n + 1, j)
      PROVE  j - 1 = e
  <2>1. PICK cut \in [0..n -> 0..e] : cut[(n + 1) - 1] = j - 1 /\ cut[n] = e
    BY <1>2, Zenon DEF CoversFrom
  <2> QED
    BY <1>1, <2>1
<1>3. ASSUME j - 1 = e
      PROVE  CoversFrom(p, h, n + 1, j)
  <2> DEFINE cut == [k \in 0..n |-> e]
  <2>1. cut \in [0..n -> 0..e] /\ cut[(n + 1) - 1] = j - 1 /\ cut[n] = e
    BY <1>1, <1>3
  <2>2. (n + 1)..n = {}
    OBVIOUS
  <2> HIDE DEF cut, n, e
  <2>3. \A k \in (n + 1)..n : Fitting(p, h, cut, k)
    BY <2>2, Zenon
  <2> QED
    BY <2>1, <2>3, Zenon DEF CoversFrom, n, e
<1> QED
  BY <1>1, <1>2, <1>3

\* A cover of the rest from k on becomes one from i on when piece i fits
\* between.
LEMMA CoverBack ==
    ASSUME NEW p, NEW h, Len(p) \in Nat, Len(h) \in Nat,
           NEW i \in 1..Len(p), NEW j \in 1..(Len(h) + 1), NEW k \in 1..(Len(h) + 1),
           CoversFrom(p, h, i + 1, k),
           IF p[i] = "*" THEN k >= j ELSE k = j + 1 /\ p[i] \in {"?", h[j]}
    PROVE  CoversFrom(p, h, i, j)
<1> DEFINE n == Len(p)
           e == Len(h)
<1>1. PICK c \in [0..n -> 0..e] :
        /\ c[(i + 1) - 1] = k - 1 /\ c[n] = e
        /\ \A q \in (i + 1)..n : Fitting(p, h, c, q)
  BY Zenon DEF CoversFrom
<1> DEFINE cut == [c EXCEPT ![i - 1] = j - 1]
<1>2. cut \in [0..n -> 0..e] /\ cut[i - 1] = j - 1
  OBVIOUS
<1>3. /\ i \in 0..n /\ i # i - 1 /\ n \in 0..n /\ n # i - 1 /\ (i + 1) - 1 = i
      /\ \A q \in (i + 1)..n : q \in 0..n /\ q - 1 \in 0..n /\ q # i - 1 /\ q - 1 # i - 1
  OBVIOUS
<1>4. cut[i] = k - 1 /\ cut[n] = e
  BY <1>1, <1>3
<1>5. \A q \in (i + 1)..n : cut[q] = c[q] /\ cut[q - 1] = c[q - 1]
  BY <1>3
<1> HIDE DEF cut
<1>6. \A q \in (i + 1)..n : Fitting(p, h, cut, q)
  BY <1>1, <1>5, Zenon DEF Fitting
<1>7. Fitting(p, h, cut, i)
  <2>1. CASE p[i] = "*"
    BY <1>2, <1>4, <2>1 DEF Fitting
  <2>2. CASE p[i] # "*"
    <3>1. k - 1 = (j - 1) + 1 /\ k - 1 = j /\ p[i] \in {"?", h[j]}
      BY <2>2
    <3> QED
      BY <1>2, <1>4, <2>2, <3>1 DEF Fitting
  <2> QED
    BY <2>1, <2>2
<1>8. \A q \in i..n : q = i \/ q \in (i + 1)..n
  OBVIOUS
<1> HIDE DEF n, e
<1>9. \A q \in i..n : Fitting(p, h, cut, q)
  BY <1>6, <1>7, <1>8, Zenon
<1> QED
  BY <1>2, <1>4, <1>9, Zenon DEF CoversFrom, n, e

\* And a cover from i on is one of the rest behind piece i.
LEMMA CoverStep ==
    ASSUME NEW p, NEW h, Len(p) \in Nat, Len(h) \in Nat,
           NEW i \in 1..Len(p), NEW j \in 1..(Len(h) + 1),
           CoversFrom(p, h, i, j)
    PROVE  \E k \in 1..(Len(h) + 1) :
               /\ CoversFrom(p, h, i + 1, k)
               /\ IF p[i] = "*" THEN k >= j
                  ELSE k = j + 1 /\ j <= Len(h) /\ p[i] \in {"?", h[j]}
<1> DEFINE n == Len(p)
           e == Len(h)
<1>1. PICK cut \in [0..n -> 0..e] :
        /\ cut[i - 1] = j - 1 /\ cut[n] = e
        /\ \A q \in i..n : Fitting(p, h, cut, q)
  BY Zenon DEF CoversFrom
<1>2. /\ i \in 0..n /\ i \in i..n /\ (i + 1) - 1 = i
      /\ \A q \in (i + 1)..n : q \in i..n
  OBVIOUS
<1> DEFINE k == cut[i] + 1
<1>3. k \in 1..(e + 1) /\ cut[i] \in 0..e /\ cut[(i + 1) - 1] = k - 1
  BY <1>2
<1>4. \A q \in (i + 1)..n : Fitting(p, h, cut, q)
  BY <1>1, <1>2, Zenon
<1>5. CoversFrom(p, h, i + 1, k)
  <2> HIDE DEF n, e, k
  <2> QED
    BY <1>1, <1>3, <1>4, Zenon DEF CoversFrom, n, e
<1>6. Fitting(p, h, cut, i)
  BY <1>1, <1>2, Zenon
<1>7. IF p[i] = "*" THEN k >= j
      ELSE k = j + 1 /\ j <= e /\ p[i] \in {"?", h[j]}
  <2>1. CASE p[i] = "*"
    BY <1>1, <1>3, <1>6, <2>1 DEF Fitting
  <2>2. CASE p[i] # "*"
    <3>1. cut[i] = (j - 1) + 1 /\ p[i] \in {"?", h[cut[i]]}
      BY <1>1, <1>6, <2>2 DEF Fitting
    <3>2. cut[i] = j
      BY <3>1
    <3> QED
      BY <1>3, <2>2, <3>1, <3>2
  <2> QED
    BY <2>1, <2>2
<1> HIDE DEF k
<1> QED
  BY <1>3, <1>5, <1>7

\* A table of answers that is right for the rest of the pattern makes the step
\* right.
LEMMA StepRight ==
    ASSUME NEW p, NEW h, Len(p) \in Nat, Len(h) \in Nat, NEW m,
           NEW i \in 1..(Len(p) + 1), NEW j \in 1..(Len(h) + 1),
           i <= Len(p) =>
               \A k \in 1..(Len(h) + 1) : m[i + 1][k] = CoversFrom(p, h, i + 1, k)
    PROVE  MatchStep(m, p, h, i, j) = CoversFrom(p, h, i, j)
<1> DEFINE n == Len(p)
           e == Len(h)
<1>0. CoversFrom(p, h, i, j) \in BOOLEAN
  BY Zenon DEF CoversFrom
<1>1. CASE i = n + 1
  <2>1. i > n /\ (j > e) \in BOOLEAN
    BY <1>1
  <2>2. MatchStep(m, p, h, i, j) = (j > e)
    BY <2>1, Zenon DEF MatchStep
  <2>3. CoversFrom(p, h, i, j) <=> j > e
    BY <1>1, CoverEnd
  <2> QED
    BY <1>0, <2>1, <2>2, <2>3, Zenon
<1>2. CASE i # n + 1
  <2>1. i \in 1..n /\ i <= n /\ ~(i > n)
    BY <1>2
  <2>2. \A k \in 1..(e + 1) : m[i + 1][k] = CoversFrom(p, h, i + 1, k)
    BY <2>1
  <2>3. CASE p[i] = "*"
    <3>1. MatchStep(m, p, h, i, j) = \E k \in j..(e + 1) : m[i + 1][k]
      BY <2>1, <2>3, Zenon DEF MatchStep
    <3>2. \A k : k \in j..(e + 1) <=> k \in 1..(e + 1) /\ k >= j
      OBVIOUS
    <3>3. (\E k \in j..(e + 1) : m[i + 1][k])
            <=> \E k \in 1..(e + 1) : k >= j /\ CoversFrom(p, h, i + 1, k)
      BY <2>2, <3>2, Zenon
    <3>4. CoversFrom(p, h, i, j) =>
            \E k \in 1..(e + 1) : k >= j /\ CoversFrom(p, h, i + 1, k)
      BY <2>1, <2>3, CoverStep, Zenon
    <3>5. (\E k \in 1..(e + 1) : k >= j /\ CoversFrom(p, h, i + 1, k))
            => CoversFrom(p, h, i, j)
      BY <2>1, <2>3, CoverBack, Zenon
    <3> QED
      BY <1>0, <3>1, <3>3, <3>4, <3>5, Zenon
  <2>4. CASE p[i] # "*"
    <3>1. MatchStep(m, p, h, i, j) = (j <= e /\ p[i] \in {"?", h[j]} /\ m[i + 1][j + 1])
      BY <2>1, <2>4, Zenon DEF MatchStep
    <3>2. j <= e <=> j + 1 \in 1..(e + 1)
      OBVIOUS
    <3>3. (j <= e /\ p[i] \in {"?", h[j]} /\ m[i + 1][j + 1])
            <=> (j <= e /\ p[i] \in {"?", h[j]} /\ CoversFrom(p, h, i + 1, j + 1))
      BY <2>2, <3>2, Zenon
    <3>4. ASSUME CoversFrom(p, h, i, j)
          PROVE  j <= e /\ p[i] \in {"?", h[j]} /\ CoversFrom(p, h, i + 1, j + 1)
      <4>1. PICK k \in 1..(e + 1) :
                /\ CoversFrom(p, h, i + 1, k)
                /\ IF p[i] = "*" THEN k >= j
                   ELSE k = j + 1 /\ j <= e /\ p[i] \in {"?", h[j]}
        BY <2>1, <3>4, CoverStep, Zenon
      <4> QED
        BY <2>4, <4>1
    <3>5. (j <= e /\ p[i] \in {"?", h[j]} /\ CoversFrom(p, h, i + 1, j + 1))
            => CoversFrom(p, h, i, j)
      BY <2>1, <2>4, <3>2, CoverBack, Zenon
    <3> QED
      BY <1>0, <3>1, <3>3, <3>4, <3>5, Zenon
  <2> QED
    BY <2>3, <2>4
<1> QED
  BY <1>1, <1>2

\* m is a table of answers in which every entry is a step on the others.
Solves(m, p, h) ==
    m = [i \in 1..(Len(p) + 1) |-> [j \in 1..(Len(h) + 1) |-> MatchStep(m, p, h, i, j)]]

LEMMA SolutionExists ==
    ASSUME NEW p, NEW h, Len(p) \in Nat, Len(h) \in Nat
    PROVE  \E m : Solves(m, p, h)
<1> DEFINE A == 1..(Len(p) + 1)
           B == 1..(Len(h) + 1)
           m == [i \in A |-> [j \in B |-> CoversFrom(p, h, i, j)]]
<1>1. \A i \in A, j \in B : m[i][j] = CoversFrom(p, h, i, j)
  BY Zenon
<1>2. ASSUME NEW i \in A, NEW j \in B
      PROVE  CoversFrom(p, h, i, j) = MatchStep(m, p, h, i, j)
  <2>1. i <= Len(p) => i + 1 \in A
    OBVIOUS
  <2> HIDE DEF m
  <2>2. i <= Len(p) => \A k \in B : m[i + 1][k] = CoversFrom(p, h, i + 1, k)
    BY <1>1, <2>1, Zenon
  <2> QED
    BY <2>2, StepRight, Zenon
<1>3. m = [i \in A |-> [j \in B |-> MatchStep(m, p, h, i, j)]]
  BY <1>2, Zenon
<1> HIDE DEF m
<1> QED
  BY <1>3, Zenon DEF Solves

LEMMA SolutionRight ==
    ASSUME NEW p, NEW h, Len(p) \in Nat, Len(h) \in Nat, NEW m, Solves(m, p, h)
    PROVE  m[1][1] = CoversFrom(p, h, 1, 1)
<1> DEFINE n == Len(p)
           A == 1..(n + 1)
           B == 1..(Len(h) + 1)
           Right(i) == \A j \in B : m[i][j] = CoversFrom(p, h, i, j)
           P == {d \in Nat : d <= n => Right(n + 1 - d)}
<1>1. \A i \in A, j \in B : m[i][j] = MatchStep(m, p, h, i, j)
  <2> DEFINE f == [i \in A |-> [j \in B |-> MatchStep(m, p, h, i, j)]]
  <2>1. \A i \in A, j \in B : f[i][j] = MatchStep(m, p, h, i, j)
    BY Zenon
  <2>2. m = f
    BY Zenon DEF Solves
  <2> HIDE DEF f
  <2> QED
    BY <2>1, <2>2, Zenon
<1>2. ASSUME NEW i \in A, i <= n => Right(i + 1)
      PROVE  Right(i)
  BY <1>1, <1>2, StepRight, Zenon
<1> HIDE DEF Right
<1>3. 0 \in P
  <2>1. n + 1 - 0 = n + 1 /\ n + 1 \in A /\ ~(n + 1 <= n)
    OBVIOUS
  <2> QED
    BY <1>2, <2>1
<1>4. ASSUME NEW d \in Nat, d \in P
      PROVE  d + 1 \in P
  <2> SUFFICES ASSUME d + 1 <= n
               PROVE  Right(n + 1 - (d + 1))
    OBVIOUS
  <2>1. /\ n + 1 - (d + 1) \in A /\ (n + 1 - (d + 1)) + 1 = n + 1 - d
        /\ d <= n
    OBVIOUS
  <2>2. Right(n + 1 - d)
    BY <1>4, <2>1
  <2> QED
    BY <1>2, <2>1, <2>2
<1> HIDE DEF P
<1>5. Nat \subseteq P
  BY <1>3, <1>4, Induction
<1>6. n \in P /\ n <= n /\ n + 1 - n = 1 /\ 1 \in B
  BY <1>5
<1>7. Right(1)
  BY <1>6 DEF P
<1> QED
  BY <1>6, <1>7 DEF Right

\* noxssh_host_pattern_match(), with its wildcards that try every rest of the
\* host, says of every pattern and every host what Covers says.
THEOREM PatternMatchCorrect ==
    ASSUME NEW p, NEW h, Len(p) \in Nat, Len(h) \in Nat
    PROVE  HostPatternMatch(p, h) <=> Covers(p, h)
<1> DEFINE n == Len(p)
           e == Len(h)
           m == CHOOSE f : f = [i \in 1..(n + 1) |->
                   [j \in 1..(e + 1) |->
                      IF i > n THEN j > e
                      ELSE IF p[i] = "*" THEN \E k \in j..(e + 1) : f[i + 1][k]
                      ELSE j <= e /\ p[i] \in {"?", h[j]} /\ f[i + 1][j + 1]]]
<1>1. HostPatternMatch(p, h) = m[1][1]
  BY Zenon DEF HostPatternMatch
<1>2. \E f : Solves(f, p, h)
  BY SolutionExists
<1>3. Solves(m, p, h)
  BY <1>2, Zenon DEF Solves, MatchStep
<1> HIDE DEF m
<1>4. m[1][1] = CoversFrom(p, h, 1, 1)
  BY <1>3, SolutionRight
<1>5. 1 - 1 = 0
  OBVIOUS
<1>6. CoversFrom(p, h, 1, 1) <=> Covers(p, h)
  BY <1>5, Zenon DEF CoversFrom, Covers, Fitting
<1> QED
  BY <1>1, <1>4, <1>6, Zenon

----------------------------------------------------------------------------
(* The invariant.                                                          *)

\* The words behind the target's.
Typed == SubSeq(argv, start, Len(argv))

ConfigTypeOK ==
    /\ stage \in {"args", "command", "config", "identity", "ready", "exit"}
    /\ argv \in Seq(Words) /\ command \in Seq(Words) /\ lines \in Seq(Lines)
    /\ pending \in WithValue \cup {UNSET} /\ target \in Words \cup {UNSET}
    /\ start \in 0..Len(argv)
    /\ cli \subseteq Options /\ DOMAIN value = Options /\ DOMAIN cfg = Options

\* No option names the host, and none the user: user@ is set after them.
TargetOpen ==
    /\ "host" \notin cli
    /\ stage \in {"args", "command"} => "user" \notin cli

\* While words join the command it is what was typed; once main() is back at
\* its options, what was typed has filled the buffer.
CommandGrows ==
    /\ stage = "command" => start # 0 /\ command = Typed /\ Length(command) <= ROOM
    /\ stage = "args" /\ start # 0 => Length(Typed) >= ROOM

\* The last Host line selects the target.
LastHostSelects ==
    \E b \in 1..Len(lines) :
        /\ lines[b].key = "Host" /\ Selects(lines[b].val)
        /\ \A k \in (b + 1)..Len(lines) : lines[k].key # "Host"

\* The value of the first line that offers one.
FirstOffer(o) ==
    IF Offers(o) = {} THEN UNSET
    ELSE FileValue(lines[Min(Offers(o))].key, lines[Min(Offers(o))].val)

\* What is known of the file is what its lines so far say.
FileRead ==
    /\ stage \in {"args", "command"} => lines = <<>>
    /\ stage \in {"config", "identity", "ready"} =>
         target \in Words /\ Parts[target] # UNSET
    /\ active <=> LastHostSelects
    /\ \A o \in Options : cfg[o] = FirstOffer(o)

\* An option that nobody set has its default until the merge.
DefaultsKept ==
    stage \in {"args", "command", "config"} =>
        \A o \in Options \ cli : value[o] = Default[o]

\* The key that the merged options name.
KeyChosen ==
    stage = "ready" =>
        /\ value["identity"] # UNSET => key = value["identity"]
        /\ value["identity"] = UNSET /\ value["seed"] # UNSET => key = value["seed"]
        /\ value["identity"] = UNSET /\ value["seed"] = UNSET =>
             key \in {UNSET} \cup {DefaultPaths[k] : k \in 1..Len(DefaultPaths)}

\* Every open option has its value after the merge.
OptionsMerged ==
    stage \in {"identity", "ready"} =>
        \A o \in Options \ cli :
           value[o] = IF o = "identity" /\ "seed" \in cli THEN UNSET ELSE Expected(o)

ConfigInv ==
    /\ ConfigTypeOK
    /\ TargetOpen
    /\ CommandGrows
    /\ CommandVerbatim
    /\ FileRead
    /\ DefaultsKept
    /\ OptionsMerged
    /\ KeyChosen

----------------------------------------------------------------------------
(* The arguments.                                                          *)

\* An option with a value is one of the options, and never user or host.
LEMMA OptionKnown ==
    ASSUME NEW w \in WithValue
    PROVE  OptionOf(w) \in Options \ {"user", "host"}
<1>1. CASE w \in DOMAIN Numeric
  <2>1. OptionOf(w) = Numeric[w].o
    BY <1>1 DEF OptionOf, Numeric, Text, Hex, StrictMode
  <2>2. Numeric[w].o \notin {"user", "host"}
    BY <1>1 DEF Numeric
  <2> QED
    BY <1>1, <2>1, <2>2, Zenon DEF Options
<1>2. CASE w \in DOMAIN Text
  <2>1. OptionOf(w) = Text[w]
    BY <1>2 DEF OptionOf, Numeric, Text, Hex, StrictMode
  <2>2. Text[w] \notin {"user", "host"}
    BY <1>2 DEF Text
  <2> QED
    BY <1>2, <2>1, <2>2, Zenon DEF Options
<1>3. CASE w \in DOMAIN Hex
  <2>1. OptionOf(w) = Hex[w]
    BY <1>3 DEF OptionOf, Numeric, Text, Hex, StrictMode
  <2>2. Hex[w] \notin {"user", "host"}
    BY <1>3 DEF Hex
  <2> QED
    BY <1>3, <2>1, <2>2, Zenon DEF Options
<1>4. CASE w = StrictMode
  <2>1. OptionOf(w) = "strict"
    BY <1>4 DEF OptionOf, Numeric, Text, Hex, StrictMode
  <2>2. "--strict-host-key" \in DOMAIN Flags /\ Flags["--strict-host-key"].o = "strict"
    BY DEF Flags
  <2>3. "strict" \in Options
    BY <2>2, Zenon DEF Options
  <2> QED
    BY <2>1, <2>3
<1> QED
  BY <1>1, <1>2, <1>3, <1>4, Zenon DEF WithValue

LEMMA FlagKnown ==
    ASSUME NEW w \in DOMAIN Flags
    PROVE  Flags[w].o \in Options \ {"user", "host"}
<1>1. Flags[w].o \notin {"user", "host"}
  BY DEF Flags
<1> QED
  BY <1>1, Zenon DEF Options

\* What a word at the options can do: set an option other than the user and
\* the host and stay at the options, or begin the command, or neither.
LEMMA WordTaken ==
    ASSUME NEW w \in Words, ConfigTypeOK, TakeWord(w)
    PROVE  /\ \/ UNCHANGED <<value, cli>>
              \/ /\ stage' = "args"
                 /\ \E o \in Options \ {"user", "host"} : \E v : Set(o, v)
           /\ pending' \in WithValue \cup {UNSET} /\ target' \in Words \cup {UNSET}
           /\ \/ stage' \in {"args", "exit"} /\ UNCHANGED <<start, command>>
              \/ /\ start = 0 /\ start' = Len(argv) + 1 /\ command' = <<w>>
                 /\ stage' = IF Size[w] < ROOM THEN "command" ELSE "args"
<1>0. pending \in WithValue \cup {UNSET} /\ target \in Words \cup {UNSET}
  BY DEF ConfigTypeOK
<1>1. CASE TakeValue(w)
  <2>1. pending \in WithValue
    BY <1>0, <1>1, Zenon DEF TakeValue
  <2>2. OptionOf(pending) \in Options \ {"user", "host"}
    BY <2>1, OptionKnown
  <2>3. \/ stage' = "exit" /\ UNCHANGED <<value, cli>>
        \/ stage' = "args" /\ Set(OptionOf(pending), ValueOf(pending, w))
    BY <1>1, Zenon DEF TakeValue, Fail
  <2>4. pending' = UNSET /\ UNCHANGED <<target, start, command>>
    BY <1>1, Zenon DEF TakeValue
  <2> QED
    BY <1>0, <2>2, <2>3, <2>4
<1>2. CASE TakeOption(w)
  BY <1>0, <1>2 DEF TakeOption
<1>3. CASE TakeFlag(w)
  <2>1. Flags[w].o \in Options \ {"user", "host"}
    BY <1>3, FlagKnown DEF TakeFlag
  <2>2. stage' = "args" /\ Set(Flags[w].o, Flags[w].v) /\ UNCHANGED <<pending, target, start, command>>
    BY <1>3, Zenon DEF TakeFlag
  <2> QED
    BY <1>0, <2>1, <2>2
<1>4. CASE TakeLast(w)
  BY <1>0, <1>4 DEF TakeLast, Fail
<1>5. CASE TakeTarget(w)
  BY <1>0, <1>5 DEF TakeTarget
<1>6. CASE TakeCommand(w)
  <2>1. /\ UNCHANGED <<pending, value, cli, target>> /\ start = 0
        /\ start' = Len(argv) + 1 /\ command' = <<w>>
        /\ stage' = IF Size[w] < ROOM THEN "command" ELSE "args"
    BY <1>6, Zenon DEF TakeCommand
  <2> QED
    BY <1>0, <2>1
<1>7. CASE SkipWord(w)
  BY <1>0, <1>7 DEF SkipWord
<1> QED
  BY <1>1, <1>2, <1>3, <1>4, <1>5, <1>6, <1>7 DEF TakeWord

\* An argument joins the command or is taken at the options; a word that is
\* joined to the command fits with its space.
LEMMA ArgumentTaken ==
    ASSUME ConfigTypeOK, NextArgument
    PROVE  \E w \in Words :
               /\ argv' = Append(argv, w)
               /\ UNCHANGED <<lines, active, cfg, key>>
               /\ \/ /\ stage = "command" /\ Fits(w) /\ command' = Append(command, w)
                     /\ UNCHANGED <<stage, pending, value, cli, target, start>>
                  \/ /\ stage = "args" \/ (stage = "command" /\ ~Fits(w))
                     /\ TakeWord(w)
<1>1. PICK w \in Words :
        /\ argv' = Append(argv, w)
        /\ \/ stage = "args" /\ TakeWord(w)
           \/ stage = "command" /\ JoinCommand(w)
  BY Zenon DEF NextArgument
<1>2. UNCHANGED <<lines, active, cfg, key>>
  BY DEF NextArgument, fileVars
<1>3. JoinCommand(w) =>
        \/ /\ Fits(w) /\ command' = Append(command, w)
           /\ UNCHANGED <<stage, pending, value, cli, target, start>>
        \/ ~Fits(w) /\ TakeWord(w)
  BY Zenon DEF JoinCommand
<1> QED
  BY <1>1, <1>2, <1>3, Zenon

LEMMA TypeInit ==
    Init => ConfigTypeOK /\ TargetOpen
<1> SUFFICES ASSUME Init
             PROVE  ConfigTypeOK /\ TargetOpen
  OBVIOUS
<1>1. DOMAIN value = Options
  BY DEF Init, Default
<1>2. /\ stage = "args" /\ argv = <<>> /\ command = <<>> /\ lines = <<>> /\ start = 0
      /\ pending = UNSET /\ target = UNSET /\ cli = {} /\ DOMAIN cfg = Options
  BY DEF Init
<1>3. <<>> \in Seq(Words) /\ <<>> \in Seq(Lines) /\ 0 \in 0..Len(<<>>)
  OBVIOUS
<1> QED
  BY <1>1, <1>2, <1>3 DEF ConfigTypeOK, TargetOpen

LEMMA TypeNext ==
    ConfigTypeOK /\ TargetOpen /\ [Next]_vars => ConfigTypeOK' /\ TargetOpen'
<1> SUFFICES ASSUME ConfigTypeOK, TargetOpen, [Next]_vars
             PROVE  ConfigTypeOK' /\ TargetOpen'
  OBVIOUS
<1>0. /\ argv \in Seq(Words) /\ command \in Seq(Words) /\ lines \in Seq(Lines)
      /\ start \in 0..Len(argv) /\ cli \subseteq Options
      /\ DOMAIN value = Options /\ DOMAIN cfg = Options
      /\ pending \in WithValue \cup {UNSET} /\ target \in Words \cup {UNSET}
      /\ stage \in {"args", "command", "config", "identity", "ready", "exit"}
      /\ "host" \notin cli
      /\ stage \in {"args", "command"} => "user" \notin cli
  BY DEF ConfigTypeOK, TargetOpen
<1>1. CASE NextArgument
  <2>1. PICK w \in Words :
          /\ argv' = Append(argv, w)
          /\ UNCHANGED <<lines, active, cfg, key>>
          /\ \/ /\ stage = "command" /\ Fits(w) /\ command' = Append(command, w)
                /\ UNCHANGED <<stage, pending, value, cli, target, start>>
             \/ /\ stage = "args" \/ (stage = "command" /\ ~Fits(w))
                /\ TakeWord(w)
    BY <1>1, ArgumentTaken, Zenon
  <2>2. argv' \in Seq(Words) /\ start \in 0..Len(argv') /\ Len(argv') = Len(argv) + 1
    BY <1>0, <2>1
  <2>3. CASE stage = "command" /\ command' = Append(command, w)
             /\ UNCHANGED <<stage, pending, value, cli, target, start>>
    <3>1. command' \in Seq(Words)
      BY <1>0, <2>3
    <3> QED
      BY <1>0, <2>1, <2>2, <2>3, <3>1 DEF ConfigTypeOK, TargetOpen
  <2>4. CASE stage \in {"args", "command"} /\ TakeWord(w)
    <3>1. /\ \/ UNCHANGED <<value, cli>>
             \/ /\ stage' = "args"
                /\ \E o \in Options \ {"user", "host"} : \E v : Set(o, v)
          /\ pending' \in WithValue \cup {UNSET} /\ target' \in Words \cup {UNSET}
          /\ \/ stage' \in {"args", "exit"} /\ UNCHANGED <<start, command>>
             \/ /\ start = 0 /\ start' = Len(argv) + 1 /\ command' = <<w>>
                /\ stage' = IF Size[w] < ROOM THEN "command" ELSE "args"
      BY <2>4, WordTaken, Zenon
    <3>2. /\ cli' \subseteq Options /\ DOMAIN value' = Options
          /\ "host" \notin cli' /\ "user" \notin cli'
      BY <1>0, <2>4, <3>1 DEF Set
    <3>3. <<w>> \in Seq(Words) /\ Len(argv) + 1 \in 0..Len(argv')
      BY <1>0, <2>2
    <3>4. command' \in Seq(Words) /\ start' \in 0..Len(argv')
      BY <1>0, <2>2, <3>1, <3>3, Zenon
    <3>5. stage' \in {"args", "command", "exit"}
      BY <3>1, Zenon
    <3> QED
      BY <1>0, <2>1, <2>2, <3>1, <3>2, <3>4, <3>5 DEF ConfigTypeOK, TargetOpen
  <2> QED
    BY <2>1, <2>3, <2>4
<1>2. CASE Arguments
  <2>1. UNCHANGED <<argv, pending, target, start, command, lines, active, cfg, key>>
    BY <1>2 DEF Arguments, fileVars
  <2>2. \/ stage' = "exit" /\ UNCHANGED <<value, cli>>
        \/ /\ stage' = "config"
           /\ UNCHANGED <<value, cli>> \/ Set("user", Parts[target].user)
    BY <1>2, Zenon DEF Arguments, Fail
  <2>3. "user" \in Options
    BY Zenon DEF Options
  <2>4. cli' \subseteq Options /\ DOMAIN value' = Options /\ "host" \notin cli'
    BY <1>0, <2>2, <2>3 DEF Set
  <2> QED
    BY <1>0, <2>1, <2>2, <2>4 DEF ConfigTypeOK, TargetOpen
<1>3. CASE NextLine
  <2>1. PICK l \in Lines : lines' = Append(lines, l) /\ (HostLine(l) \/ OptionLine(l))
    BY <1>3, Zenon DEF NextLine
  <2>2. lines' \in Seq(Lines)
    BY <1>0, <2>1
  <2>3. DOMAIN cfg' = Options
    BY <1>0, <2>1 DEF HostLine, OptionLine
  <2>4. UNCHANGED <<stage, argv, pending, cli, target, start, command, value>>
    BY <1>3 DEF NextLine, argVars
  <2> QED
    BY <1>0, <2>2, <2>3, <2>4 DEF ConfigTypeOK, TargetOpen
<1>4. CASE Merge
  <2>1. DOMAIN value' = Options
    BY <1>4 DEF Merge
  <2>2. /\ stage' = "identity"
        /\ UNCHANGED <<argv, pending, cli, target, start, command, lines, active, cfg, key>>
    BY <1>4 DEF Merge, argVars, fileVars
  <2> QED
    BY <1>0, <2>1, <2>2 DEF ConfigTypeOK, TargetOpen
<1>5. CASE NamedIdentity \/ GivenSeed \/ DefaultIdentity
  <2>1. /\ stage' \in {"ready", "exit"}
        /\ UNCHANGED <<argv, pending, cli, target, start, command, lines, active, cfg, value>>
    BY <1>5 DEF NamedIdentity, GivenSeed, DefaultIdentity, argVars, fileVars
  <2> QED
    BY <1>0, <2>1 DEF ConfigTypeOK, TargetOpen
<1>6. CASE UNCHANGED vars
  BY <1>6 DEF vars, ConfigTypeOK, TargetOpen
<1> QED
  BY <1>1, <1>2, <1>3, <1>4, <1>5, <1>6 DEF Next

----------------------------------------------------------------------------
(* The command line wins.                                                  *)

LEMMA WinsStep ==
    ASSUME ConfigTypeOK, TargetOpen, [Next]_vars, stage # "args", stage' # "args",
           NEW o \in cli
    PROVE  value'[o] = value[o]
<1>0. /\ o \in Options /\ DOMAIN value = Options /\ o # "host"
      /\ stage \in {"args", "command"} => o # "user"
  BY DEF ConfigTypeOK, TargetOpen
<1>1. CASE NextArgument
  <2>1. PICK w \in Words :
          \/ UNCHANGED value
          \/ TakeWord(w)
    BY <1>1, ArgumentTaken
  <2>2. TakeWord(w) => UNCHANGED value
    BY WordTaken
  <2> QED
    BY <2>1, <2>2
<1>2. CASE Arguments
  <2>1. stage = "command"
    BY <1>2 DEF Arguments
  <2>2. UNCHANGED value \/ value' = [value EXCEPT !["user"] = Parts[target].user]
    BY <1>2, Zenon DEF Arguments, Fail, Set
  <2> QED
    BY <1>0, <2>1, <2>2
<1>3. CASE Merge
  <2> DEFINE read == [value EXCEPT !["host"] = Parts[target].host]
  <2>1. value'[o] = IF FromFile(o) /\ cfg[o] # UNSET THEN cfg[o] ELSE read[o]
    BY <1>0, <1>3, Zenon DEF Merge
  <2>2. ~FromFile(o)
    BY DEF FromFile
  <2>3. read[o] = value[o]
    BY <1>0
  <2> QED
    BY <2>1, <2>2, <2>3
<1>4. CASE NextLine \/ NamedIdentity \/ GivenSeed \/ DefaultIdentity
  BY <1>4 DEF NextLine, NamedIdentity, GivenSeed, DefaultIdentity
<1>5. CASE UNCHANGED vars
  BY <1>5 DEF vars
<1> QED
  BY <1>1, <1>2, <1>3, <1>4, <1>5 DEF Next

----------------------------------------------------------------------------
(* The command is what was typed.                                          *)

\* One word more behind the first of the command.
LEMMA TypedGrows ==
    ASSUME NEW a \in Seq(Words), NEW w \in Words, NEW b \in 1..(Len(a) + 1)
    PROVE  /\ SubSeq(a, b, Len(a)) \in Seq(Words)
           /\ SubSeq(Append(a, w), b, Len(Append(a, w))) = Append(SubSeq(a, b, Len(a)), w)
<1> DEFINE n == Len(a)
           more == Append(a, w)
           old == SubSeq(a, b, n)
           new == SubSeq(more, b, n + 1)
<1>1. /\ n \in Nat /\ Len(more) = n + 1 /\ more[n + 1] = w /\ more \in Seq(Words)
      /\ \A i \in 1..n : more[i] = a[i]
  OBVIOUS
<1>2. /\ \A i \in b..n : a[i] \in Words
      /\ \A i \in b..(n + 1) : more[i] \in Words
  BY <1>1
<1> HIDE DEF more
<1>3. /\ old \in Seq(Words) /\ Len(old) = n - b + 1
      /\ \A i \in 1..(n - b + 1) : old[i] = a[b + i - 1]
  BY <1>1, <1>2, SubSeqProperties
<1>4. /\ new \in Seq(Words) /\ Len(new) = (n + 1) - b + 1
      /\ \A i \in 1..((n + 1) - b + 1) : new[i] = more[b + i - 1]
  BY <1>1, <1>2, SubSeqProperties
<1> HIDE DEF old, new, n
<1>5. /\ Append(old, w) \in Seq(Words) /\ Len(Append(old, w)) = Len(old) + 1
      /\ \A i \in 1..Len(old) : Append(old, w)[i] = old[i]
      /\ Append(old, w)[Len(old) + 1] = w
  <2>1. old \in Seq(Words)
    BY <1>3
  <2> QED
    BY <2>1
<1>6. b \in 1..(n + 1)
  BY DEF n
<1>7. Len(new) = Len(Append(old, w))
  BY <1>1, <1>3, <1>4, <1>5, <1>6
<1>8. ASSUME NEW i \in 1..Len(new)
      PROVE  new[i] = Append(old, w)[i]
  <2>1. CASE i = Len(old) + 1
    <3>1. b + i - 1 = n + 1 /\ i \in 1..((n + 1) - b + 1)
      BY <1>1, <1>3, <1>4, <1>6, <2>1
    <3> QED
      BY <1>1, <1>4, <1>5, <2>1, <3>1
  <2>2. CASE i # Len(old) + 1
    <3>1. /\ b + i - 1 \in 1..n /\ i \in 1..((n + 1) - b + 1)
          /\ i \in 1..(n - b + 1) /\ i \in 1..Len(old)
      BY <1>1, <1>3, <1>4, <1>6, <2>2
    <3> QED
      BY <1>1, <1>3, <1>4, <1>5, <3>1
  <2> QED
    BY <2>1, <2>2
<1>9. new = Append(old, w)
  BY <1>4, <1>5, <1>7, <1>8, SeqEqual, Zenon
<1> QED
  BY <1>1, <1>3, <1>9 DEF new, old, more, n

LEMMA CommandInit ==
    Init => CommandGrows /\ CommandVerbatim
  BY DEF Init, CommandGrows, CommandVerbatim

LEMMA CommandNext ==
    ASSUME ConfigTypeOK, CommandGrows, CommandVerbatim, [Next]_vars
    PROVE  CommandGrows' /\ CommandVerbatim'
<1>0. /\ argv \in Seq(Words) /\ command \in Seq(Words) /\ start \in 0..Len(argv)
      /\ ROOM \in Nat \ {0}
  BY ConfigAssumption DEF ConfigTypeOK
<1>1. CASE NextArgument
  <2>1. PICK w \in Words :
          /\ argv' = Append(argv, w)
          /\ \/ /\ stage = "command" /\ Fits(w) /\ command' = Append(command, w)
                /\ UNCHANGED <<stage, start>>
             \/ /\ stage = "args" \/ (stage = "command" /\ ~Fits(w))
                /\ \/ stage' \in {"args", "exit"} /\ UNCHANGED <<start, command>>
                   \/ /\ start = 0 /\ start' = Len(argv) + 1 /\ command' = <<w>>
                      /\ stage' = IF Size[w] < ROOM THEN "command" ELSE "args"
    BY <1>1, ArgumentTaken, WordTaken
  <2>2. Size[w] \in Nat \ {0}
    BY ConfigAssumption
  <2>3. CASE stage = "command" /\ Fits(w) /\ command' = Append(command, w)
             /\ UNCHANGED <<stage, start>>
    <3>1. start # 0 /\ start \in 1..Len(argv) /\ command = Typed
      BY <1>0, <2>3 DEF CommandGrows
    <3>2. Typed' = Append(Typed, w)
      BY <1>0, <2>1, <2>3, <3>1, TypedGrows DEF Typed
    <3>3. command' = Typed' /\ start' # 0
      BY <2>3, <3>1, <3>2
    <3>4. Length(command) \in Int /\ Length(Append(command, w)) = Length(command) + 1 + Size[w]
      BY <1>0, LengthAppend
    <3>5. Length(Append(command, w)) <= ROOM
      BY <1>0, <2>2, <2>3, <3>4 DEF Fits
    <3>6. Length(command)' = Length(Append(command, w))
      BY <2>3 DEF Length
    <3>7. CommandGrows'
      BY <2>3, <3>3, <3>5, <3>6 DEF CommandGrows
    <3>8. CommandVerbatim'
      BY <2>3, <3>3, <3>5, <3>6 DEF CommandVerbatim, Typed
    <3> QED
      BY <3>7, <3>8
  <2>4. CASE /\ stage = "args" \/ (stage = "command" /\ ~Fits(w))
             /\ stage' \in {"args", "exit"} /\ UNCHANGED <<start, command>>
    <3>1. CASE start = 0
      BY <2>4, <3>1 DEF CommandGrows, CommandVerbatim
    <3>2. CASE start # 0
      <4>1. start \in 1..Len(argv) /\ start' # 0
        BY <1>0, <2>4, <3>2
      <4>2. Typed' = Append(Typed, w) /\ Typed \in Seq(Words)
        BY <1>0, <2>1, <2>4, <4>1, TypedGrows DEF Typed
      <4>3. /\ Length(Typed) \in Int
            /\ Length(Append(Typed, w)) = Length(Typed) + 1 + Size[w]
        BY <4>2, LengthAppend
      <4>4. Length(Append(Typed, w)) > ROOM
        <5>1. CASE stage = "args"
          BY <1>0, <2>2, <3>2, <4>3, <5>1 DEF CommandGrows
        <5>2. CASE stage = "command" /\ ~Fits(w)
          <6>1. command = Typed
            BY <5>2 DEF CommandGrows
          <6> QED
            BY <1>0, <2>2, <4>3, <5>2, <6>1 DEF Fits
        <5> QED
          BY <2>4, <5>1, <5>2
      <4>5. Length(Typed)' = Length(Append(Typed, w))
        BY <4>2 DEF Length
      <4>6. Length(Append(Typed, w)) \in Int /\ ROOM \in Int
        BY <1>0, <2>2, <4>3
      <4>7. CommandGrows'
        <5>1. Length(Typed)' >= ROOM
          BY <4>4, <4>5, <4>6
        <5> QED
          BY <2>4, <5>1 DEF CommandGrows
      <4>8. CommandVerbatim'
        <5>1. ~(Length(Typed)' <= ROOM)
          BY <4>4, <4>5, <4>6
        <5>2. (Len(command) > 1 => Length(command) <= ROOM)'
          BY <2>4, <3>2 DEF CommandVerbatim, Length
        <5> QED
          BY <5>1, <5>2 DEF CommandVerbatim, Typed
      <4> QED
        BY <4>7, <4>8
    <3> QED
      BY <3>1, <3>2
  <2>5. CASE /\ start = 0 /\ start' = Len(argv) + 1 /\ command' = <<w>>
             /\ stage' = IF Size[w] < ROOM THEN "command" ELSE "args"
    <3>1. Typed' = <<w>> /\ start' # 0
      <4>1. SubSeq(argv, Len(argv) + 1, Len(argv)) = << >>
        BY <1>0, SubSeqEmpty
      <4>2. SubSeq(Append(argv, w), Len(argv) + 1, Len(Append(argv, w)))
              = Append(SubSeq(argv, Len(argv) + 1, Len(argv)), w)
        BY <1>0, TypedGrows
      <4>3. Append(<< >>, w) = <<w>> /\ Len(argv) + 1 # 0
        BY <1>0
      <4> QED
        BY <2>1, <2>5, <4>1, <4>2, <4>3, Zenon DEF Typed
    <3>2. Length(<<w>>) = Size[w]
      BY LengthOne
    <3>3. Length(Typed)' = Size[w] /\ Length(command)' = Size[w]
      BY <2>5, <3>1, <3>2 DEF Length
    <3>4. Size[w] < ROOM \/ Size[w] >= ROOM
      BY <1>0, <2>2
    <3>5. Size[w] < ROOM => Size[w] <= ROOM
      BY <1>0, <2>2
    <3>6. CommandGrows'
      BY <2>5, <3>1, <3>3, <3>4, <3>5 DEF CommandGrows
    <3>7. CommandVerbatim'
      <4>1. ~(Len(command') > 1)
        BY <2>5
      <4> QED
        BY <2>5, <3>1, <4>1, Zenon DEF CommandVerbatim, Typed
    <3> QED
      BY <3>6, <3>7
  <2> QED
    BY <2>1, <2>3, <2>4, <2>5
<1>2. CASE /\ stage' \notin {"args", "command"} \/ UNCHANGED stage
           /\ UNCHANGED <<argv, start, command>>
  <2>1. UNCHANGED <<Typed, Length(Typed), Length(command)>>
    BY <1>2 DEF Typed, Length
  <2> QED
    BY <1>2, <2>1 DEF CommandGrows, CommandVerbatim, Typed
<1>3. CASE Arguments
  BY <1>2, <1>3 DEF Arguments, Fail
<1>4. CASE NextLine \/ Merge \/ NamedIdentity \/ GivenSeed \/ DefaultIdentity
  BY <1>2, <1>4 DEF NextLine, Merge, NamedIdentity, GivenSeed, DefaultIdentity, argVars
<1>5. CASE UNCHANGED vars
  BY <1>2, <1>5 DEF vars
<1> QED
  BY <1>1, <1>3, <1>4, <1>5 DEF Next

----------------------------------------------------------------------------
(* The file.                                                               *)

\* noxssh_host_list_matches() decides as Selects does.
LEMMA ListMatchCorrect ==
    ASSUME NEW patterns \in Seq([negate : BOOLEAN, text : Seq(STRING)]),
           Parts[target].text \in Seq(STRING)
    PROVE  HostListMatches(patterns, Parts[target].text) <=> Selects(patterns)
<1> DEFINE h == Parts[target].text
           K == 1..Len(patterns)
           Hit(k) == HostPatternMatch(patterns[k].text, h)
<1>1. ASSUME NEW k \in K
      PROVE  Hit(k) <=> Covers(patterns[k].text, h)
  <2>1. patterns[k] \in [negate : BOOLEAN, text : Seq(STRING)]
    BY ElementOfSeq, Zenon
  <2>2. patterns[k].text \in Seq(STRING)
    BY <2>1
  <2>3. Len(patterns[k].text) \in Nat /\ Len(h) \in Nat
    BY <2>2
  <2> QED
    BY <2>3, PatternMatchCorrect, Zenon
<1>2. Selects(patterns) <=>
        /\ \E k \in K : ~patterns[k].negate /\ Covers(patterns[k].text, h)
        /\ \A k \in K : patterns[k].negate => ~Covers(patterns[k].text, h)
  BY Zenon DEF Selects
<1>3. HostListMatches(patterns, h) <=>
        /\ \E k \in K : Hit(k)
        /\ \A k \in K : Hit(k) => ~patterns[k].negate
  BY Zenon DEF HostListMatches
<1> HIDE DEF Hit, h, K
<1> QED
  BY <1>1, <1>2, <1>3, Zenon DEF h

\* A set of numbers has only one least.
LEMMA LeastUnique ==
    ASSUME NEW S \in SUBSET Nat, NEW n \in S, \A k \in S : n <= k
    PROVE  Min(S) = n
<1>1. Min(S) \in S /\ Min(S) <= n
  BY LeastNumber
<1>2. n <= Min(S) /\ Min(S) \in Nat /\ n \in Nat
  BY <1>1
<1> HIDE DEF Min
<1> QED
  BY <1>1, <1>2

LEMMA SelectsKept ==
    ASSUME UNCHANGED target, NEW patterns
    PROVE  Selects(patterns)' <=> Selects(patterns)
  BY DEF Selects

\* A step that reads no line leaves what the lines say.
LEMMA LinesKept ==
    ASSUME lines \in Seq(Lines), UNCHANGED lines, UNCHANGED target \/ lines = <<>>
    PROVE  /\ LastHostSelects' <=> LastHostSelects
           /\ \A o : Offers(o)' = Offers(o) /\ FirstOffer(o)' = FirstOffer(o)
<1>1. CASE lines = <<>>
  <2>1. 1..Len(lines) = {} /\ 1..Len(lines)' = {}
    BY <1>1
  <2>2. ~LastHostSelects /\ ~LastHostSelects'
    BY <2>1, Zenon DEF LastHostSelects
  <2>3. \A o : Offers(o) = {} /\ Offers(o)' = {}
    BY <2>1, Zenon DEF Offers
  <2> QED
    BY <2>2, <2>3 DEF FirstOffer
<1>2. CASE UNCHANGED target
  <2>1. \A patterns : Selects(patterns)' <=> Selects(patterns)
    BY <1>2, SelectsKept, Zenon
  <2>2. \A i : Governs(i)' <=> Governs(i)
    BY <2>1 DEF Governs
  <2>3. LastHostSelects' <=> LastHostSelects
    BY <2>1 DEF LastHostSelects
  <2>4. \A o : Offers(o)' = Offers(o)
    BY <2>2 DEF Offers
  <2> QED
    BY <2>3, <2>4 DEF FirstOffer
<1> QED
  BY <1>1, <1>2

\* What one more line changes: a Host line opens or closes the block, another
\* is an offer for its option when the block is open.
LEMMA LineAdded ==
    ASSUME lines \in Seq(Lines), UNCHANGED target,
           NEW l \in Lines, lines' = Append(lines, l)
    PROVE  /\ l.key = "Host" => (LastHostSelects' <=> Selects(l.val))
           /\ l.key # "Host" => (LastHostSelects' <=> LastHostSelects)
           /\ \A o : Offers(o) \subseteq 1..Len(lines)
           /\ \A o : Offers(o)' = Offers(o) \cup
                (IF /\ l.key # "Host" /\ LastHostSelects
                    /\ FileOption(l.key) = o /\ FileValue(l.key, l.val) # UNSET
                 THEN {Len(lines) + 1} ELSE {})
<1> DEFINE n == Len(lines)
           Host(k) == lines[k].key = "Host"
           Sel(k) == Selects(lines[k].val)
           Host1(k) == lines'[k].key = "Host"
           Sel1(k) == Selects(lines'[k].val)
<1>1. /\ n \in Nat /\ Len(lines') = n + 1 /\ lines'[n + 1] = l
      /\ \A i \in 1..n : lines'[i] = lines[i]
  OBVIOUS
<1>2. /\ \A k \in 1..n : (Host1(k) <=> Host(k)) /\ (Sel1(k) <=> Sel(k))
      /\ Host1(n + 1) <=> l.key = "Host"
      /\ Sel1(n + 1) <=> Selects(l.val)
  BY <1>1, Zenon
<1>3. \A patterns : Selects(patterns)' <=> Selects(patterns)
  BY SelectsKept, Zenon
<1>4. LastHostSelects' <=>
        \E b \in 1..(n + 1) : Host1(b) /\ Sel1(b) /\ \A k \in (b + 1)..(n + 1) : ~Host1(k)
  BY <1>1, <1>3 DEF LastHostSelects
<1>5. LastHostSelects <=>
        \E b \in 1..n : Host(b) /\ Sel(b) /\ \A k \in (b + 1)..n : ~Host(k)
  BY Zenon DEF LastHostSelects
<1>6. \A i : Governs(i)' <=>
        \E b \in 1..(i - 1) : Host1(b) /\ Sel1(b) /\ \A k \in (b + 1)..i : ~Host1(k)
  BY <1>3 DEF Governs
<1>7. \A i : Governs(i) <=>
        \E b \in 1..(i - 1) : Host(b) /\ Sel(b) /\ \A k \in (b + 1)..i : ~Host(k)
  BY Zenon DEF Governs
<1>8. ASSUME NEW i \in 1..n
      PROVE  Governs(i)' <=> Governs(i)
  <2>1. \A b \in 1..(i - 1) : b \in 1..n /\ \A k \in (b + 1)..i : k \in 1..n
    BY <1>1
  <2> HIDE DEF Host, Sel, Host1, Sel1
  <2> QED
    BY <1>2, <1>6, <1>7, <2>1, Zenon
<1>9. CASE l.key = "Host"
  <2>1. LastHostSelects' <=> Selects(l.val)
    <3>1. /\ n + 1 \in 1..(n + 1) /\ ((n + 1) + 1)..(n + 1) = {}
          /\ \A b \in 1..(n + 1) : b = n + 1 \/ n + 1 \in (b + 1)..(n + 1)
      BY <1>1
    <3> HIDE DEF Host, Sel, Host1, Sel1
    <3> QED
      BY <1>2, <1>4, <1>9, <3>1, Zenon
  <2>2. \A o : Offers(o)' = Offers(o)
    <3>1. \A i \in 1..(n + 1) : i = n + 1 \/ i \in 1..n
      BY <1>1
    <3>2. \A i \in 1..n : i \in 1..(n + 1)
      BY <1>1
    <3>3. ASSUME NEW o, NEW i
          PROVE  i \in Offers(o)' <=> i \in Offers(o)
      BY <1>1, <1>8, <1>9, <3>1, <3>2 DEF Offers
    <3> QED
      BY <3>3, Zenon DEF Offers
  <2>3. \A o : Offers(o) \subseteq 1..n
    BY Zenon DEF Offers
  <2> QED
    BY <1>9, <2>1, <2>2, <2>3
<1>10. CASE l.key # "Host"
  <2>1. /\ (n + 1) - 1 = n
        /\ \A b \in 1..n : b \in 1..(n + 1)
        /\ \A b \in 1..(n + 1) : b = n + 1 \/ b \in 1..n
        /\ \A b \in 1..n : \A k \in (b + 1)..(n + 1) : k = n + 1 \/ (k \in (b + 1)..n /\ k \in 1..n)
        /\ \A b \in 1..n : \A k \in (b + 1)..n : k \in (b + 1)..(n + 1) /\ k \in 1..n
    BY <1>1
  <2>2. LastHostSelects <=>
          \E b \in 1..n : Host1(b) /\ Sel1(b) /\ \A k \in (b + 1)..(n + 1) : ~Host1(k)
    <3> HIDE DEF Host, Sel, Host1, Sel1
    <3>1. ASSUME NEW b \in 1..n
          PROVE  (\A k \in (b + 1)..n : ~Host(k)) <=> (\A k \in (b + 1)..(n + 1) : ~Host1(k))
      BY <1>2, <1>10, <2>1, Zenon
    <3> QED
      BY <1>2, <1>5, <3>1, Zenon
  <2>3. LastHostSelects' <=> LastHostSelects
    <3> HIDE DEF Host, Sel, Host1, Sel1
    <3> QED
      BY <1>2, <1>4, <1>10, <2>1, <2>2, Zenon
  <2>4. \A i : i = n + 1 => (Governs(i)' <=> LastHostSelects)
    <3> HIDE DEF Host, Sel, Host1, Sel1
    <3> QED
      BY <1>6, <2>1, <2>2, Zenon
  <2>5. \A o : Offers(o) \subseteq 1..n
    BY Zenon DEF Offers
  <2>6. ASSUME NEW o
        PROVE  Offers(o)' = Offers(o) \cup
                 (IF /\ LastHostSelects
                     /\ FileOption(l.key) = o /\ FileValue(l.key, l.val) # UNSET
                  THEN {n + 1} ELSE {})
    <3>1. n + 1 \in 1..(n + 1) /\ n + 1 \notin 1..n
      BY <1>1
    <3>2. \A i \in 1..n : i \in Offers(o)' <=> i \in Offers(o)
      BY <1>1, <1>8, <2>1 DEF Offers
    <3>3. \A i : i \in Offers(o)' <=>
            /\ i \in 1..Len(lines')
            /\ lines'[i].key # "Host" /\ Governs(i)'
            /\ FileOption(lines'[i].key) = o /\ FileValue(lines'[i].key, lines'[i].val) # UNSET
      BY DEF Offers
    <3>4. \A i : i = n + 1 => (i \in Offers(o)' <=>
            /\ LastHostSelects
            /\ FileOption(l.key) = o /\ FileValue(l.key, l.val) # UNSET)
      BY <1>1, <1>10, <2>4, <3>1, <3>3
    <3>5. Offers(o)' \subseteq 1..(n + 1)
      BY <1>1, Zenon DEF Offers
    <3> QED
      BY <2>1, <2>5, <3>1, <3>2, <3>4, <3>5
  <2> QED
    BY <1>10, <2>3, <2>5, <2>6
<1> QED
  BY <1>9, <1>10

\* The first offer is a line of the file and has a value.
LEMMA OfferIsLine ==
    ASSUME NEW o, lines \in Seq(Lines), Offers(o) # {}
    PROVE  Min(Offers(o)) \in Offers(o) /\ Min(Offers(o)) \in 1..Len(lines) /\ FirstOffer(o) # UNSET
<1>1. Offers(o) \in SUBSET Nat
  BY DEF Offers
<1>2. Min(Offers(o)) \in Offers(o)
  BY <1>1, LeastNumber
<1> QED
  BY <1>2, Zenon DEF FirstOffer, Offers

LEMMA OfferAdded ==
    ASSUME lines \in Seq(Lines), UNCHANGED target,
           NEW l \in Lines, lines' = Append(lines, l), NEW o
    PROVE  FirstOffer(o)' =
               IF /\ FirstOffer(o) = UNSET
                  /\ l.key # "Host" /\ LastHostSelects /\ FileOption(l.key) = o
               THEN FileValue(l.key, l.val) ELSE FirstOffer(o)
<1> DEFINE n == Len(lines)
           New == /\ l.key # "Host" /\ LastHostSelects
                  /\ FileOption(l.key) = o /\ FileValue(l.key, l.val) # UNSET
<1>1. /\ n \in Nat /\ lines'[n + 1] = l
      /\ \A i \in 1..n : lines'[i] = lines[i]
  OBVIOUS
<1>2. /\ Offers(o) \subseteq 1..n
      /\ Offers(o)' = Offers(o) \cup (IF New THEN {n + 1} ELSE {})
  BY LineAdded, Zenon
<1>3. FirstOffer(o)' = IF Offers(o)' = {} THEN UNSET
                       ELSE FileValue(lines'[Min(Offers(o)')].key, lines'[Min(Offers(o)')].val)
  BY DEF FirstOffer
<1>4. CASE Offers(o) # {}
  <2>1. Min(Offers(o)) \in Offers(o) /\ Min(Offers(o)) \in 1..n /\ FirstOffer(o) # UNSET
    BY <1>4, OfferIsLine
  <2>2. Offers(o) \in SUBSET Nat /\ Offers(o)' \in SUBSET Nat
    BY <1>1, <1>2
  <2>3. \A k \in Offers(o) : Min(Offers(o)) <= k
    BY <1>4, <2>2, LeastNumber
  <2> DEFINE first == Min(Offers(o))
  <2> HIDE DEF first
  <2>4. \A k \in Offers(o)' : first <= k
    BY <1>1, <1>2, <2>1, <2>3 DEF first
  <2>5. Min(Offers(o)') = first
    <3>1. ASSUME NEW S \in SUBSET Nat, NEW m \in S, \A k \in S : m <= k
          PROVE  Min(S) = m
      BY <3>1, LeastUnique
    <3>2. first \in Offers(o)'
      BY <1>2, <2>1 DEF first
    <3> QED
      BY <2>2, <2>4, <3>1, <3>2, Zenon
  <2>6. Offers(o)' # {}
    BY <1>2, <1>4
  <2>7. FirstOffer(o)' = FirstOffer(o)
    BY <1>1, <1>3, <1>4, <2>1, <2>5, <2>6, Zenon DEF FirstOffer, first
  <2> QED
    BY <2>1, <2>7
<1>5. CASE Offers(o) = {} /\ New
  <2>1. Offers(o)' = {n + 1} /\ FirstOffer(o) = UNSET
    BY <1>2, <1>5 DEF FirstOffer
  <2>2. Min({n + 1}) = n + 1
    BY <1>1, LeastUnique
  <2>3. FirstOffer(o)' = FileValue(l.key, l.val)
    BY <1>1, <1>3, <2>1, <2>2
  <2> QED
    BY <1>5, <2>1, <2>3
<1>6. CASE Offers(o) = {} /\ ~New
  <2>1. Offers(o)' = {} /\ FirstOffer(o) = UNSET
    BY <1>2, <1>6 DEF FirstOffer
  <2>2. FirstOffer(o)' = UNSET
    BY <1>3, <2>1
  <2> QED
    BY <1>6, <2>1, <2>2
<1> QED
  BY <1>4, <1>5, <1>6

LEMMA FileInit ==
    Init => FileRead /\ DefaultsKept
<1> SUFFICES ASSUME Init
             PROVE  FileRead /\ DefaultsKept
  OBVIOUS
<1>1. /\ lines = <<>> /\ stage = "args" /\ active = FALSE /\ value = Default
      /\ \A o \in Options : cfg[o] = UNSET
  BY DEF Init
<1>2. 1..Len(lines) = {}
  BY <1>1
<1>3. ~LastHostSelects /\ \A o : Offers(o) = {}
  BY <1>2, Zenon DEF LastHostSelects, Offers
<1>4. \A o : FirstOffer(o) = UNSET
  BY <1>3, Zenon DEF FirstOffer
<1> QED
  BY <1>1, <1>3, <1>4 DEF FileRead, DefaultsKept

LEMMA FileNext ==
    ASSUME ConfigTypeOK, FileRead, [Next]_vars
    PROVE  FileRead'
<1>0. /\ lines \in Seq(Lines) /\ DOMAIN cfg = Options /\ target \in Words \cup {UNSET}
      /\ active <=> LastHostSelects
      /\ \A o \in Options : cfg[o] = FirstOffer(o)
  BY DEF ConfigTypeOK, FileRead
<1>1. CASE NextArgument
  <2>1. UNCHANGED <<lines, active, cfg>> /\ lines = <<>>
    BY <1>1, ArgumentTaken DEF FileRead, NextArgument
  <2>2. stage' \in {"args", "command", "exit"}
    BY <1>1, ArgumentTaken, WordTaken
  <2>3. /\ LastHostSelects' <=> LastHostSelects
        /\ \A o : FirstOffer(o)' = FirstOffer(o)
    BY <1>0, <2>1, LinesKept
  <2> QED
    BY <1>0, <2>1, <2>2, <2>3 DEF FileRead
<1>2. CASE NextLine
  <2>1. PICK l \in Lines : lines' = Append(lines, l) /\ (HostLine(l) \/ OptionLine(l))
    BY <1>2, Zenon DEF NextLine
  <2>2. stage = "config" /\ UNCHANGED <<stage, target>>
    BY <1>2 DEF NextLine, argVars
  <2>3. target \in Words /\ Parts[target] # UNSET
    BY <2>2 DEF FileRead
  <2>4. /\ l.key = "Host" => (LastHostSelects' <=> Selects(l.val))
        /\ l.key # "Host" => (LastHostSelects' <=> LastHostSelects)
    BY <1>0, <2>1, <2>2, LineAdded
  <2>5. \A o : FirstOffer(o)' =
            IF /\ FirstOffer(o) = UNSET
               /\ l.key # "Host" /\ LastHostSelects /\ FileOption(l.key) = o
            THEN FileValue(l.key, l.val) ELSE FirstOffer(o)
    BY <1>0, <2>1, <2>2, OfferAdded, Zenon
  <2>6. CASE HostLine(l)
    <3>1. l.val \in Seq([negate : BOOLEAN, text : Seq(STRING)]) /\ Parts[target].text \in Seq(STRING)
      BY <2>3, <2>6, ConfigAssumption DEF HostLine
    <3>2. HostListMatches(l.val, Parts[target].text) <=> Selects(l.val)
      BY <3>1, ListMatchCorrect, Zenon
    <3>3. active' <=> LastHostSelects'
      BY <2>4, <2>6, <3>2, Zenon DEF HostLine
    <3>4. \A o \in Options : cfg'[o] = FirstOffer(o)'
      BY <1>0, <2>5, <2>6, Zenon DEF HostLine
    <3> QED
      BY <2>2, <2>3, <3>3, <3>4 DEF FileRead
  <2>7. CASE OptionLine(l)
    <3>1. active' <=> LastHostSelects'
      BY <1>0, <2>4, <2>7, Zenon DEF OptionLine
    <3>2. ASSUME NEW o \in Options
          PROVE  cfg'[o] = FirstOffer(o)'
      <4> DEFINE f == FileOption(l.key)
      <4>1. l.key # "Host" /\ cfg' = IF active /\ cfg[f] = UNSET
                   THEN [cfg EXCEPT ![f] = FileValue(l.key, l.val)] ELSE cfg
        BY <2>7, Zenon DEF OptionLine
      <4>2. FirstOffer(o)' = IF FirstOffer(o) = UNSET /\ LastHostSelects /\ f = o
                             THEN FileValue(l.key, l.val) ELSE FirstOffer(o)
        BY <2>5, <4>1, Zenon
      <4> HIDE DEF f
      <4>3. CASE f = o
        BY <1>0, <4>1, <4>2, <4>3
      <4>4. CASE f # o
        BY <1>0, <4>1, <4>2, <4>4
      <4> QED
        BY <4>3, <4>4
    <3> QED
      BY <2>2, <2>3, <3>1, <3>2 DEF FileRead
  <2> QED
    BY <2>1, <2>6, <2>7
<1>3. CASE /\ UNCHANGED <<lines, target, active, cfg>>
           /\ \/ UNCHANGED stage
              \/ stage' = "exit"
              \/ stage' = "config" /\ target \in Words /\ Parts[target] # UNSET
              \/ stage \in {"config", "identity"} /\ stage' \in {"identity", "ready"}
  <2>1. /\ LastHostSelects' <=> LastHostSelects
        /\ \A o : FirstOffer(o)' = FirstOffer(o)
    BY <1>0, <1>3, LinesKept
  <2> QED
    BY <1>0, <1>3, <2>1 DEF FileRead
<1>4. CASE Arguments
  BY <1>0, <1>3, <1>4 DEF Arguments, Fail, fileVars
<1>5. CASE Merge
  BY <1>3, <1>5 DEF Merge, argVars, fileVars
<1>6. CASE NamedIdentity \/ GivenSeed \/ DefaultIdentity
  BY <1>3, <1>6 DEF NamedIdentity, GivenSeed, DefaultIdentity, argVars, fileVars
<1>7. CASE UNCHANGED vars
  BY <1>3, <1>7 DEF vars
<1> QED
  BY <1>1, <1>2, <1>4, <1>5, <1>6, <1>7 DEF Next

----------------------------------------------------------------------------
(* The merge and the key.                                                  *)

LEMMA DefaultsNext ==
    ASSUME ConfigTypeOK, DefaultsKept, [Next]_vars
    PROVE  DefaultsKept'
<1>0. DOMAIN value = Options
  BY DEF ConfigTypeOK
<1>1. CASE /\ stage' \in {"args", "command", "config"} => stage \in {"args", "command", "config"}
           /\ UNCHANGED <<value, cli>> \/ \E o, v : Set(o, v)
  BY <1>0, <1>1 DEF DefaultsKept, Set
<1>2. CASE NextArgument
  <2>1. PICK w \in Words :
          /\ stage \in {"args", "command"}
          /\ UNCHANGED <<value, cli>> \/ TakeWord(w)
    BY <1>2, ArgumentTaken
  <2>2. TakeWord(w) => UNCHANGED <<value, cli>> \/ \E o, v : Set(o, v)
    BY WordTaken, Zenon
  <2> QED
    BY <1>1, <2>1, <2>2
<1>3. CASE Arguments
  <2>1. stage \in {"args", "command"} /\ (UNCHANGED <<value, cli>> \/ \E o, v : Set(o, v))
    BY <1>3, Zenon DEF Arguments, Fail
  <2> QED
    BY <1>1, <2>1
<1>4. CASE Merge
  BY <1>4 DEF Merge, DefaultsKept
<1>5. CASE NextLine
  BY <1>1, <1>5 DEF NextLine, argVars
<1>6. CASE NamedIdentity \/ GivenSeed \/ DefaultIdentity
  BY <1>6 DEF NamedIdentity, GivenSeed, DefaultIdentity, DefaultsKept
<1>7. CASE UNCHANGED vars
  BY <1>1, <1>7 DEF vars
<1> QED
  BY <1>2, <1>3, <1>4, <1>5, <1>6, <1>7 DEF Next

\* The value that an option should have, by the first line that offers one.
LEMMA ExpectedValue ==
    ASSUME NEW o
    PROVE  Expected(o) = IF Offers(o) # {} THEN FirstOffer(o)
                         ELSE IF o = "host" THEN Parts[target].host ELSE Default[o]
  BY Zenon DEF Expected, FirstOffer

LEMMA ExpectedKept ==
    ASSUME lines \in Seq(Lines), UNCHANGED <<lines, target>>, NEW o
    PROVE  Expected(o)' = Expected(o)
<1>1. Offers(o)' = Offers(o)
  BY LinesKept
<1> QED
  BY <1>1 DEF Expected

\* The merge gives every open option its value.
LEMMA MergeRight ==
    ASSUME ConfigTypeOK, FileRead, DefaultsKept, Merge, NEW o \in Options \ cli
    PROVE  value'[o] = IF o = "identity" /\ "seed" \in cli THEN UNSET ELSE Expected(o)
<1> DEFINE read == [value EXCEPT !["host"] = Parts[target].host]
<1>1. value'[o] = IF FromFile(o) /\ cfg[o] # UNSET THEN cfg[o] ELSE read[o]
  BY Zenon DEF Merge
<1>2. FromFile(o) <=> ~(o = "identity" /\ "seed" \in cli)
  BY Zenon DEF FromFile
<1>3. read[o] = IF o = "host" THEN Parts[target].host ELSE Default[o]
  BY DEF ConfigTypeOK, DefaultsKept, Merge
<1>4. cfg[o] = FirstOffer(o)
  BY DEF FileRead
<1>5. Offers(o) # {} => FirstOffer(o) # UNSET
  BY OfferIsLine DEF ConfigTypeOK
<1>6. Offers(o) = {} => FirstOffer(o) = UNSET
  BY DEF FirstOffer
<1>7. Default["identity"] = UNSET
  <2>1. "-i" \in DOMAIN Text /\ Text["-i"] = "identity"
    BY DEF Text
  <2>2. "identity" \in Options
    BY <2>1, Zenon DEF Options
  <2> QED
    BY <2>2 DEF Default
<1> HIDE DEF read
<1>8. CASE o = "identity" /\ "seed" \in cli
  BY <1>1, <1>2, <1>3, <1>7, <1>8
<1>9. CASE ~(o = "identity" /\ "seed" \in cli)
  <2>1. value'[o] = IF cfg[o] # UNSET THEN cfg[o] ELSE read[o]
    BY <1>1, <1>2, <1>9
  <2>2. Expected(o) = IF Offers(o) # {} THEN FirstOffer(o)
                      ELSE IF o = "host" THEN Parts[target].host ELSE Default[o]
    BY ExpectedValue
  <2> QED
    BY <1>3, <1>4, <1>5, <1>6, <1>9, <2>1, <2>2
<1> QED
  BY <1>8, <1>9

\* A default identity is one of the paths, or none.
LEMMA DefaultIdentityPath ==
    ASSUME NEW what
    PROVE  TryLoadDefaultIdentity(what) \in
               {UNSET} \cup {DefaultPaths[k] : k \in 1..Len(DefaultPaths)}
<1> DEFINE found == {k \in 1..Len(DefaultPaths) : LoadSeedFile(what[k]) # "failed"}
<1>1. found # {} => Min(found) \in found
  <2>1. found \in SUBSET Nat
    OBVIOUS
  <2> HIDE DEF found
  <2> QED
    BY <2>1, LeastNumber
<1>2. found # {} => Min(found) \in 1..Len(DefaultPaths)
  BY <1>1
<1>3. TryLoadDefaultIdentity(what) =
        IF found # {} /\ LoadSeedFile(what[Min(found)]) = "success"
        THEN DefaultPaths[Min(found)] ELSE UNSET
  BY Zenon DEF TryLoadDefaultIdentity
<1> HIDE DEF found
<1> QED
  BY <1>2, <1>3, Zenon

\* The two parts of EffectiveOptions, without the CASE.
LEMMA EffectiveParts ==
    EffectiveOptions <=> OptionsMerged /\ KeyChosen
<1> DEFINE A == value["identity"] # UNSET
           B == value["seed"] # UNSET
           X == key = value["identity"]
           Y == key = value["seed"]
           Z == key \in {UNSET} \cup {DefaultPaths[k] : k \in 1..Len(DefaultPaths)}
<1>1. /\ value["identity"] = UNSET <=> ~A
      /\ value["seed"] = UNSET <=> ~B
  OBVIOUS
<1>2. (CASE A -> X [] value["identity"] = UNSET /\ B -> Y [] OTHER -> Z)
        <=> (A => X) /\ (~A /\ B => Y) /\ (~A /\ ~B => Z)
  <2> HIDE DEF X, Y, Z
  <2>1. CASE A
    BY <2>1, Zenon
  <2>2. CASE ~A /\ B
    BY <2>2, Zenon
  <2>3. CASE ~A /\ ~B
    BY <2>3, Zenon
  <2> QED
    BY <2>1, <2>2, <2>3
<1>3. KeyChosen <=> (stage = "ready" => (A => X) /\ (~A /\ B => Y) /\ (~A /\ ~B => Z))
  BY Zenon DEF KeyChosen
<1>4. EffectiveOptions <=>
        /\ OptionsMerged
        /\ stage = "ready" => CASE A -> X [] value["identity"] = UNSET /\ B -> Y [] OTHER -> Z
  BY Zenon DEF EffectiveOptions, OptionsMerged
<1> QED
  BY <1>2, <1>3, <1>4, Zenon

LEMMA EffectiveNext ==
    ASSUME ConfigTypeOK, FileRead, DefaultsKept, OptionsMerged, KeyChosen, [Next]_vars
    PROVE  OptionsMerged' /\ KeyChosen'
<1>0. lines \in Seq(Lines)
  BY DEF ConfigTypeOK
<1>1. CASE NextArgument
  <2>1. stage' \in {"args", "command", "exit"}
    BY <1>1, ArgumentTaken, WordTaken
  <2> QED
    BY <2>1 DEF OptionsMerged, KeyChosen
<1>2. CASE Arguments
  BY <1>2 DEF Arguments, Fail, OptionsMerged, KeyChosen
<1>3. CASE NextLine
  BY <1>3 DEF NextLine, OptionsMerged, KeyChosen
<1>4. CASE Merge
  <2>1. stage' = "identity" /\ UNCHANGED <<cli, target, lines>>
    BY <1>4 DEF Merge, argVars, fileVars
  <2>2. \A o : Expected(o)' = Expected(o)
    BY <1>0, <2>1, ExpectedKept
  <2>3. \A o \in Options \ cli :
          value'[o] = IF o = "identity" /\ "seed" \in cli THEN UNSET ELSE Expected(o)
    BY <1>4, MergeRight, Zenon
  <2>4. OptionsMerged'
    BY <2>1, <2>2, <2>3 DEF OptionsMerged
  <2> QED
    BY <2>1, <2>4 DEF KeyChosen
<1>5. CASE NamedIdentity \/ GivenSeed \/ DefaultIdentity
  <2>1. stage = "identity" /\ UNCHANGED <<cli, target, lines, value>>
    BY <1>5 DEF NamedIdentity, GivenSeed, DefaultIdentity, argVars, fileVars
  <2>2. \A o : Expected(o)' = Expected(o)
    BY <1>0, <2>1, ExpectedKept
  <2>3. OptionsMerged'
    BY <2>1, <2>2 DEF OptionsMerged
  <2>4. KeyChosen'
    <3>1. CASE NamedIdentity
      BY <3>1 DEF NamedIdentity, KeyChosen
    <3>2. CASE GivenSeed
      BY <3>2 DEF GivenSeed, KeyChosen
    <3>3. CASE DefaultIdentity
      <4>1. key' \in {UNSET} \cup {DefaultPaths[k] : k \in 1..Len(DefaultPaths)}
        BY <3>3, DefaultIdentityPath, Zenon DEF DefaultIdentity
      <4> QED
        BY <3>3, <4>1, Zenon DEF DefaultIdentity, KeyChosen
    <3> QED
      BY <1>5, <3>1, <3>2, <3>3
  <2> QED
    BY <2>3, <2>4
<1>6. CASE UNCHANGED vars
  <2>1. UNCHANGED <<stage, cli, target, lines, value, key>>
    BY <1>6 DEF vars
  <2>2. \A o : Expected(o)' = Expected(o)
    BY <1>0, <2>1, ExpectedKept
  <2> QED
    BY <2>1, <2>2 DEF OptionsMerged, KeyChosen
<1> QED
  BY <1>1, <1>2, <1>3, <1>4, <1>5, <1>6 DEF Next

----------------------------------------------------------------------------
(* The theorems.                                                           *)

\* The types, the command as typed so far, the file as read so far and the
\* merged options together are inductive over main()'s steps.
THEOREM ConfigInvariant == Spec => []ConfigInv
<1>1. Init => ConfigInv
  <2>1. Init => OptionsMerged /\ KeyChosen
    BY DEF Init, OptionsMerged, KeyChosen
  <2> QED
    BY <2>1, TypeInit, CommandInit, FileInit, Zenon DEF ConfigInv
<1>2. ConfigInv /\ [Next]_vars => ConfigInv'
  BY TypeNext, CommandNext, FileNext, DefaultsNext, EffectiveNext, Zenon DEF ConfigInv
<1> QED
  BY <1>1, <1>2, PTL DEF Spec

\* For every file and every set of patterns: an option that the command line
\* leaves open has the value of the first valid line in a block that selects
\* the host, and the private key is the one that the options name.
THEOREM ConfigEffectiveOptions == Spec => []EffectiveOptions
<1>1. ConfigInv => EffectiveOptions
  BY EffectiveParts, Zenon DEF ConfigInv
<1> QED
  BY <1>1, ConfigInvariant, PTL

\* For every length of the buffer and every sequence of words: the command is
\* what was typed as long as that fits, and it never outgrows the buffer.
THEOREM ConfigCommandVerbatim == Spec => []CommandVerbatim
<1>1. ConfigInv => CommandVerbatim
  BY Zenon DEF ConfigInv
<1> QED
  BY <1>1, ConfigInvariant, PTL

\* No step behind the options changes what an option of the command line set.
THEOREM ConfigCommandLineWins == Spec => CommandLineWins
<1>1. ConfigInv /\ [Next]_vars =>
        [stage # "args" /\ stage' # "args" => \A o \in cli : value'[o] = value[o]]_vars
  BY WinsStep, Zenon DEF ConfigInv
<1> QED
  BY <1>1, ConfigInvariant, PTL DEF Spec, CommandLineWins
=============================================================================
