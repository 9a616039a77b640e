----------------------------- MODULE Induction -----------------------------
(***************************************************************************)
(* Induction and recursion in a form the provers can apply: over sets and  *)
(* functions, not over operators.  CountingUp is induction over the        *)
(* naturals, Growing over sequences.  A fold over a finite set is defined  *)
(* whichever element it takes next (FoldExists); a left fold over a        *)
(* sequence runs through its elements (LeftFoldRuns), so one more element  *)
(* is one more step (LoopGoesOn).  The last section is what the proofs     *)
(* need of sequences that are put together and taken apart.                *)
(***************************************************************************)
EXTENDS SequencesExt, FiniteSetTheorems, SequenceTheorems, WellFoundedInduction, TLAPS

\* A set that holds 0 and the successor of every number in it holds them all.
LEMMA CountingUp ==
  ASSUME NEW T, 0 \in T, \A n \in Nat : n \in T => n + 1 \in T
  PROVE  \A n \in Nat : n \in T
<1> DEFINE U == Nat \ T
<1>1. SUFFICES ASSUME U # {} PROVE FALSE
  OBVIOUS
<1>2. PICK x \in U : \A y \in U : ~(<<y, x>> \in OpToRel(<, Nat))
  BY <1>1, NatLessThanWellFounded, WFMin
<1>3. PICK y \in Nat : x = y + 1
  <2>1. x \in Nat /\ x # 0
    OBVIOUS
  <2>2. x - 1 \in Nat /\ x = (x - 1) + 1
    BY <2>1
  <2>3. QED
    BY <2>2
<1>4. <<y, x>> \in OpToRel(<, Nat)
  BY <1>3 DEF OpToRel
<1>5. y \in T
  BY <1>2, <1>4
<1>6. QED
  BY <1>3, <1>5

\* Some number of a set of numbers is the least.
LEMMA LeastOf ==
  ASSUME NEW S \in SUBSET Nat, S # {}
  PROVE  \E m \in S : \A x \in S : m <= x
<1> SUFFICES ASSUME \A m \in S : \E x \in S : ~(m <= x)
             PROVE  FALSE
  OBVIOUS
<1> DEFINE T == {n \in Nat : \A x \in S : n < x}
<1>1. ASSUME NEW m \in S, \A x \in S : m <= x PROVE FALSE
  BY <1>1
<1>2. 0 \in T
  BY <1>1
<1>3. ASSUME NEW n \in Nat, n \in T PROVE n + 1 \in T
  <2>1. \A x \in S : n + 1 <= x
    BY <1>3
  <2>2. n + 1 \notin S
    BY <1>1, <2>1
  <2>3. QED
    BY <2>1, <2>2
<1> HIDE DEF T
<1>4. \A n \in Nat : n \in T
  BY <1>2, <1>3, CountingUp
<1>5. PICK n \in S : TRUE
  OBVIOUS
<1>6. QED
  BY <1>4, <1>5 DEF T

\* f is the fold, from base in A, of the subsets of D that takes next[s] out of
\* s and continues with the rest.
FoldsBy(f, D, A, base, next, step) ==
    /\ f \in [SUBSET D -> A]
    /\ f[{}] = base
    /\ \A s \in SUBSET D : s # {} => f[s] = step[<<f[s \ {next[s]}], next[s]>>]

\* A fold over the subsets of D that takes next[s] out of s and continues with
\* the rest has a function that satisfies its equation.
LEMMA FoldExists ==
  ASSUME NEW D, IsFiniteSet(D), NEW A, NEW base \in A,
         NEW next, \A s \in SUBSET D : s # {} => next[s] \in s,
         NEW step, \A a \in A, x \in D : step[<<a, x>>] \in A
  PROVE  \E f : FoldsBy(f, D, A, base, next, step)
<1> DEFINE Small(n) == {s \in SUBSET D : Cardinality(s) <= n}
           Fold(f, n) == /\ f \in [Small(n) -> A]
                         /\ f[{}] = base
                         /\ \A s \in Small(n) : s # {} => f[s] = step[<<f[s \ {next[s]}], next[s]>>]
           T == {n \in Nat : \E f : Fold(f, n)}
<1>0. \A s \in SUBSET D : /\ IsFiniteSet(s) /\ Cardinality(s) \in Nat
                          /\ Cardinality(s) = 0 <=> s = {}
                          /\ Cardinality(s) <= Cardinality(D)
  BY FS_Subset, FS_CardinalityType, FS_EmptySet
<1>s. \A s \in SUBSET D : s # {} => /\ s \ {next[s]} \in SUBSET D
                                    /\ Cardinality(s \ {next[s]}) = Cardinality(s) - 1
  BY <1>0, FS_RemoveElement
<1>1. 0 \in T
  <2>1. Small(0) = {{}}
    BY <1>0
  <2>2. Fold([s \in Small(0) |-> base], 0)
    BY <2>1
  <2>3. QED
    BY <2>2
<1>2. ASSUME NEW n \in Nat, n \in T PROVE n + 1 \in T
  <2>1. PICK f : Fold(f, n)
    BY <1>2
  <2> HIDE DEF Fold
  <2> DEFINE g == [s \in Small(n + 1) |->
                     IF s \in Small(n) THEN f[s] ELSE step[<<f[s \ {next[s]}], next[s]>>]]
  <2>2. \A s \in Small(n) : s \in Small(n + 1) /\ g[s] = f[s]
    BY <1>0
  <2>3. \A s \in Small(n + 1) : s # {} => s \ {next[s]} \in Small(n)
    BY <1>0, <1>s
  <2>4. g \in [Small(n + 1) -> A]
    <3>1. ASSUME NEW s \in Small(n + 1) PROVE g[s] \in A
      <4>1. CASE s \in Small(n)
        BY <2>1, <2>2, <4>1 DEF Fold
      <4>2. CASE s \notin Small(n)
        <5>1. s # {} /\ s \in SUBSET D
          BY <1>0, <4>2
        <5>2. f[s \ {next[s]}] \in A /\ next[s] \in D
          BY <2>1, <2>3, <5>1 DEF Fold
        <5>3. g[s] = step[<<f[s \ {next[s]}], next[s]>>]
          BY <4>2
        <5>4. QED
          BY <5>2, <5>3
      <4>3. QED
        BY <4>1, <4>2
    <3>2. QED
      BY <3>1
  <2>5. g[{}] = base
    <3>1. {} \in Small(n)
      BY <1>0
    <3>2. QED
      BY <2>1, <2>2, <3>1 DEF Fold
  <2>6. ASSUME NEW s \in Small(n + 1), s # {}
        PROVE  g[s] = step[<<g[s \ {next[s]}], next[s]>>]
    <3>1. g[s \ {next[s]}] = f[s \ {next[s]}]
      BY <2>2, <2>3, <2>6
    <3>2. g[s] = step[<<f[s \ {next[s]}], next[s]>>]
      <4>1. CASE s \in Small(n)
        BY <2>1, <2>2, <2>6, <4>1 DEF Fold
      <4>2. CASE s \notin Small(n)
        BY <4>2
      <4>3. QED
        BY <4>1, <4>2
    <3>3. QED
      BY <3>1, <3>2
  <2> HIDE DEF g
  <2>7. Fold(g, n + 1)
    BY <2>4, <2>5, <2>6 DEF Fold
  <2>8. QED
    BY <2>7
<1> HIDE DEF T
<1>3. Cardinality(D) \in T
  BY <1>0, <1>1, <1>2, CountingUp
<1>4. Small(Cardinality(D)) = SUBSET D
  BY <1>0
<1>5. QED
  BY <1>3, <1>4 DEF T, FoldsBy

\* The greatest number of a set of the first n.
LEMMA MaxOfFirst ==
  ASSUME NEW n \in Nat, NEW s \in SUBSET (1 .. n), s # {}
  PROVE  Max(s) \in s /\ \A x \in s : x <= Max(s)
<1> DEFINE T == {k \in Nat : \A t \in SUBSET (1 .. k) : t # {} =>
                                \E m \in t : \A x \in t : x <= m}
<1>1. 0 \in T
  <2>1. 1 .. 0 = {}
    OBVIOUS
  <2>2. QED
    BY <2>1
<1>2. ASSUME NEW k \in Nat, k \in T PROVE k + 1 \in T
  <2> SUFFICES ASSUME NEW t \in SUBSET (1 .. k + 1), t # {}
               PROVE  \E m \in t : \A x \in t : x <= m
    OBVIOUS
  <2>1. CASE k + 1 \in t
    BY <2>1
  <2>2. CASE k + 1 \notin t
    <3>1. t \in SUBSET (1 .. k)
      BY <2>2
    <3>2. QED
      BY <1>2, <3>1
  <2>3. QED
    BY <2>1, <2>2
<1> HIDE DEF T
<1>3. n \in T
  BY <1>1, <1>2, CountingUp
<1>4. \E m \in s : \A x \in s : x <= m
  BY <1>3 DEF T
<1>5. QED
  BY <1>4 DEF Max

\* The same for the places of a sequence.
LEMMA MaxOfDomain ==
  ASSUME NEW S, NEW seq \in Seq(S), NEW s \in SUBSET DOMAIN seq, s # {}
  PROVE  Max(s) \in s /\ seq[Max(s)] \in S
<1>1. Len(seq) \in Nat /\ DOMAIN seq = 1 .. Len(seq)
  OBVIOUS
<1>2. Max(s) \in s
  BY <1>1, MaxOfFirst
<1>3. QED
  BY <1>1, <1>2

\* A loop over the elements of seq, from base in A, each step of which takes
\* an element of S and stays in A.
Keeps(step, A, S) == \A a \in A, x \in S : step[<<a, x>>] \in A

\* h[n] is the value of the loop after n elements.
Runs(h, seq, A, base, step) ==
    /\ h \in [0 .. Len(seq) -> A]
    /\ h[0] = base
    /\ \A n \in 1 .. Len(seq) : h[n] = step[<<h[n - 1], seq[n]>>]

\* f satisfies the equation by which FoldLeft is defined, where it is typed.
Folds(f, seq, A, base, step) ==
    /\ f[{}] = base
    /\ \A s \in SUBSET DOMAIN seq : s # {} /\ f[s \ {Max(s)}] \in A =>
          f[s] = step[<<f[s \ {Max(s)}], seq[Max(s)]>>]

\* FoldLeft is defined.
LEMMA LeftFoldExists ==
  ASSUME NEW S, NEW seq \in Seq(S), NEW A, NEW base \in A,
         NEW step, Keeps(step, A, S)
  PROVE  \E f : f \in [SUBSET DOMAIN seq -> A] /\ Folds(f, seq, A, base, step)
<1> DEFINE D == 1 .. Len(seq)
           next == [s \in SUBSET D |-> Max(s)]
           at == [p \in A \X D |-> step[<<p[1], seq[p[2]]>>]]
<1>1. DOMAIN seq = D /\ Len(seq) \in Nat /\ \A i \in D : seq[i] \in S
  OBVIOUS
<1>2. IsFiniteSet(D)
  BY <1>1, FS_Interval
<1>3. \A s \in SUBSET D : s # {} => next[s] = Max(s) /\ next[s] \in s
  BY <1>1, MaxOfFirst
<1>4. \A a \in A, x \in D : at[<<a, x>>] = step[<<a, seq[x]>>]
  BY <1>1
<1>5. \A a \in A, x \in D : at[<<a, x>>] \in A
  BY <1>1, <1>4 DEF Keeps
<1>6. \A s \in SUBSET D : s # {} => next[s] \in s
  BY <1>3
<1> HIDE DEF D, next, at
<1>7. PICK f : FoldsBy(f, D, A, base, next, at)
  BY <1>2, <1>5, <1>6, FoldExists
<1>8. \A s \in SUBSET D : s # {} => f[s] = step[<<f[s \ {Max(s)}], seq[Max(s)]>>]
  <2> SUFFICES ASSUME NEW s \in SUBSET D, s # {}
               PROVE  f[s] = step[<<f[s \ {Max(s)}], seq[Max(s)]>>]
    OBVIOUS
  <2>1. Max(s) \in D /\ f[s \ {Max(s)}] \in A /\ f[s] = at[<<f[s \ {Max(s)}], Max(s)>>]
    BY <1>3, <1>7 DEF FoldsBy
  <2>2. QED
    BY <1>4, <2>1
<1>9. QED
  BY <1>1, <1>7, <1>8 DEF FoldsBy, Folds

\* And takes the sequence one element after another.
LEMMA LeftFoldRuns ==
  ASSUME NEW S, NEW seq \in Seq(S), NEW A, NEW base \in A,
         NEW step, Keeps(step, A, S),
         NEW f, Folds(f, seq, A, base, step)
  PROVE  \E h : Runs(h, seq, A, base, step) /\ h[Len(seq)] = f[DOMAIN seq]
<1> DEFINE h == [n \in 0 .. Len(seq) |-> f[1 .. n]]
           T == {n \in Nat : n <= Len(seq) =>
                   h[n] \in A /\ (n > 0 => h[n] = step[<<h[n - 1], seq[n]>>])}
<1>1. DOMAIN seq = 1 .. Len(seq) /\ Len(seq) \in Nat /\ \A i \in 1 .. Len(seq) : seq[i] \in S
  OBVIOUS
<1>2. h[0] = base
  <2>1. 1 .. 0 = {} /\ h[0] = f[1 .. 0]
    BY <1>1
  <2>2. QED
    BY <2>1 DEF Folds
<1>3. ASSUME NEW n \in 1 .. Len(seq), h[n - 1] \in A
      PROVE  h[n] \in A /\ h[n] = step[<<h[n - 1], seq[n]>>]
  <2>1. 1 .. n \in SUBSET DOMAIN seq /\ 1 .. n # {}
    <3>1. n \in Nat /\ n <= Len(seq) /\ n \in 1 .. n
      BY <1>1
    <3>2. \A i \in 1 .. n : i \in 1 .. Len(seq)
      BY <1>1, <3>1
    <3>3. QED
      BY <1>1, <3>1, <3>2
  <2>2. Max(1 .. n) = n
    <3>1. Max(1 .. n) \in 1 .. n /\ n <= Max(1 .. n)
      <4>1. 1 .. n \in SUBSET (1 .. n) /\ n \in 1 .. n /\ n \in Nat
        BY <1>1
      <4>2. QED
        BY <2>1, <4>1, MaxOfFirst
    <3>2. QED
      BY <3>1
  <2>3. (1 .. n) \ {n} = 1 .. n - 1
    OBVIOUS
  <2>4. h[n] = f[1 .. n] /\ h[n - 1] = f[1 .. n - 1]
    BY <1>1
  <2>5. h[n] = step[<<h[n - 1], seq[n]>>]
    BY <1>3, <2>1, <2>2, <2>3, <2>4 DEF Folds
  <2>6. QED
    BY <1>1, <1>3, <2>5 DEF Keeps
<1>4. 0 \in T
  BY <1>2
<1>5. ASSUME NEW n \in Nat, n \in T PROVE n + 1 \in T
  <2>1. CASE n + 1 <= Len(seq)
    <3>1. n + 1 \in 1 .. Len(seq) /\ (n + 1) - 1 = n /\ h[n] \in A
      BY <1>1, <1>5, <2>1
    <3> HIDE DEF h
    <3>2. h[n + 1] \in A /\ h[n + 1] = step[<<h[(n + 1) - 1], seq[n + 1]>>]
      BY <1>3, <3>1
    <3>3. QED
      BY <3>2
  <2>2. CASE ~(n + 1 <= Len(seq))
    BY <2>2
  <2>3. QED
    BY <2>1, <2>2
<1> HIDE DEF T
<1>6. \A n \in Nat : n \in T
  BY <1>4, <1>5, CountingUp
<1>7. \A n \in 0 .. Len(seq) : h[n] \in A /\ (n > 0 => h[n] = step[<<h[n - 1], seq[n]>>])
  <2> SUFFICES ASSUME NEW n \in 0 .. Len(seq)
               PROVE  h[n] \in A /\ (n > 0 => h[n] = step[<<h[n - 1], seq[n]>>])
    OBVIOUS
  <2>1. n \in Nat /\ n <= Len(seq)
    BY <1>1
  <2>2. n \in T
    BY <1>6, <2>1
  <2> HIDE DEF h
  <2>3. QED
    BY <2>1, <2>2 DEF T
<1>8. h \in [0 .. Len(seq) -> A]
  BY <1>7
<1>9. h[Len(seq)] = f[DOMAIN seq]
  BY <1>1
<1> HIDE DEF h
<1>10. \A n \in 1 .. Len(seq) : h[n] = step[<<h[n - 1], seq[n]>>]
  BY <1>1, <1>7
<1>11. QED
  BY <1>2, <1>8, <1>9, <1>10 DEF Runs

-----------------------------------------------------------------------------
\* What a loop over seq comes to.
Comes(a, seq, A, base, step) == \E h : Runs(h, seq, A, base, step) /\ a = h[Len(seq)]

\* A loop over nothing comes to its start.
LEMMA LoopStarts ==
  ASSUME NEW a, NEW A, NEW base, NEW step, Comes(a, << >>, A, base, step)
  PROVE  a = base
BY DEF Comes, Runs

\* A loop over one element more takes one step more.
LEMMA LoopGoesOn ==
  ASSUME NEW S, NEW seq \in Seq(S), NEW x \in S, NEW A, NEW base \in A,
         NEW step, Keeps(step, A, S),
         NEW a, Comes(a, seq, A, base, step),
         NEW b, Comes(b, Append(seq, x), A, base, step)
  PROVE  a \in A /\ b = step[<<a, x>>]
<1> DEFINE more == Append(seq, x)
           l == Len(seq)
<1>1. /\ l \in Nat /\ Len(more) = l + 1 /\ more[l + 1] = x
      /\ \A i \in 1 .. l : more[i] = seq[i]
  OBVIOUS
<1>2. PICK g : Runs(g, seq, A, base, step) /\ a = g[l]
  BY DEF Comes
<1>3. PICK h : Runs(h, more, A, base, step) /\ b = h[l + 1]
  BY <1>1 DEF Comes
<1> HIDE DEF more, l
<1> DEFINE T == {n \in Nat : n <= l => g[n] = h[n]}
<1>4. 0 \in T
  BY <1>2, <1>3 DEF Runs
<1>5. ASSUME NEW n \in Nat, n \in T PROVE n + 1 \in T
  <2> SUFFICES ASSUME n + 1 <= l PROVE g[n + 1] = h[n + 1]
    OBVIOUS
  <2>1. n + 1 \in 1 .. l /\ n + 1 \in 1 .. l + 1 /\ (n + 1) - 1 = n /\ n <= l
    BY <1>1
  <2>2. g[n + 1] = step[<<g[n], seq[n + 1]>>]
    BY <1>2, <2>1 DEF Runs, l
  <2>3. h[n + 1] = step[<<h[n], more[n + 1]>>]
    BY <1>1, <1>3, <2>1 DEF Runs
  <2>4. QED
    BY <1>1, <1>5, <2>1, <2>2, <2>3
<1> HIDE DEF T
<1>6. g[l] = h[l]
  <2>1. l \in T
    BY <1>1, <1>4, <1>5, CountingUp
  <2>2. QED
    BY <2>1 DEF T
<1>7. g[l] \in A
  <2>1. l \in 0 .. l
    BY <1>1
  <2>2. QED
    BY <1>2, <2>1 DEF Runs, l
<1>8. h[l + 1] = step[<<h[l], x>>]
  <2>1. l + 1 \in 1 .. l + 1 /\ (l + 1) - 1 = l
    BY <1>1
  <2>2. QED
    BY <1>1, <1>3, <2>1 DEF Runs
<1>9. QED
  BY <1>2, <1>3, <1>6, <1>7, <1>8
-----------------------------------------------------------------------------
\* The empty sequence.
LEMMA Nothing == \A S : << >> \in Seq(S) /\ Len(<< >>) = 0
OBVIOUS

\* What is put together: its length, its elements, its neutral sequence.
LEMMA Together ==
  ASSUME NEW S, NEW a \in Seq(S), NEW b \in Seq(S), NEW c \in Seq(S)
  PROVE  /\ a \o b \in Seq(S)
         /\ (a \o b) \o c = a \o (b \o c)
         /\ a \o << >> = a /\ << >> \o a = a
         /\ Len(a) \in Nat /\ Len(a \o b) = Len(a) + Len(b)
         /\ \A i \in 1 .. Len(a) : (a \o b)[i] = a[i]
         /\ \A i \in Len(a) + 1 .. Len(a) + Len(b) : (a \o b)[i] = b[i - Len(a)]
OBVIOUS

\* Putting together, where it is done in another order.
LEMMA Regroup ==
  ASSUME NEW S, NEW a \in Seq(S), NEW b \in Seq(S), NEW c \in Seq(S)
  PROVE  (a \o b) \o c = a \o (b \o c) /\ a \o b \in Seq(S) /\ b \o c \in Seq(S)
OBVIOUS

\* Putting together and putting one more on.
LEMMA ConcatAppend ==
  ASSUME NEW S, NEW a \in Seq(S), NEW b \in Seq(S), NEW x \in S
  PROVE  /\ a \o b \in Seq(S)
         /\ a \o Append(b, x) = Append(a \o b, x)
         /\ Append(a, x) = a \o <<x>>
OBVIOUS

\* Every sequence but the empty one has a last element.
LEMMA LastTaken ==
  ASSUME NEW S, NEW s \in Seq(S), s # << >>
  PROVE  /\ Front(s) \in Seq(S) /\ Last(s) \in S
         /\ s = Append(Front(s), Last(s))
         /\ Len(s) \in Nat /\ Len(s) > 0 /\ Len(Front(s)) = Len(s) - 1
BY DEF Front, Last

\* The last element put on can be taken off.
LEMMA LastPut ==
  ASSUME NEW S, NEW s \in Seq(S), NEW x \in S
  PROVE  Append(s, x) \in Seq(S) /\ Front(Append(s, x)) = s /\ Last(Append(s, x)) = x
<1> DEFINE t == Append(s, x)
<1>1. t \in Seq(S) /\ Len(t) = Len(s) + 1 /\ Len(s) \in Nat /\ t[Len(s) + 1] = x
      /\ \A i \in 1 .. Len(s) : t[i] = s[i]
  OBVIOUS
<1> HIDE DEF t
<1>2. SubSeq(t, 1, Len(t) - 1) = s
  BY <1>1
<1>3. QED
  BY <1>1, <1>2 DEF Front, Last, t

\* The last of two sequences put together is the last of the second.
LEMMA ConcatFront ==
  ASSUME NEW S, NEW a \in Seq(S), NEW b \in Seq(S), b # << >>
  PROVE  Front(a \o b) = a \o Front(b) /\ Last(a \o b) = Last(b) /\ a \o b # << >>
<1> DEFINE f == Front(b)
           l == Last(b)
<1>1. f \in Seq(S) /\ l \in S /\ b = Append(f, l)
  BY LastTaken
<1> HIDE DEF f, l
<1> DEFINE c == a \o f
<1>2. a \o b = Append(c, l) /\ c \in Seq(S)
  BY <1>1, ConcatAppend
<1> HIDE DEF c
<1>3. Front(a \o b) = c /\ Last(a \o b) = l
  BY <1>1, <1>2, LastPut
<1>4. a \o b # << >>
  BY <1>1, <1>2
<1>5. QED
  BY <1>3, <1>4 DEF f, l, c

\* A sequence and more begin with the sequence.
LEMMA PrefixOfConcat ==
  ASSUME NEW S, NEW a \in Seq(S), NEW b \in Seq(S)
  PROVE  IsPrefix(a, a \o b)
<1> DEFINE t == a \o b
<1>1. /\ t \in Seq(S) /\ Len(a) \in Nat /\ Len(b) \in Nat /\ Len(t) = Len(a) + Len(b)
      /\ \A i \in 1 .. Len(a) : t[i] = a[i]
  BY Together
<1> HIDE DEF t
<1>2. Len(a) <= Len(t) /\ SubSeq(t, 1, Len(a)) = a /\ SubSeq(a, 1, Len(a)) = a
  BY <1>1
<1>3. IsPrefix(a, t)
  BY <1>2 DEF IsPrefix
<1>4. QED
  BY <1>3 DEF t

\* What begins with a sequence is the sequence and more.
LEMMA ConcatOfPrefix ==
  ASSUME NEW S, NEW a \in Seq(S), NEW t \in Seq(S), IsPrefix(a, t)
  PROVE  \E b \in Seq(S) : t = a \o b
<1> DEFINE b == SubSeq(t, Len(a) + 1, Len(t))
<1>1. Len(a) \in Nat /\ Len(t) \in Nat /\ Len(a) <= Len(t) /\ SubSeq(a, 1, Len(a)) = SubSeq(t, 1, Len(a))
  BY DEF IsPrefix
<1>2. \A i \in 1 .. Len(a) : t[i] = a[i]
  <2> SUFFICES ASSUME NEW i \in 1 .. Len(a) PROVE t[i] = a[i]
    OBVIOUS
  <2>1. SubSeq(a, 1, Len(a))[i] = a[i] /\ SubSeq(t, 1, Len(a))[i] = t[i]
    BY <1>1
  <2>2. QED
    BY <1>1, <2>1
<1>3. /\ b \in Seq(S) /\ Len(b) = Len(t) - Len(a)
      /\ \A i \in 1 .. Len(b) : b[i] = t[Len(a) + i]
  BY <1>1
<1> HIDE DEF b
<1> DEFINE u == a \o b
<1>4. /\ u \in Seq(S) /\ Len(b) \in Nat /\ Len(u) = Len(a) + Len(b)
      /\ \A i \in 1 .. Len(a) : u[i] = a[i]
      /\ \A i \in Len(a) + 1 .. Len(a) + Len(b) : u[i] = b[i - Len(a)]
  BY <1>3, Together
<1> HIDE DEF u
<1>5. Len(u) = Len(t)
  BY <1>1, <1>3, <1>4
<1>6. ASSUME NEW i \in 1 .. Len(t) PROVE u[i] = t[i]
  <2>1. CASE i \in 1 .. Len(a)
    BY <1>2, <1>4, <2>1
  <2>2. CASE i \in Len(a) + 1 .. Len(t)
    <3>1. i \in Len(a) + 1 .. Len(a) + Len(b) /\ i - Len(a) \in 1 .. Len(b) /\ Len(a) + (i - Len(a)) = i
      BY <1>1, <1>3, <1>4, <2>2
    <3>2. QED
      BY <1>3, <1>4, <3>1
  <2>3. QED
    BY <1>1, <2>1, <2>2
<1>7. u = t
  BY <1>4, <1>5, <1>6
<1>8. QED
  BY <1>3, <1>7 DEF u

\* Sequences begin alike when their first elements are the same.
LEMMA FirstOf ==
  ASSUME NEW S, NEW s \in Seq(S), NEW t \in Seq(S), Len(s) >= 1, Len(t) >= 1
  PROVE  SubSeq(s, 1, 1) = SubSeq(t, 1, 1) <=> t[1] = s[1]
<1>1. \A r \in Seq(S) : Len(r) >= 1 =>
        SubSeq(r, 1, 1) \in Seq(S) /\ Len(SubSeq(r, 1, 1)) = 1 /\ SubSeq(r, 1, 1)[1] = r[1]
  OBVIOUS
<1> DEFINE x == SubSeq(s, 1, 1)
           y == SubSeq(t, 1, 1)
<1>2. x \in Seq(S) /\ Len(x) = 1 /\ x[1] = s[1] /\ y \in Seq(S) /\ Len(y) = 1 /\ y[1] = t[1]
  BY <1>1
<1> HIDE DEF x, y
<1>3. x[1] = y[1] => x = y
  BY <1>2
<1>4. QED
  BY <1>2, <1>3 DEF x, y

\* One element and two are three.
LEMMA Three ==
  ASSUME NEW S, NEW x \in S, NEW y \in S, NEW z \in S
  PROVE  <<y, z>> \in Seq(S) /\ <<x>> \o <<y, z>> = <<x, y, z>>
<1> DEFINE one == <<x>>
           two == <<y, z>>
           t == one \o two
           three == <<x, y, z>>
<1>1. /\ one \in Seq(S) /\ Len(one) = 1 /\ one[1] = x
      /\ two \in Seq(S) /\ Len(two) = 2 /\ two[1] = y /\ two[2] = z
      /\ three \in Seq(S) /\ Len(three) = 3 /\ three[1] = x /\ three[2] = y /\ three[3] = z
  OBVIOUS
<1> HIDE DEF one, two, three
<1>2. /\ t \in Seq(S) /\ Len(t) = Len(one) + Len(two)
      /\ \A i \in 1 .. Len(one) : t[i] = one[i]
      /\ \A i \in Len(one) + 1 .. Len(one) + Len(two) : t[i] = two[i - Len(one)]
  BY <1>1, Together
<1> HIDE DEF t
<1>3. Len(t) = 3 /\ t[1] = x /\ t[2] = y /\ t[3] = z
  <2>1. Len(t) = 3
    BY <1>1, <1>2
  <2>2. t[1] = x
    BY <1>1, <1>2
  <2>3. t[2] = two[2 - 1]
    BY <1>1, <1>2
  <2>4. t[3] = two[3 - 1]
    BY <1>1, <1>2
  <2>5. QED
    BY <1>1, <2>1, <2>2, <2>3, <2>4
<1>4. t = three
  BY <1>1, <1>2, <1>3
<1>5. QED
  BY <1>1, <1>4 DEF t, one, two, three

\* Induction over sequences.
LEMMA Growing ==
  ASSUME NEW S, NEW T, << >> \in T,
         \A s \in Seq(S), x \in S : s \in T => Append(s, x) \in T
  PROVE  \A s \in Seq(S) : s \in T
<1> DEFINE U == {n \in Nat : \A s \in Seq(S) : Len(s) = n => s \in T}
<1>1. 0 \in U
  OBVIOUS
<1>2. ASSUME NEW n \in Nat, n \in U PROVE n + 1 \in U
  <2> SUFFICES ASSUME NEW s \in Seq(S), Len(s) = n + 1 PROVE s \in T
    OBVIOUS
  <2>1. s # << >>
    OBVIOUS
  <2>2. /\ Front(s) \in Seq(S) /\ Last(s) \in S /\ s = Append(Front(s), Last(s))
        /\ Len(Front(s)) = n
    BY <2>1, LastTaken
  <2>3. Front(s) \in T
    BY <1>2, <2>2
  <2>4. QED
    BY <2>2, <2>3
<1> HIDE DEF U
<1>3. \A n \in Nat : n \in U
  BY <1>1, <1>2, CountingUp
<1>4. QED
  BY <1>3 DEF U

=============================================================================
