-------------------------- MODULE NavSearchProofs --------------------------
(***************************************************************************)
(* The navigation agent.  For any documents, calls and cut: how the modes  *)
(* degrade, for which all that matters of evidence is whether it is empty; *)
(* and what evidence is, after any tool calls, a ranking and a selection   *)
(* that are loops over sequences of any length.  For any alphabet, scope   *)
(* and path: what scoped accepts and what it makes of it, by what the      *)
(* loops that cut, resolve and spell a path do with a concatenation.       *)
(***************************************************************************)
EXTENDS NavSearch, PathScope, Induction

\* Required navigation never reaches the catalog, and an empty success was
\* submitted, which is noted after a valid submit only.
Strict ==
    /\ submitted => said
    /\ mode = "require" =>
          /\ phase # "catalog"
          /\ catalog = NotAsked
          /\ answer.status = 200 =>
                answer.source = "nav" /\ (answer.data # <<>> \/ (submitted /\ ending = "submit"))
          /\ phase # "answered" => answer.status = 0

\* An answer without data is the catalog's.
Lenient ==
    mode = "auto" =>
       /\ phase \in {"nav", "stopping", "catalog"} => answer = NoAnswer /\ catalog = NotAsked
       /\ phase = "answered" /\ answer.data = <<>> =>
             catalog.status # "unasked" /\ catalog.data = <<>>

\* What is cut is empty only if it was: at least one is asked for.
LEMMA CutKeepsSome ==
  ASSUME NEW s, s \in SeqOf(Docs, TopK + 1), Cut(s) = <<>>
  PROVE  s = <<>>
<1>1. PICK m \in 0 .. TopK + 1 : s \in [1 .. m -> Docs]
  BY DEF SeqOf
<1>2. s \in Seq(Docs) /\ Len(s) = m
  BY <1>1, NavAssumption
<1>3. CASE m = 0
  BY <1>2, <1>3
<1>4. CASE m > 0
  <2> DEFINE n == IF Len(s) < TopK THEN Len(s) ELSE TopK
  <2>1. n \in Nat /\ 1 <= n /\ n <= Len(s)
    BY <1>2, <1>4, NavAssumption
  <2>2. Len(SubSeq(s, 1, n)) = n
    BY <1>2, <2>1
  <2>3. Len(Cut(s)) = 0
    OBVIOUS
  <2>4. QED
    BY <2>1, <2>2, <2>3 DEF Cut
<1>5. QED
  BY <1>3, <1>4, NavAssumption

\* Both hold at first.
LEMMA InitModes == Init => Strict /\ Lenient
BY DEF Init, Strict, Lenient, NotAsked, NoAnswer

\* And both are kept: by a call, which changes none of their parts but what is
\* noted of a submit; by the end of the run; by the catalog.
LEMMA ModesKept ==
  ASSUME Strict, Lenient, [Next]_vars
  PROVE  Strict' /\ Lenient'
<1>1. CASE (\E p \in Docs : fetch(p))
           \/ (\E paths \in SeqOf(Docs \cup {Outside}, MaxPaths) : submit(paths))
           \/ submitInvalid
  <2>1. /\ phase \in {"nav", "stopping"} /\ phase' \in {"nav", "stopping"}
        /\ UNCHANGED <<mode, catalog, answer>>
        /\ (submitted' => said') \/ UNCHANGED <<submitted, said>>
    BY <1>1 DEF fetch, submit, submitInvalid, Call
  <2>2. QED
    BY <2>1 DEF Strict, Lenient
<1>2. ASSUME NEW how \in {"submit", "parked", "terminal"}, NavReturns(how)
      PROVE  Strict' /\ Lenient'
  <2> USE DEF NavReturns, AgentEnds
  <2> DEFINE found == evidence
  <2>1. /\ phase \in {"nav", "stopping"} /\ UNCHANGED <<mode, submitted, catalog, said>>
        /\ ending' = how
        /\ \/ /\ phase' = "answered"
              /\ answer' = [status |-> 200, data |-> found, source |-> "nav"]
              /\ ~Failed(how) /\ (mode = "require" \/ found # <<>>)
           \/ /\ phase' = "answered" /\ mode = "require"
              /\ answer' = [status |-> 503, data |-> <<>>, source |-> "nav"]
           \/ phase' = "catalog" /\ UNCHANGED answer /\ mode # "require"
    BY <1>2 DEF Respond
  <2>2. ~Failed(how) => found # <<>> \/ (submitted /\ how = "submit")
    BY DEF Failed
  <2> HIDE DEF found, NavReturns, AgentEnds
  <2>3. QED
    BY <2>1, <2>2 DEF Strict, Lenient
<1>3. CASE Catalog
  <2>1. mode # "require" /\ UNCHANGED <<mode, submitted, said>> /\ phase' = "answered"
    BY <1>3 DEF Catalog, Strict, Respond
  <2>2. answer'.data = <<>> => catalog'.status # "unasked" /\ catalog'.data = <<>>
    BY <1>3, CutKeepsSome DEF Catalog, Respond
  <2>3. QED
    BY <2>1, <2>2 DEF Strict, Lenient
<1>4. CASE UNCHANGED vars
  BY <1>4 DEF vars, Strict, Lenient
<1>5. QED
  BY <1>1, <1>2, <1>3, <1>4 DEF Next, Answered

\* Both modes keep to their word.
THEOREM ModesInvariant == Spec => [](Strict /\ Lenient)
<1>1. Strict /\ Lenient /\ [Next]_vars => (Strict /\ Lenient)'
  BY ModesKept
<1>2. QED
  BY <1>1, InitModes, PTL DEF Spec

\* With ADAPTER_NAV=auto nothing is returned only if the catalog has nothing
\* either (fallback.go:23).
THEOREM AutoAsksTheCatalog == Spec => []AutoDegradesFully
<1>1. Lenient => AutoDegradesFully
  BY DEF Lenient, AutoDegradesFully, NotAsked
<1>2. QED
  BY <1>1, ModesInvariant, PTL

-----------------------------------------------------------------------------
\* An element behind a sequence that does not hold it.
LEMMA AppendNew ==
  ASSUME NEW s \in Seq(Docs), IsInjective(s), NEW x \in Docs, ~Contains(s, x)
  PROVE  Append(s, x) \in Seq(Docs) /\ IsInjective(Append(s, x))
<1>1. /\ Append(s, x) \in Seq(Docs) /\ DOMAIN Append(s, x) = 1 .. Len(s) + 1
      /\ DOMAIN s = 1 .. Len(s) /\ Len(s) \in Nat
  BY AppendProperties
<1>2. \A i \in 1 .. Len(s) + 1 : Append(s, x)[i] = IF i <= Len(s) THEN s[i] ELSE x
  BY AppendProperties
<1>3. \A i \in 1 .. Len(s) : s[i] # x
  BY DEF Contains
<1>4. IsInjective(Append(s, x))
  BY <1>1, <1>2, <1>3 DEF IsInjective
<1>5. QED
  BY <1>1, <1>4

\* The loop of submit: whatever paths it is given, the ranking names documents
\* of the scope, each once (nav.go:355).
LEMMA RankingTyped ==
  ASSUME NEW paths \in Seq(Docs \cup {Outside})
  PROVE  Ranking(paths) \in {s \in Seq(Docs) : IsInjective(s)}
<1> DEFINE S == Docs \cup {Outside}
           A == {s \in Seq(Docs) : IsInjective(s)}
           Take(out, p) == IF p = Outside \/ Contains(out, p) THEN out ELSE Append(out, p)
           step == [q \in A \X S |-> Take(q[1], q[2])]
<1>1. \A a \in A, x \in S : step[<<a, x>>] = Take(a, x)
  OBVIOUS
<1>2. ASSUME NEW a \in A, NEW x \in S PROVE Take(a, x) \in A
  <2>1. CASE x = Outside \/ Contains(a, x)
    BY <2>1
  <2>2. CASE x # Outside /\ ~Contains(a, x)
    <3>1. x \in Docs /\ a \in Seq(Docs) /\ IsInjective(a)
      BY <2>2
    <3>2. QED
      BY <2>2, <3>1, AppendNew
  <2>3. QED
    BY <2>1, <2>2
<1>3. << >> \in A
  BY DEF IsInjective
<1> HIDE DEF step
<1> DEFINE Eq(g) == g = [s \in SUBSET DOMAIN paths |->
                          IF s = {} THEN << >> ELSE Take(g[s \ {Max(s)}], paths[Max(s)])]
           f == CHOOSE g : Eq(g)
<1>4. Ranking(paths) = f[DOMAIN paths]
  BY DEF Ranking, FoldLeft, MapThenFoldSet
<1>5. Keeps(step, A, S)
  BY <1>1, <1>2 DEF Keeps
<1> HIDE DEF A, S
<1>6. \E g : Eq(g)
  <2>1. PICK g : g \in [SUBSET DOMAIN paths -> A] /\ Folds(g, paths, A, << >>, step)
    BY <1>3, <1>5, LeftFoldExists DEF S
  <2>2. ASSUME NEW s \in SUBSET DOMAIN paths, s # {}
        PROVE  g[s] = Take(g[s \ {Max(s)}], paths[Max(s)])
    BY <1>1, <2>1, <2>2, MaxOfDomain DEF Folds, S
  <2>3. Eq(g)
    BY <2>1, <2>2 DEF Folds
  <2>4. QED
    BY <2>3
<1>7. Folds(f, paths, A, << >>, step)
  <2>1. Eq(f)
    BY <1>6
  <2> HIDE DEF f
  <2>2. ASSUME NEW s \in SUBSET DOMAIN paths, s # {}, f[s \ {Max(s)}] \in A
        PROVE  f[s] = step[<<f[s \ {Max(s)}], paths[Max(s)]>>]
    <3>1. paths[Max(s)] \in S
      BY <2>2, MaxOfDomain DEF S
    <3>2. f[s] = Take(f[s \ {Max(s)}], paths[Max(s)])
      BY <2>1, <2>2
    <3>3. QED
      BY <1>1, <2>2, <3>1, <3>2
  <2>3. f[{}] = << >>
    BY <2>1
  <2>4. QED
    BY <2>2, <2>3 DEF Folds
<1>8. PICK h : Runs(h, paths, A, << >>, step) /\ h[Len(paths)] = f[DOMAIN paths]
  <2> HIDE DEF f
  <2>1. QED
    BY <1>3, <1>5, <1>7, LeftFoldRuns DEF S
<1>9. h[Len(paths)] \in A
  <2>1. Len(paths) \in 0 .. Len(paths)
    OBVIOUS
  <2>2. QED
    BY <1>8, <2>1 DEF Runs
<1>10. QED
  BY <1>4, <1>8, <1>9 DEF A

\* A step of the loop of evidence().
Vouch(out, p, read) == IF Len(out) = TopK \/ ~Contains(read, p) THEN out ELSE Append(out, p)
Room == {s \in Seq(Docs) : Len(s) <= TopK}

\* The loop takes the ranking one path after another, and stays within TopK.
LEMMA VouchedRuns ==
  ASSUME NEW paths \in Seq(Docs), NEW read
  PROVE  \E h \in [0 .. Len(paths) -> Room] :
            /\ h[0] = << >>
            /\ \A n \in 1 .. Len(paths) : h[n] = Vouch(h[n - 1], paths[n], read)
            /\ h[Len(paths)] = Vouched(paths, read)
<1> DEFINE step == [q \in Room \X Docs |-> Vouch(q[1], q[2], read)]
<1>1. \A a \in Room, x \in Docs : step[<<a, x>>] = Vouch(a, x, read)
  OBVIOUS
<1>2. Keeps(step, Room, Docs)
  <2>1. ASSUME NEW a \in Room, NEW x \in Docs PROVE Vouch(a, x, read) \in Room
    BY NavAssumption DEF Vouch, Room
  <2>2. QED
    BY <1>1, <2>1 DEF Keeps
<1>3. << >> \in Room
  BY NavAssumption DEF Room
<1> HIDE DEF step
<1> DEFINE Eq(g) == g = [s \in SUBSET DOMAIN paths |->
                          IF s = {} THEN << >> ELSE Vouch(g[s \ {Max(s)}], paths[Max(s)], read)]
           f == CHOOSE g : Eq(g)
<1>4. Vouched(paths, read) = f[DOMAIN paths]
  BY DEF Vouched, FoldLeft, MapThenFoldSet, Vouch
<1>5. \E g : Eq(g)
  <2>1. PICK g : g \in [SUBSET DOMAIN paths -> Room] /\ Folds(g, paths, Room, << >>, step)
    BY <1>2, <1>3, LeftFoldExists
  <2>2. ASSUME NEW s \in SUBSET DOMAIN paths, s # {}
        PROVE  g[s] = Vouch(g[s \ {Max(s)}], paths[Max(s)], read)
    BY <1>1, <2>1, <2>2, MaxOfDomain DEF Folds
  <2>3. Eq(g)
    BY <2>1, <2>2 DEF Folds
  <2>4. QED
    BY <2>3
<1>6. Eq(f)
  BY <1>5
<1> HIDE DEF f
<1>7. Folds(f, paths, Room, << >>, step)
  <2>1. ASSUME NEW s \in SUBSET DOMAIN paths, s # {}, f[s \ {Max(s)}] \in Room
        PROVE  f[s] = step[<<f[s \ {Max(s)}], paths[Max(s)]>>]
    <3>1. paths[Max(s)] \in Docs
      BY <2>1, MaxOfDomain
    <3>2. f[s] = Vouch(f[s \ {Max(s)}], paths[Max(s)], read)
      BY <1>6, <2>1
    <3>3. QED
      BY <1>1, <2>1, <3>1, <3>2
  <2>2. f[{}] = << >>
    BY <1>6
  <2>3. QED
    BY <2>1, <2>2 DEF Folds
<1>8. PICK h : Runs(h, paths, Room, << >>, step) /\ h[Len(paths)] = f[DOMAIN paths]
  BY <1>2, <1>3, <1>7, LeftFoldRuns
<1>9. ASSUME NEW n \in 1 .. Len(paths) PROVE h[n] = Vouch(h[n - 1], paths[n], read)
  <2>1. Len(paths) \in Nat /\ paths[n] \in Docs
    OBVIOUS
  <2>2. n - 1 \in 0 .. Len(paths)
    BY <2>1
  <2>3. h[n - 1] \in Room /\ h[n] = step[<<h[n - 1], paths[n]>>]
    BY <1>8, <2>2 DEF Runs
  <2>4. QED
    BY <1>1, <2>1, <2>3
<1>10. QED
  BY <1>4, <1>8, <1>9 DEF Runs

\* What the loop has come to after n paths: documents it has passed and the
\* run has read, in the order of the ranking; and it has left none out unless
\* it is full.
VouchedAfter(out, n, paths, read) ==
    /\ \A i \in 1 .. Len(out) : out[i] \in ToSet(read) /\ \E a \in 1 .. n : paths[a] = out[i]
    /\ \A i, j \in 1 .. Len(out), a, b \in 1 .. Len(paths) :
          i < j /\ paths[a] = out[i] /\ paths[b] = out[j] => a < b
    /\ \A a \in 1 .. n : paths[a] \in ToSet(read) =>
          Len(out) = TopK \/ \E i \in 1 .. Len(out) : out[i] = paths[a]

\* A step of the loop keeps this.
LEMMA VouchKeeps ==
  ASSUME NEW paths \in Seq(Docs), IsInjective(paths), NEW read \in Seq(Docs),
         NEW out \in Room, NEW n \in Nat, n + 1 <= Len(paths), VouchedAfter(out, n, paths, read)
  PROVE  VouchedAfter(Vouch(out, paths[n + 1], read), n + 1, paths, read)
<1> DEFINE p == paths[n + 1]
<1>1. /\ Len(paths) \in Nat /\ n + 1 \in 1 .. Len(paths) /\ p \in Docs
      /\ DOMAIN paths = 1 .. Len(paths) /\ out \in Seq(Docs) /\ Len(out) \in Nat
      /\ \A a \in 1 .. n + 1 : a \in 1 .. n \/ a = n + 1
      /\ \A a \in 1 .. n : a \in 1 .. n + 1 /\ a \in 1 .. Len(paths) /\ a < n + 1
  BY DEF Room
<1>2. ToSet(read) = {read[i] : i \in 1 .. Len(read)}
  BY DEF ToSet
<1>3. Contains(read, p) <=> p \in ToSet(read)
  BY <1>2 DEF Contains
<1> HIDE DEF p
<1>4. CASE Len(out) = TopK \/ ~Contains(read, p)
  <2>1. Vouch(out, p, read) = out
    BY <1>4 DEF Vouch
  <2>2. VouchedAfter(out, n + 1, paths, read)
    BY <1>1, <1>3, <1>4 DEF VouchedAfter, p
  <2>3. QED
    BY <2>1, <2>2 DEF p
<1>5. CASE Len(out) # TopK /\ Contains(read, p)
  <2> DEFINE new == Append(out, p)
  <2>1. Vouch(out, p, read) = new
    BY <1>5 DEF Vouch
  <2>2. /\ Len(new) = Len(out) + 1 /\ new[Len(out) + 1] = p
        /\ \A i \in 1 .. Len(out) : new[i] = out[i]
        /\ \A i \in 1 .. Len(new) : i \in 1 .. Len(out) \/ i = Len(out) + 1
        /\ \A i \in 1 .. Len(out) : i \in 1 .. Len(new)
        /\ Len(out) + 1 \in 1 .. Len(new)
    BY <1>1, AppendProperties
  <2> HIDE DEF new
  <2>3. ASSUME NEW i \in 1 .. Len(new)
        PROVE  new[i] \in ToSet(read) /\ \E a \in 1 .. n + 1 : paths[a] = new[i]
    <3>1. CASE i \in 1 .. Len(out)
      BY <1>1, <2>2, <3>1 DEF VouchedAfter
    <3>2. CASE i = Len(out) + 1
      <4>1. n + 1 \in 1 .. n + 1
        OBVIOUS
      <4>2. QED
        BY <1>3, <1>5, <2>2, <3>2, <4>1 DEF p
    <3>3. QED
      BY <2>2, <3>1, <3>2
  <2>4. ASSUME NEW i \in 1 .. Len(new), NEW j \in 1 .. Len(new),
               NEW a \in 1 .. Len(paths), NEW b \in 1 .. Len(paths),
               i < j, paths[a] = new[i], paths[b] = new[j]
        PROVE  a < b
    <3>1. i \in 1 .. Len(out)
      BY <1>1, <2>2, <2>4
    <3>2. CASE j \in 1 .. Len(out)
      BY <2>2, <2>4, <3>1, <3>2 DEF VouchedAfter
    <3>3. CASE j = Len(out) + 1
      <4>1. b = n + 1
        BY <1>1, <2>2, <2>4, <3>3 DEF IsInjective, p
      <4>2. PICK c \in 1 .. n : paths[c] = out[i]
        BY <3>1 DEF VouchedAfter
      <4>3. a = c
        BY <1>1, <2>2, <2>4, <3>1, <4>2 DEF IsInjective
      <4>4. QED
        BY <1>1, <4>1, <4>2, <4>3
    <3>4. QED
      BY <2>2, <3>2, <3>3
  <2>5. ASSUME NEW a \in 1 .. n + 1, paths[a] \in ToSet(read)
        PROVE  Len(new) = TopK \/ \E i \in 1 .. Len(new) : new[i] = paths[a]
    <3>1. CASE a = n + 1
      BY <2>2, <3>1 DEF p
    <3>2. CASE a \in 1 .. n
      <4>1. PICK i \in 1 .. Len(out) : out[i] = paths[a]
        BY <1>5, <2>5, <3>2 DEF VouchedAfter
      <4>2. QED
        BY <2>2, <4>1
    <3>3. QED
      BY <1>1, <3>1, <3>2
  <2>6. VouchedAfter(new, n + 1, paths, read)
    BY <2>3, <2>4, <2>5 DEF VouchedAfter
  <2>7. QED
    BY <2>1, <2>6 DEF p
<1>6. QED
  BY <1>4, <1>5

\* What evidence() selects from a ranking.
LEMMA VouchedIs ==
  ASSUME NEW paths \in Seq(Docs), IsInjective(paths), NEW read \in Seq(Docs)
  PROVE  /\ Vouched(paths, read) \in Room
         /\ VouchedAfter(Vouched(paths, read), Len(paths), paths, read)
<1>1. PICK h \in [0 .. Len(paths) -> Room] :
            /\ h[0] = << >>
            /\ \A n \in 1 .. Len(paths) : h[n] = Vouch(h[n - 1], paths[n], read)
            /\ h[Len(paths)] = Vouched(paths, read)
  BY VouchedRuns
<1> DEFINE T == {n \in Nat : n <= Len(paths) => VouchedAfter(h[n], n, paths, read)}
<1>2. Len(paths) \in Nat
  OBVIOUS
<1>3. 0 \in T
  <2>1. VouchedAfter(<< >>, 0, paths, read)
    BY DEF VouchedAfter
  <2>2. QED
    BY <1>1, <2>1
<1>4. ASSUME NEW n \in Nat, n \in T PROVE n + 1 \in T
  <2> SUFFICES ASSUME n + 1 <= Len(paths) PROVE VouchedAfter(h[n + 1], n + 1, paths, read)
    OBVIOUS
  <2>1. n + 1 \in 1 .. Len(paths) /\ (n + 1) - 1 = n /\ n \in 0 .. Len(paths) /\ n <= Len(paths)
    BY <1>2
  <2>2. h[n] \in Room /\ h[n + 1] = Vouch(h[n], paths[n + 1], read)
    BY <1>1, <2>1
  <2>3. VouchedAfter(h[n], n, paths, read)
    BY <1>4, <2>1
  <2>4. QED
    BY <2>2, <2>3, VouchKeeps
<1> HIDE DEF T
<1>5. Len(paths) \in T
  BY <1>2, <1>3, <1>4, CountingUp
<1>6. Len(paths) \in 0 .. Len(paths)
  BY <1>2
<1>7. QED
  BY <1>1, <1>5, <1>6 DEF T

\* What is cut is the beginning, as far as there is room.
LEMMA CutIs ==
  ASSUME NEW s \in Seq(Docs)
  PROVE  /\ Cut(s) \in Room /\ Len(Cut(s)) <= Len(s)
         /\ \A i \in 1 .. Len(Cut(s)) : Cut(s)[i] = s[i]
<1> DEFINE n == IF Len(s) < TopK THEN Len(s) ELSE TopK
<1>1. n \in Nat /\ n <= Len(s) /\ n <= TopK
  BY NavAssumption
<1>2. SubSeq(s, 1, n) \in Seq(Docs) /\ Len(SubSeq(s, 1, n)) = n
  BY <1>1, SubSeqProperties
<1>3. \A i \in 1 .. n : SubSeq(s, 1, n)[i] = s[i]
  BY <1>1, SubSeqProperties
<1>4. Cut(s) = SubSeq(s, 1, n)
  BY DEF Cut
<1> HIDE DEF n
<1>5. QED
  BY <1>1, <1>2, <1>3, <1>4 DEF Room

\* In a sequence that names nothing twice a thing is where it is.
LEMMA PositionIs ==
  ASSUME NEW s \in Seq(Docs), IsInjective(s), NEW a \in 1 .. Len(s)
  PROVE  Position(s, s[a]) = a
<1> DEFINE I == {i \in 1 .. Len(s) : s[i] = s[a]}
<1>1. I = {a}
  BY DEF IsInjective
<1>2. Position(s, s[a]) = Min(I)
  BY <1>1 DEF Position, SelectInSeq
<1>3. Min({a}) = a
  BY DEF Min
<1>4. QED
  BY <1>1, <1>2, <1>3

\* The run holds each document once, and an answer of the agent's is its
\* evidence, after an end that was no failure.
Honest ==
    /\ IsInjective(fetched) /\ IsInjective(ranked)
    /\ phase # "answered" => answer = NoAnswer
    /\ FromNav => answer.data = evidence /\ ending # "terminal"

NavInv == TypeOK /\ Honest

\* Evidence is a sequence of documents, no longer than asked for.
LEMMA EvidenceTyped == NavInv => evidence \in Room
BY CutIs, VouchedIs DEF NavInv, TypeOK, Honest, evidence

\* At first nothing is held.
LEMMA InitNav == Init => NavInv
<1> SUFFICES ASSUME Init PROVE NavInv
  OBVIOUS
<1>1. TypeOK
  <2>1. << >> \in Seq(Docs) /\ 0 \in 0 .. MaxCalls
    BY NavAssumption
  <2>2. mode \in {"off", "auto", "require"} /\ phase \in {"nav", "catalog"}
    BY DEF Init, Wired
  <2>3. /\ catalog.status = "unasked" /\ catalog.data = << >>
        /\ answer.status = 0 /\ answer.data = << >>
    BY DEF Init, NotAsked, NoAnswer
  <2>4. QED
    BY <2>1, <2>2, <2>3 DEF Init, TypeOK
<1>2. Honest
  BY DEF Init, Honest, IsInjective, FromNav, NoAnswer
<1>3. QED
  BY <1>1, <1>2 DEF NavInv

\* The tools keep it: the agent can only read and rank before the answer.
LEMMA ToolsKeep ==
  ASSUME NavInv,
         \/ \E p \in Docs : fetch(p)
         \/ \E paths \in SeqOf(Docs \cup {Outside}, MaxPaths) : submit(paths)
         \/ submitInvalid
  PROVE  NavInv'
<1> USE DEF NavInv
<1>1. /\ phase \in {"nav", "stopping"} /\ phase' \in {"nav", "stopping"}
      /\ UNCHANGED <<mode, ending, catalog, answer>> /\ calls' \in 0 .. MaxCalls
  BY NavAssumption DEF fetch, submit, submitInvalid, Call, TypeOK
<1>2. ASSUME fetched' \in Seq(Docs), ranked' \in Seq(Docs), submitted' \in BOOLEAN, said' \in BOOLEAN,
             IsInjective(fetched'), IsInjective(ranked')
      PROVE  NavInv'
  <2>1. TypeOK'
    BY <1>1, <1>2 DEF TypeOK
  <2>2. answer' = NoAnswer /\ ~FromNav'
    BY <1>1 DEF Honest, FromNav, NoAnswer
  <2>3. QED
    BY <1>2, <2>1, <2>2 DEF Honest
<1>3. ASSUME NEW p \in Docs, fetch(p) PROVE NavInv'
  <2>1. /\ UNCHANGED <<ranked, submitted, said>>
        /\ \/ ~Contains(fetched, p) /\ fetched' = Append(fetched, p)
           \/ UNCHANGED fetched
    BY <1>3 DEF fetch
  <2>2. fetched' \in Seq(Docs) /\ IsInjective(fetched')
    <3>1. fetched \in Seq(Docs) /\ IsInjective(fetched)
      BY DEF TypeOK, Honest
    <3>2. CASE UNCHANGED fetched
      BY <3>1, <3>2
    <3>3. CASE ~Contains(fetched, p) /\ fetched' = Append(fetched, p)
      BY <3>1, <3>3, AppendNew
    <3>4. QED
      BY <2>1, <3>2, <3>3
  <2>3. QED
    BY <1>2, <2>1, <2>2 DEF TypeOK, Honest
<1>4. ASSUME NEW paths \in SeqOf(Docs \cup {Outside}, MaxPaths), submit(paths) PROVE NavInv'
  <2>1. PICK m \in 0 .. MaxPaths : paths \in [1 .. m -> Docs \cup {Outside}]
    BY DEF SeqOf
  <2>2. paths \in Seq(Docs \cup {Outside})
    BY <2>1, NavAssumption
  <2>3. ranked' = Ranking(paths) /\ submitted' = TRUE /\ said' = TRUE /\ UNCHANGED fetched
    BY <1>4 DEF submit
  <2>4. ranked' \in Seq(Docs) /\ IsInjective(ranked')
    BY <2>2, <2>3, RankingTyped
  <2>5. QED
    BY <1>2, <2>3, <2>4 DEF TypeOK, Honest
<1>5. CASE submitInvalid
  BY <1>2, <1>5 DEF submitInvalid, TypeOK, Honest
<1>6. QED
  BY <1>3, <1>4, <1>5

\* So do the answers.
LEMMA AnswersKeep ==
  ASSUME NavInv,
         Catalog \/ \E how \in {"submit", "parked", "terminal"} : NavReturns(how)
  PROVE  NavInv'
<1> USE DEF NavInv
<1>1. ASSUME NEW how \in {"submit", "parked", "terminal"}, NavReturns(how) PROVE NavInv'
  <2> DEFINE found == evidence
  <2>1. /\ UNCHANGED <<mode, calls, fetched, ranked, submitted, catalog, said>>
        /\ phase \in {"nav", "stopping"} /\ ending' = how
        /\ \/ /\ phase' = "answered" /\ how # "terminal"
              /\ answer' = [status |-> 200, data |-> found, source |-> "nav"]
           \/ /\ phase' = "answered"
              /\ answer' = [status |-> 503, data |-> << >>, source |-> "nav"]
           \/ phase' = "catalog" /\ UNCHANGED answer
    BY <1>1 DEF NavReturns, AgentEnds, Respond, Failed
  <2>2. found \in Seq(Docs)
    BY EvidenceTyped DEF Room
  <2>3. found' = found
    BY <2>1 DEF evidence
  <2> HIDE DEF found
  <2>4. TypeOK'
    <3>1. << >> \in Seq(Docs)
      OBVIOUS
    <3>2. answer'.status \in {0, 200, 503} /\ answer'.data \in Seq(Docs)
      <4>1. CASE answer' = [status |-> 200, data |-> found, source |-> "nav"]
        BY <2>2, <4>1
      <4>2. CASE answer' = [status |-> 503, data |-> << >>, source |-> "nav"]
        BY <3>1, <4>2
      <4>3. CASE UNCHANGED answer
        BY <4>3 DEF TypeOK
      <4>4. QED
        BY <2>1, <4>1, <4>2, <4>3
    <3>3. phase' \in {"nav", "stopping", "catalog", "answered"}
      BY <2>1
    <3>4. QED
      BY <2>1, <3>2, <3>3 DEF TypeOK
  <2>5. FromNav' => answer'.data = found' /\ ending' # "terminal"
    BY <2>1, <2>3 DEF FromNav, Honest, NoAnswer
  <2>6. phase' # "answered" => answer' = NoAnswer
    BY <2>1 DEF Honest
  <2>7. QED
    BY <2>1, <2>4, <2>5, <2>6 DEF Honest, found
<1>2. CASE Catalog
  <2>1. /\ UNCHANGED <<mode, calls, fetched, ranked, submitted, ending, said>>
        /\ phase' = "answered" /\ answer'.source = "catalog" /\ answer'.status \in {200, 503}
        /\ answer'.data \in Seq(Docs)
        /\ catalog'.status \in {"error", "ok"} /\ catalog'.data \in Seq(Docs)
    <3>1. CASE catalog' = [status |-> "error", data |-> << >>] /\ Respond(503, << >>, "catalog")
      BY <1>2, <3>1 DEF Catalog, Respond
    <3>2. ASSUME NEW s \in SeqOf(Docs, TopK + 1),
                 catalog' = [status |-> "ok", data |-> s], Respond(200, Cut(s), "catalog")
          PROVE  <2>1
      <4>1. PICK m \in 0 .. TopK + 1 : s \in [1 .. m -> Docs]
        BY DEF SeqOf
      <4>2. s \in Seq(Docs)
        BY <4>1, NavAssumption
      <4>3. Cut(s) \in Seq(Docs)
        BY <4>2, CutIs DEF Room
      <4>4. QED
        BY <1>2, <3>2, <4>2, <4>3 DEF Catalog, Respond
    <3>3. QED
      BY <1>2, <3>1, <3>2 DEF Catalog
  <2>2. TypeOK'
    <3>1. /\ phase' \in {"nav", "stopping", "catalog", "answered"}
          /\ answer'.status \in {0, 200, 503}
          /\ catalog'.status \in {"unasked", "error", "ok"}
      BY <2>1
    <3>2. QED
      BY <2>1, <3>1 DEF TypeOK
  <2>3. QED
    BY <2>1, <2>2 DEF Honest, FromNav
<1>3. QED
  BY <1>1, <1>2

\* What the run holds and answers with, for any calls in any order.
THEOREM NavInvariant == Spec => []NavInv
<1>1. NavInv /\ [Next]_vars => NavInv'
  <2> SUFFICES ASSUME NavInv, [Next]_vars PROVE NavInv'
    OBVIOUS
  <2>1. CASE UNCHANGED vars
    <3>1. evidence' = evidence
      BY <2>1 DEF vars, evidence
    <3>2. QED
      BY <2>1, <3>1 DEF vars, NavInv, TypeOK, Honest, FromNav
  <2>2. QED
    BY <2>1, ToolsKeep, AnswersKeep DEF Next, Answered
<1>2. QED
  BY <1>1, InitNav, PTL DEF Spec

\* Whatever the agent calls, what it is answered with was read in this run, by
\* an agent that did not fail, names nothing twice and fits (nav.go:90, 215).
THEOREM EvidenceIsVouched == Spec => []EvidenceVouched
<1>1. NavInv => EvidenceVouched
  <2> SUFFICES ASSUME NavInv, FromNav PROVE EvidenceVouched
    BY DEF EvidenceVouched
  <2> DEFINE out == evidence
  <2>1. answer.data = out /\ ending # "terminal"
    BY DEF NavInv, Honest
  <2>2. /\ fetched \in Seq(Docs) /\ IsInjective(fetched)
        /\ ranked \in Seq(Docs) /\ IsInjective(ranked)
    BY DEF NavInv, TypeOK, Honest
  <2>3. ToSet(fetched) = {fetched[i] : i \in 1 .. Len(fetched)}
    BY <2>2 DEF ToSet
  <2>4. out \in Seq(Docs) /\ Len(out) <= TopK /\ DOMAIN out = 1 .. Len(out) /\ Len(out) \in Nat
    BY EvidenceTyped DEF Room
  <2>5. CASE submitted
    <3>1. out = Vouched(ranked, fetched)
      BY <2>5 DEF evidence
    <3> HIDE DEF out
    <3>2. VouchedAfter(out, Len(ranked), ranked, fetched)
      BY <2>2, <3>1, VouchedIs
    <3>3. \A i \in 1 .. Len(out) : out[i] \in ToSet(fetched)
      BY <3>2 DEF VouchedAfter
    <3>4. ASSUME NEW i \in 1 .. Len(out), NEW j \in 1 .. Len(out), i < j PROVE out[i] # out[j]
      <4>1. PICK a \in 1 .. Len(ranked) : ranked[a] = out[i]
        BY <3>2 DEF VouchedAfter
      <4>2. SUFFICES ASSUME out[i] = out[j] PROVE FALSE
        OBVIOUS
      <4>3. a < a
        BY <3>2, <3>4, <4>1, <4>2 DEF VouchedAfter
      <4>4. QED
        BY <2>2, <4>1, <4>3
    <3>5. IsInjective(out)
      BY <2>4, <3>4 DEF IsInjective
    <3>6. ToSet(out) \subseteq ToSet(fetched)
      BY <2>4, <3>3 DEF ToSet
    <3>7. QED
      BY <2>1, <2>4, <3>5, <3>6 DEF EvidenceVouched
  <2>6. CASE ~submitted
    <3>1. out = Cut(fetched)
      BY <2>6 DEF evidence
    <3> HIDE DEF out
    <3>2. Len(out) <= Len(fetched) /\ \A i \in 1 .. Len(out) : out[i] = fetched[i]
      BY <2>2, <3>1, CutIs
    <3>3. \A i \in 1 .. Len(out) : i \in 1 .. Len(fetched)
      BY <2>2, <2>4, <3>2
    <3>4. IsInjective(out)
      BY <2>2, <2>4, <3>2, <3>3 DEF IsInjective
    <3>5. ToSet(out) \subseteq ToSet(fetched)
      BY <2>3, <2>4, <3>2, <3>3 DEF ToSet
    <3>6. QED
      BY <2>1, <2>4, <3>4, <3>5 DEF EvidenceVouched
  <2>7. QED
    BY <2>5, <2>6
<1>2. QED
  BY <1>1, NavInvariant, PTL

\* The last valid submit_evidence decides what is answered and in what order,
\* and only want of room drops a document that was read (nav.go:211-223).
THEOREM LastSubmitDecides == Spec => []SubmitDecides
<1>1. NavInv => SubmitDecides
  <2> SUFFICES ASSUME NavInv, FromNav, submitted PROVE SubmitDecides
    BY DEF SubmitDecides
  <2> DEFINE out == evidence
  <2>1. answer.data = out /\ out = Vouched(ranked, fetched)
    BY DEF NavInv, Honest, evidence
  <2>2. /\ fetched \in Seq(Docs) /\ ranked \in Seq(Docs) /\ IsInjective(ranked)
    BY DEF NavInv, TypeOK, Honest
  <2>3. out \in Seq(Docs) /\ DOMAIN out = 1 .. Len(out)
    BY EvidenceTyped DEF Room
  <2> HIDE DEF out
  <2>4. VouchedAfter(out, Len(ranked), ranked, fetched)
    BY <2>1, <2>2, VouchedIs
  <2>5. ASSUME NEW i \in DOMAIN out, NEW j \in DOMAIN out, i < j
        PROVE  Position(ranked, out[i]) < Position(ranked, out[j])
    <3>1. PICK a \in 1 .. Len(ranked) : ranked[a] = out[i]
      BY <2>3, <2>4 DEF VouchedAfter
    <3>2. PICK b \in 1 .. Len(ranked) : ranked[b] = out[j]
      BY <2>3, <2>4 DEF VouchedAfter
    <3>3. a < b
      BY <2>3, <2>4, <2>5, <3>1, <3>2 DEF VouchedAfter
    <3>4. Position(ranked, out[i]) = a /\ Position(ranked, out[j]) = b
      BY <2>2, <3>1, <3>2, PositionIs
    <3>5. QED
      BY <3>3, <3>4
  <2>6. ASSUME NEW p \in ToSet(ranked) \cap ToSet(fetched)
        PROVE  Contains(out, p) \/ Len(out) = TopK
    <3>1. PICK a \in 1 .. Len(ranked) : ranked[a] = p
      BY <2>2 DEF ToSet
    <3>2. QED
      BY <2>4, <3>1 DEF VouchedAfter, Contains
  <2>7. QED
    BY <2>1, <2>5, <2>6 DEF SubmitDecides
<1>2. QED
  BY <1>1, NavInvariant, PTL

\* With ADAPTER_NAV=require no search is answered by the catalog, and an empty
\* list was the agent's own word on what it had read (README.md:11).
THEOREM RequireNeverDegrades == Spec => []NoSilentDegradation
<1>1. NavInv /\ Strict /\ SubmitDecides => NoSilentDegradation
  <2> SUFFICES ASSUME NavInv, Strict, SubmitDecides, mode = "require"
               PROVE  NoSilentDegradation
    BY DEF NoSilentDegradation
  <2>1. catalog = NotAsked
    BY DEF Strict
  <2>2. ASSUME answer.status = 200, answer.data = <<>>
        PROVE  said /\ ending = "submit" /\ ToSet(ranked) \cap ToSet(fetched) = {}
    <3>1. FromNav /\ submitted /\ said /\ ending = "submit"
      BY <2>2 DEF Strict, FromNav
    <3>2. \A p : ~(Contains(<<>>, p) \/ Len(<<>>) = TopK)
      BY NavAssumption DEF Contains
    <3>3. \A p \in ToSet(ranked) \cap ToSet(fetched) : FALSE
      BY <2>2, <3>1, <3>2 DEF SubmitDecides
    <3>4. QED
      BY <3>1, <3>3
  <2>3. QED
    BY <2>1, <2>2 DEF NoSilentDegradation
<1>2. QED
  BY <1>1, NavInvariant, ModesInvariant, LastSubmitDecides, PTL

-----------------------------------------------------------------------------
\* The steps of the three loops, on the types they keep.
Text == Seq(Chars)
Texts == Seq(Text)
SomeTexts == Texts \ {<< >>}

Cutting(segs, c) ==
    IF c = "/" THEN Append(segs, << >>) ELSE Append(Front(segs), Append(Last(segs), c))
Entering(out, seg) ==
    IF seg \in {<< >>, <<".">>} THEN out
    ELSE IF seg = <<".", ".">> THEN (IF out = << >> THEN out ELSE Front(out))
    ELSE Append(out, seg)
Spelling(out, seg) == out \o Slash \o seg

CuttingStep == [q \in SomeTexts \X Chars |-> Cutting(q[1], q[2])]
EnteringStep == [q \in Texts \X Text |-> Entering(q[1], q[2])]
SpellingStep == [q \in Text \X Text |-> Spelling(q[1], q[2])]

\* "/" and "." are characters.
LEMMA SlashText == "/" \in Chars /\ "." \in Chars /\ Slash \in Text /\ << >> \in Text
BY DEF Chars, Slash, Text

\* Cutting keeps some texts.
LEMMA CuttingKeeps ==
  << << >> >> \in SomeTexts /\ \A a \in SomeTexts, x \in Chars : Cutting(a, x) \in SomeTexts
<1>1. << << >> >> \in SomeTexts
  BY DEF SomeTexts, Texts, Text
<1>2. ASSUME NEW a \in SomeTexts, NEW x \in Chars PROVE Cutting(a, x) \in SomeTexts
  <2>1. a \in Seq(Text) /\ a # << >>
    BY DEF SomeTexts, Texts
  <2>2. Front(a) \in Seq(Text) /\ Last(a) \in Text
    BY <2>1, LastTaken
  <2>3. << >> \in Text /\ Append(Last(a), x) \in Text
    BY <2>2 DEF Text
  <2>4. ASSUME NEW b \in Seq(Text), NEW y \in Text PROVE Append(b, y) \in SomeTexts
    BY DEF SomeTexts, Texts
  <2>5. QED
    BY <2>1, <2>2, <2>3, <2>4 DEF Cutting
<1>3. QED
  BY <1>1, <1>2

\* Entering keeps texts.
LEMMA EnteringKeeps ==
  << >> \in Texts /\ \A a \in Texts, x \in Text : Entering(a, x) \in Texts
<1>1. << >> \in Texts
  BY DEF Texts
<1>2. ASSUME NEW a \in Texts, NEW x \in Text PROVE Entering(a, x) \in Texts
  <2>1. Append(a, x) \in Texts
    BY DEF Texts
  <2>2. a # << >> => Front(a) \in Texts
    BY LastTaken DEF Texts
  <2>3. QED
    BY <2>1, <2>2 DEF Entering
<1>3. QED
  BY <1>1, <1>2

\* Spelling keeps a text.
LEMMA SpellingKeeps ==
  << >> \in Text /\ \A a \in Text, x \in Text : Spelling(a, x) \in Text
<1>1. Slash \in Seq(Chars)
  BY SlashText DEF Text
<1>2. QED
  BY <1>1 DEF Text, Spelling

\* Segments is a loop over the characters,
LEMMA SegmentsComes ==
  ASSUME NEW seq \in Seq(Chars)
  PROVE  Comes(Segments(seq), seq, SomeTexts, << << >> >>, CuttingStep)
<1>1. \A a \in SomeTexts, x \in Chars : CuttingStep[<<a, x>>] = Cutting(a, x)
  BY DEF CuttingStep
<1>2. Keeps(CuttingStep, SomeTexts, Chars)
  BY <1>1, CuttingKeeps DEF Keeps
<1>3. << << >> >> \in SomeTexts
  BY CuttingKeeps
<1> DEFINE Eq(g) == g = [s \in SUBSET DOMAIN seq |->
                          IF s = {} THEN << << >> >> ELSE Cutting(g[s \ {Max(s)}], seq[Max(s)])]
           f == CHOOSE g : Eq(g)
<1>4. Segments(seq) = f[DOMAIN seq]
  BY DEF Segments, FoldLeft, MapThenFoldSet, Cutting
<1>5. \E g : Eq(g)
  <2>1. PICK g : g \in [SUBSET DOMAIN seq -> SomeTexts] /\ Folds(g, seq, SomeTexts, << << >> >>, CuttingStep)
    BY <1>2, <1>3, LeftFoldExists
  <2>2. ASSUME NEW s \in SUBSET DOMAIN seq, s # {}
        PROVE  g[s] = Cutting(g[s \ {Max(s)}], seq[Max(s)])
    BY <1>1, <2>1, <2>2, MaxOfDomain DEF Folds
  <2>3. Eq(g)
    BY <2>1, <2>2 DEF Folds
  <2>4. QED
    BY <2>3
<1>6. Eq(f)
  BY <1>5
<1> HIDE DEF f
<1>7. Folds(f, seq, SomeTexts, << << >> >>, CuttingStep)
  <2>1. ASSUME NEW s \in SUBSET DOMAIN seq, s # {}, f[s \ {Max(s)}] \in SomeTexts
        PROVE  f[s] = CuttingStep[<<f[s \ {Max(s)}], seq[Max(s)]>>]
    <3>1. seq[Max(s)] \in Chars
      BY <2>1, MaxOfDomain
    <3>2. f[s] = Cutting(f[s \ {Max(s)}], seq[Max(s)])
      BY <1>6, <2>1
    <3>3. QED
      BY <1>1, <2>1, <3>1, <3>2
  <2>2. f[{}] = << << >> >>
    BY <1>6
  <2>3. QED
    BY <2>1, <2>2 DEF Folds
<1>8. PICK h : Runs(h, seq, SomeTexts, << << >> >>, CuttingStep) /\ h[Len(seq)] = f[DOMAIN seq]
  BY <1>2, <1>3, <1>7, LeftFoldRuns
<1>9. QED
  BY <1>4, <1>8 DEF Comes

\* so it grows with them.
LEMMA SegmentsGrows ==
  /\ Segments(<< >>) = << << >> >>
  /\ \A s \in Seq(Chars) : Segments(s) \in SomeTexts
  /\ \A s \in Seq(Chars), x \in Chars : Segments(Append(s, x)) = Cutting(Segments(s), x)
<1>1. << << >> >> \in SomeTexts /\ \A a \in SomeTexts, x \in Chars : CuttingStep[<<a, x>>] = Cutting(a, x)
  BY CuttingKeeps DEF CuttingStep
<1>2. Keeps(CuttingStep, SomeTexts, Chars)
  BY <1>1, CuttingKeeps DEF Keeps
<1>3. Segments(<< >>) = << << >> >>
  <2>1. Comes(Segments(<< >>), << >>, SomeTexts, << << >> >>, CuttingStep)
    <3>1. << >> \in Seq(Chars)
      OBVIOUS
    <3>2. QED
      BY <3>1, SegmentsComes
  <2>2. QED
    BY <2>1, LoopStarts
<1>4. ASSUME NEW s \in Seq(Chars), NEW x \in Chars
      PROVE  Segments(s) \in SomeTexts /\ Segments(Append(s, x)) = Cutting(Segments(s), x)
  <2>1. Append(s, x) \in Seq(Chars)
    OBVIOUS
  <2>2. /\ Comes(Segments(s), s, SomeTexts, << << >> >>, CuttingStep)
        /\ Comes(Segments(Append(s, x)), Append(s, x), SomeTexts, << << >> >>, CuttingStep)
    BY <2>1, SegmentsComes
  <2>3. Segments(s) \in SomeTexts /\ Segments(Append(s, x)) = CuttingStep[<<Segments(s), x>>]
    BY <1>1, <1>2, <2>2, LoopGoesOn
  <2>4. QED
    BY <1>1, <2>3
<1>5. ASSUME NEW s \in Seq(Chars) PROVE Segments(s) \in SomeTexts
  <2>1. CASE s = << >>
    BY <1>1, <1>3, <2>1
  <2>2. CASE s # << >>
    <3>1. Front(s) \in Seq(Chars) /\ Last(s) \in Chars /\ s = Append(Front(s), Last(s))
      BY <2>2, LastTaken
    <3>2. Segments(Front(s)) \in SomeTexts /\ Segments(s) = Cutting(Segments(Front(s)), Last(s))
      BY <1>4, <3>1
    <3>3. QED
      BY <1>1, <1>2, <3>1, <3>2 DEF Keeps
  <2>3. QED
    BY <2>1, <2>2
<1>6. QED
  BY <1>3, <1>4, <1>5

\* Resolve is a loop over the segments,
LEMMA ResolveComes ==
  ASSUME NEW seq \in Seq(Text)
  PROVE  Comes(Resolve(seq), seq, Texts, << >>, EnteringStep)
<1>1. \A a \in Texts, x \in Text : EnteringStep[<<a, x>>] = Entering(a, x)
  BY DEF EnteringStep
<1>2. Keeps(EnteringStep, Texts, Text)
  BY <1>1, EnteringKeeps DEF Keeps
<1>3. << >> \in Texts
  BY EnteringKeeps
<1> DEFINE Eq(g) == g = [s \in SUBSET DOMAIN seq |->
                          IF s = {} THEN << >> ELSE Entering(g[s \ {Max(s)}], seq[Max(s)])]
           f == CHOOSE g : Eq(g)
<1>4. Resolve(seq) = f[DOMAIN seq]
  BY DEF Resolve, FoldLeft, MapThenFoldSet, Entering
<1>5. \E g : Eq(g)
  <2>1. PICK g : g \in [SUBSET DOMAIN seq -> Texts] /\ Folds(g, seq, Texts, << >>, EnteringStep)
    BY <1>2, <1>3, LeftFoldExists
  <2>2. ASSUME NEW s \in SUBSET DOMAIN seq, s # {}
        PROVE  g[s] = Entering(g[s \ {Max(s)}], seq[Max(s)])
    BY <1>1, <2>1, <2>2, MaxOfDomain DEF Folds
  <2>3. Eq(g)
    BY <2>1, <2>2 DEF Folds
  <2>4. QED
    BY <2>3
<1>6. Eq(f)
  BY <1>5
<1> HIDE DEF f
<1>7. Folds(f, seq, Texts, << >>, EnteringStep)
  <2>1. ASSUME NEW s \in SUBSET DOMAIN seq, s # {}, f[s \ {Max(s)}] \in Texts
        PROVE  f[s] = EnteringStep[<<f[s \ {Max(s)}], seq[Max(s)]>>]
    <3>1. seq[Max(s)] \in Text
      BY <2>1, MaxOfDomain
    <3>2. f[s] = Entering(f[s \ {Max(s)}], seq[Max(s)])
      BY <1>6, <2>1
    <3>3. QED
      BY <1>1, <2>1, <3>1, <3>2
  <2>2. f[{}] = << >>
    BY <1>6
  <2>3. QED
    BY <2>1, <2>2 DEF Folds
<1>8. PICK h : Runs(h, seq, Texts, << >>, EnteringStep) /\ h[Len(seq)] = f[DOMAIN seq]
  BY <1>2, <1>3, <1>7, LeftFoldRuns
<1>9. QED
  BY <1>4, <1>8 DEF Comes

\* so it grows with them.
LEMMA ResolveGrows ==
  /\ Resolve(<< >>) = << >>
  /\ \A s \in Seq(Text) : Resolve(s) \in Texts
  /\ \A s \in Seq(Text), x \in Text : Resolve(Append(s, x)) = Entering(Resolve(s), x)
<1>1. << >> \in Texts /\ \A a \in Texts, x \in Text : EnteringStep[<<a, x>>] = Entering(a, x)
  BY EnteringKeeps DEF EnteringStep
<1>2. Keeps(EnteringStep, Texts, Text)
  BY <1>1, EnteringKeeps DEF Keeps
<1>3. Resolve(<< >>) = << >>
  <2>1. Comes(Resolve(<< >>), << >>, Texts, << >>, EnteringStep)
    <3>1. << >> \in Seq(Text)
      OBVIOUS
    <3>2. QED
      BY <3>1, ResolveComes
  <2>2. QED
    BY <2>1, LoopStarts
<1>4. ASSUME NEW s \in Seq(Text), NEW x \in Text
      PROVE  Resolve(s) \in Texts /\ Resolve(Append(s, x)) = Entering(Resolve(s), x)
  <2>1. Append(s, x) \in Seq(Text)
    OBVIOUS
  <2>2. /\ Comes(Resolve(s), s, Texts, << >>, EnteringStep)
        /\ Comes(Resolve(Append(s, x)), Append(s, x), Texts, << >>, EnteringStep)
    BY <2>1, ResolveComes
  <2>3. Resolve(s) \in Texts /\ Resolve(Append(s, x)) = EnteringStep[<<Resolve(s), x>>]
    BY <1>1, <1>2, <2>2, LoopGoesOn
  <2>4. QED
    BY <1>1, <2>3
<1>5. ASSUME NEW s \in Seq(Text) PROVE Resolve(s) \in Texts
  <2>1. CASE s = << >>
    BY <1>1, <1>3, <2>1
  <2>2. CASE s # << >>
    <3>1. Front(s) \in Seq(Text) /\ Last(s) \in Text /\ s = Append(Front(s), Last(s))
      BY <2>2, LastTaken
    <3>2. Resolve(Front(s)) \in Texts /\ Resolve(s) = Entering(Resolve(Front(s)), Last(s))
      BY <1>4, <3>1
    <3>3. QED
      BY <1>1, <1>2, <3>1, <3>2 DEF Keeps
  <2>3. QED
    BY <2>1, <2>2
<1>6. QED
  BY <1>3, <1>4, <1>5

\* Spell is a loop over the segments,
LEMMA SpellComes ==
  ASSUME NEW seq \in Seq(Text)
  PROVE  Comes(Spell(seq), seq, Text, << >>, SpellingStep)
<1>1. \A a \in Text, x \in Text : SpellingStep[<<a, x>>] = Spelling(a, x)
  BY DEF SpellingStep
<1>2. Keeps(SpellingStep, Text, Text)
  BY <1>1, SpellingKeeps DEF Keeps
<1>3. << >> \in Text
  BY SpellingKeeps
<1> DEFINE Eq(g) == g = [s \in SUBSET DOMAIN seq |->
                          IF s = {} THEN << >> ELSE Spelling(g[s \ {Max(s)}], seq[Max(s)])]
           f == CHOOSE g : Eq(g)
<1>4. Spell(seq) = f[DOMAIN seq]
  BY DEF Spell, FoldLeft, MapThenFoldSet, Spelling
<1>5. \E g : Eq(g)
  <2>1. PICK g : g \in [SUBSET DOMAIN seq -> Text] /\ Folds(g, seq, Text, << >>, SpellingStep)
    BY <1>2, <1>3, LeftFoldExists
  <2>2. ASSUME NEW s \in SUBSET DOMAIN seq, s # {}
        PROVE  g[s] = Spelling(g[s \ {Max(s)}], seq[Max(s)])
    BY <1>1, <2>1, <2>2, MaxOfDomain DEF Folds
  <2>3. Eq(g)
    BY <2>1, <2>2 DEF Folds
  <2>4. QED
    BY <2>3
<1>6. Eq(f)
  BY <1>5
<1> HIDE DEF f
<1>7. Folds(f, seq, Text, << >>, SpellingStep)
  <2>1. ASSUME NEW s \in SUBSET DOMAIN seq, s # {}, f[s \ {Max(s)}] \in Text
        PROVE  f[s] = SpellingStep[<<f[s \ {Max(s)}], seq[Max(s)]>>]
    <3>1. seq[Max(s)] \in Text
      BY <2>1, MaxOfDomain
    <3>2. f[s] = Spelling(f[s \ {Max(s)}], seq[Max(s)])
      BY <1>6, <2>1
    <3>3. QED
      BY <1>1, <2>1, <3>1, <3>2
  <2>2. f[{}] = << >>
    BY <1>6
  <2>3. QED
    BY <2>1, <2>2 DEF Folds
<1>8. PICK h : Runs(h, seq, Text, << >>, SpellingStep) /\ h[Len(seq)] = f[DOMAIN seq]
  BY <1>2, <1>3, <1>7, LeftFoldRuns
<1>9. QED
  BY <1>4, <1>8 DEF Comes

\* so it grows with them.
LEMMA SpellGrows ==
  /\ Spell(<< >>) = << >>
  /\ \A s \in Seq(Text) : Spell(s) \in Text
  /\ \A s \in Seq(Text), x \in Text : Spell(Append(s, x)) = Spelling(Spell(s), x)
<1>1. << >> \in Text /\ \A a \in Text, x \in Text : SpellingStep[<<a, x>>] = Spelling(a, x)
  BY SpellingKeeps DEF SpellingStep
<1>2. Keeps(SpellingStep, Text, Text)
  BY <1>1, SpellingKeeps DEF Keeps
<1>3. Spell(<< >>) = << >>
  <2>1. Comes(Spell(<< >>), << >>, Text, << >>, SpellingStep)
    <3>1. << >> \in Seq(Text)
      OBVIOUS
    <3>2. QED
      BY <3>1, SpellComes
  <2>2. QED
    BY <2>1, LoopStarts
<1>4. ASSUME NEW s \in Seq(Text), NEW x \in Text
      PROVE  Spell(s) \in Text /\ Spell(Append(s, x)) = Spelling(Spell(s), x)
  <2>1. Append(s, x) \in Seq(Text)
    OBVIOUS
  <2>2. /\ Comes(Spell(s), s, Text, << >>, SpellingStep)
        /\ Comes(Spell(Append(s, x)), Append(s, x), Text, << >>, SpellingStep)
    BY <2>1, SpellComes
  <2>3. Spell(s) \in Text /\ Spell(Append(s, x)) = SpellingStep[<<Spell(s), x>>]
    BY <1>1, <1>2, <2>2, LoopGoesOn
  <2>4. QED
    BY <1>1, <2>3
<1>5. ASSUME NEW s \in Seq(Text) PROVE Spell(s) \in Text
  <2>1. CASE s = << >>
    BY <1>1, <1>3, <2>1
  <2>2. CASE s # << >>
    <3>1. Front(s) \in Seq(Text) /\ Last(s) \in Text /\ s = Append(Front(s), Last(s))
      BY <2>2, LastTaken
    <3>2. Spell(Front(s)) \in Text /\ Spell(s) = Spelling(Spell(Front(s)), Last(s))
      BY <1>4, <3>1
    <3>3. QED
      BY <1>1, <1>2, <3>1, <3>2 DEF Keeps
  <2>3. QED
    BY <2>1, <2>2
<1>6. QED
  BY <1>3, <1>4, <1>5


\* A path is cut at any slash.
LEMMA SegmentsSplit ==
  ASSUME NEW a \in Text, NEW b \in Text
  PROVE  Segments(a \o Slash \o b) = Segments(a) \o Segments(b)
<1> DEFINE l == a \o Slash
           T == {t \in Text : Segments(l \o t) = Segments(a) \o Segments(t)}
<1>0. /\ a \in Seq(Chars) /\ Slash \in Seq(Chars) /\ "/" \in Chars
      /\ l \in Seq(Chars) /\ l = Append(a, "/")
  BY SlashText DEF Text, Slash
<1>1. Segments(a) \in Texts /\ Segments(l) = Append(Segments(a), << >>)
  BY <1>0, SegmentsGrows DEF Cutting, SomeTexts, Text
<1> HIDE DEF l
<1>2. << >> \in T
  <2>1. l \o << >> = l
    BY <1>0
  <2>2. Segments(a) \o << << >> >> = Append(Segments(a), << >>)
    BY <1>1 DEF Texts
  <2>3. QED
    BY <1>1, <2>1, <2>2, SegmentsGrows, SlashText
<1>3. ASSUME NEW s \in Seq(Chars), NEW x \in Chars, s \in T PROVE Append(s, x) \in T
  <2>1. l \o Append(s, x) = Append(l \o s, x) /\ l \o s \in Seq(Chars) /\ Append(s, x) \in Text
    BY <1>0, ConcatAppend DEF Text
  <2>2. Segments(l \o Append(s, x)) = Cutting(Segments(a) \o Segments(s), x)
    BY <1>3, <2>1, SegmentsGrows
  <2>3. Segments(Append(s, x)) = Cutting(Segments(s), x)
    BY SegmentsGrows
  <2>4. Segments(s) \in Seq(Text) /\ Segments(s) # << >> /\ Segments(a) \in Seq(Text)
    BY <1>1, SegmentsGrows DEF SomeTexts, Texts
  <2>5. Cutting(Segments(a) \o Segments(s), x) = Segments(a) \o Cutting(Segments(s), x)
    <3> DEFINE A == Segments(a)
               B == Segments(s)
    <3> HIDE DEF A, B
    <3>1. A \in Seq(Text) /\ B \in Seq(Text) /\ B # << >>
      BY <2>4 DEF A, B
    <3>2. Front(A \o B) = A \o Front(B) /\ Last(A \o B) = Last(B)
      BY <3>1, ConcatFront
    <3>3. Front(B) \in Seq(Text) /\ Last(B) \in Text
      BY <3>1, LastTaken
    <3>4. Append(Last(B), x) \in Text /\ << >> \in Text
      BY <3>3 DEF Text
    <3>5. /\ A \o Append(B, << >>) = Append(A \o B, << >>)
          /\ A \o Append(Front(B), Append(Last(B), x)) = Append(A \o Front(B), Append(Last(B), x))
      BY <3>1, <3>3, <3>4, ConcatAppend
    <3>6. Cutting(A \o B, x) = A \o Cutting(B, x)
      BY <3>2, <3>5 DEF Cutting
    <3>7. QED
      BY <3>6 DEF A, B
  <2>6. QED
    BY <2>1, <2>2, <2>3, <2>5
<1> HIDE DEF T
<1>4. b \in T
  BY <1>2, <1>3, Growing DEF Text
<1>5. QED
  BY <1>4 DEF T, l

\* A segment: a text without a slash.
Word == Seq(Chars \ {"/"})

\* It is a text.
LEMMA WordsAreTexts == Word \subseteq Text
BY DEF Word, Text

\* What has no slash is one segment.
LEMMA SegmentsOfWord ==
  ASSUME NEW w \in Word
  PROVE  Segments(w) = <<w>>
<1> DEFINE S == Chars \ {"/"}
           T == {t \in Word : Segments(t) = <<t>>}
<1>1. << >> \in T
  BY SegmentsGrows DEF Word
<1>2. ASSUME NEW s \in Seq(S), NEW x \in S, s \in T PROVE Append(s, x) \in T
  <2>1. s \in Text /\ x \in Chars /\ x # "/" /\ Append(s, x) \in Word
    BY WordsAreTexts DEF Word
  <2>2. Segments(Append(s, x)) = Append(Front(<<s>>), Append(Last(<<s>>), x))
    BY <1>2, <2>1, SegmentsGrows DEF Cutting, Text
  <2>3. Front(<<s>>) = << >> /\ Last(<<s>>) = s
    BY <2>1 DEF Front, Last
  <2> DEFINE t == Append(s, x)
  <2>4. Segments(t) = Append(<< >>, t)
    BY <2>2, <2>3
  <2> HIDE DEF t
  <2>6. Append(<< >>, t) = <<t>>
    OBVIOUS
  <2>5. QED
    BY <2>1, <2>4, <2>6 DEF t
<1> HIDE DEF T
<1>3. w \in T
  BY <1>1, <1>2, Growing DEF Word
<1>4. QED
  BY <1>3 DEF T

\* No segment has a slash in it.
LEMMA SegmentsAreWords ==
  ASSUME NEW p \in Text
  PROVE  Segments(p) \in Seq(Word) /\ Segments(p) # << >>
<1> DEFINE T == {t \in Text : Segments(t) \in Seq(Word) /\ Segments(t) # << >>}
<1>1. << >> \in T
  <2>1. << >> \in Word
    BY DEF Word
  <2>2. << << >> >> \in Seq(Word) /\ << << >> >> # << >>
    BY <2>1
  <2>3. QED
    BY <2>2, SegmentsGrows, SlashText
<1>2. ASSUME NEW s \in Seq(Chars), NEW x \in Chars, s \in T PROVE Append(s, x) \in T
  <2> DEFINE B == Segments(s)
  <2>1. Append(s, x) \in Text /\ Segments(Append(s, x)) = Cutting(B, x) /\ B \in Seq(Word) /\ B # << >>
    BY <1>2, SegmentsGrows DEF Text
  <2> HIDE DEF B
  <2>2. Front(B) \in Seq(Word) /\ Last(B) \in Word
    BY <2>1, LastTaken
  <2>3. << >> \in Word /\ (x # "/" => Append(Last(B), x) \in Word)
    BY <2>2 DEF Word
  <2>4. \A a \in Seq(Word), y \in Word : Append(a, y) \in Seq(Word) /\ Append(a, y) # << >>
    OBVIOUS
  <2>5. Cutting(B, x) \in Seq(Word) /\ Cutting(B, x) # << >>
    BY <2>1, <2>2, <2>3, <2>4 DEF Cutting
  <2>6. QED
    BY <2>1, <2>5
<1> HIDE DEF T
<1>3. p \in T
  BY <1>1, <1>2, Growing DEF Text
<1>4. QED
  BY <1>3 DEF T

\* A segment that is a name.
Names == {w \in Word : Named(w)}

\* Nothing is left of what means nothing or goes up.
LEMMA ResolveLeavesNames ==
  ASSUME NEW S \in Seq(Word)
  PROVE  Resolve(S) \in Seq(Names)
<1> DEFINE T == {t \in Seq(Word) : Resolve(t) \in Seq(Names)}
<1>0. Seq(Word) \subseteq Seq(Text)
  BY WordsAreTexts
<1>1. << >> \in T
  <2>1. << >> \in Seq(Word) /\ << >> \in Seq(Names)
    OBVIOUS
  <2>2. QED
    BY <2>1, ResolveGrows
<1>2. ASSUME NEW s \in Seq(Word), NEW x \in Word, s \in T PROVE Append(s, x) \in T
  <2> DEFINE B == Resolve(s)
  <2>1. Append(s, x) \in Seq(Word) /\ B \in Seq(Names)
    BY <1>2
  <2>2. Resolve(Append(s, x)) = Entering(B, x)
    BY <1>0, WordsAreTexts, ResolveGrows
  <2> HIDE DEF B
  <2>3. B # << >> => Front(B) \in Seq(Names)
    BY <2>1, LastTaken
  <2>4. Named(x) => Append(B, x) \in Seq(Names)
    BY <2>1 DEF Names
  <2>5. Entering(B, x) \in Seq(Names)
    BY <2>1, <2>3, <2>4 DEF Entering, Named
  <2>6. QED
    BY <2>1, <2>2, <2>5
<1> HIDE DEF T
<1>3. S \in T
  BY <1>1, <1>2, Growing
<1>4. QED
  BY <1>3 DEF T

\* A path that was spelled is cut into the segments it was spelled from.
LEMMA SegmentsOfSpelled ==
  ASSUME NEW S \in Seq(Word)
  PROVE  Spell(S) \in Text /\ Segments(Spell(S)) = << << >> >> \o S
<1> DEFINE T == {t \in Seq(Word) : Segments(Spell(t)) = << << >> >> \o t}
<1>0. Seq(Word) \subseteq Seq(Text)
  BY WordsAreTexts
<1>1. << >> \in T
  <2>1. << << >> >> \o << >> = << << >> >>
    OBVIOUS
  <2>2. QED
    BY <2>1, SpellGrows, SegmentsGrows
<1>2. ASSUME NEW s \in Seq(Word), NEW x \in Word, s \in T PROVE Append(s, x) \in T
  <2>1. Append(s, x) \in Seq(Word) /\ Spell(s) \in Text /\ x \in Text
    BY <1>0, WordsAreTexts, SpellGrows
  <2>2. Spell(Append(s, x)) = Spell(s) \o Slash \o x
    BY <1>0, <2>1, SpellGrows DEF Spelling
  <2>3. Segments(Spell(Append(s, x))) = (<< << >> >> \o s) \o <<x>>
    BY <1>2, <2>1, <2>2, SegmentsSplit, SegmentsOfWord
  <2>4. (<< << >> >> \o s) \o <<x>> = << << >> >> \o Append(s, x)
    <3>1. << << >> >> \in Seq(Word)
      BY DEF Word
    <3>2. << << >> >> \o Append(s, x) = Append(<< << >> >> \o s, x) /\ << << >> >> \o s \in Seq(Word)
      BY <3>1, ConcatAppend
    <3>3. Append(<< << >> >> \o s, x) = (<< << >> >> \o s) \o <<x>>
      BY <3>1, <3>2, ConcatAppend
    <3>4. QED
      BY <3>2, <3>3
  <2>5. QED
    BY <2>1, <2>3, <2>4
<1> HIDE DEF T
<1>3. S \in T
  BY <1>1, <1>2, Growing
<1>4. Spell(S) \in Text
  BY <1>0, SpellGrows
<1>5. QED
  BY <1>3, <1>4 DEF T


\* The scope is a path of two names.
LEMMA ScopeSpelled ==
  /\ Root \in Names /\ User \in Names /\ << >> \in Word /\ <<".">> \in Word
  /\ Scope \in Text /\ Len(Scope) >= 4
  /\ Scope = Spell(<<Root, User>>)
  /\ Segments(Scope) = << << >>, Root, User >>
<1>1. ASSUME NEW w \in Seq(Letters) \ {<< >>} PROVE w \in Names
  <2>1. w \in Seq(Chars \ {"/"})
    BY PathAssumption DEF Chars
  <2>2. w # <<".">> /\ w # <<".", ".">>
    BY PathAssumption
  <2>3. QED
    BY <1>1, <2>1, <2>2 DEF Names, Word, Named
<1>2. Root \in Names /\ User \in Names
  BY <1>1, PathAssumption
<1>3. << >> \in Word /\ <<".">> \in Word
  BY DEF Word, Chars
<1>4. Root \in Word /\ User \in Word /\ Root \in Text /\ User \in Text
  BY <1>2, WordsAreTexts DEF Names
<1>5. Spell(<<Root, User>>) = Scope
  <2>1. << >> \in Seq(Text) /\ <<Root>> \in Seq(Text)
        /\ <<Root>> = Append(<< >>, Root) /\ <<Root, User>> = Append(<<Root>>, User)
    BY <1>4
  <2>2. Spell(<<Root>>) = (<< >> \o Slash) \o Root
    BY <1>4, <2>1, SpellGrows DEF Spelling
  <2>3. << >> \o Slash = Slash
    BY SlashText, Together DEF Text
  <2>4. Spell(<<Root, User>>) = Spell(<<Root>>) \o Slash \o User
    BY <1>4, <2>1, SpellGrows DEF Spelling
  <2>5. QED
    BY <2>2, <2>3, <2>4 DEF Scope
<1>6. <<Root, User>> \in Seq(Word) /\ << << >> >> \o <<Root, User>> = << << >>, Root, User >>
  BY <1>3, <1>4, Three
<1>7. Scope \in Text /\ Segments(Scope) = << << >>, Root, User >>
  BY <1>5, <1>6, SegmentsOfSpelled
<1>8. Len(Scope) >= 4
  <2>1. Root \in Seq(Chars) /\ User \in Seq(Chars) /\ Slash \in Seq(Chars) /\ Len(Slash) = 1
    BY <1>4, SlashText DEF Text, Slash
  <2>2. Len(Root) >= 1 /\ Len(User) >= 1
    BY <1>4, PathAssumption DEF Text
  <2> DEFINE q == Slash \o Root
             r == q \o Slash
  <2>4. q \in Seq(Chars) /\ Len(q) = Len(Slash) + Len(Root) /\ Len(q) \in Nat
    BY <2>1, Together
  <2> HIDE DEF q
  <2>5. r \in Seq(Chars) /\ Len(r) = Len(q) + Len(Slash) /\ Len(r) \in Nat
    BY <2>1, <2>4, Together
  <2> HIDE DEF r
  <2>6. Len(r \o User) = Len(r) + Len(User)
    BY <2>1, <2>5, Together
  <2>7. Scope = r \o User
    BY DEF Scope, q, r
  <2>3. Len(Scope) = 1 + Len(Root) + 1 + Len(User)
    BY <2>1, <2>4, <2>5, <2>6, <2>7
  <2>8. QED
    BY <2>1, <2>2, <2>3
<1>9. QED
  BY <1>2, <1>3, <1>5, <1>7, <1>8

\* A path to test is either rooted or put under the scope.
LEMMA RootedText ==
  ASSUME NEW p \in Text
  PROVE  /\ Rooted(p) \in Text /\ Segments(Rooted(p)) \in Seq(Word)
         /\ Resolve(Segments(Rooted(p))) \in Seq(Names)
<1>1. Rooted(p) \in Text
  BY ScopeSpelled, SlashText, Together DEF Rooted, Text
<1>2. QED
  BY <1>1, SegmentsAreWords, ResolveLeavesNames

\* A resolved path is cut into names, with nothing before and perhaps after.
LEMMA ResolvedSegments ==
  ASSUME NEW p \in Text
  PROVE  LET names == Resolve(Segments(Rooted(p))) IN
         /\ Resolved(p) \in Text
         /\ names = << >> => Len(Resolved(p)) <= 2
         /\ names # << >> => \/ Segments(Resolved(p)) = << << >> >> \o names
                             \/ Segments(Resolved(p)) = (<< << >> >> \o names) \o << << >> >>
<1> DEFINE names == Resolve(Segments(Rooted(p)))
           tail == IF Trailing(Rooted(p)) THEN Slash ELSE << >>
           body == Clean(Rooted(p))
<1>1. names \in Seq(Names) /\ names \in Seq(Word)
  BY RootedText DEF Names
<1>2. Resolved(p) = body \o tail /\ body = (IF names = << >> THEN Slash ELSE Spell(names))
  BY DEF Resolved, Clean
<1>3. tail \in {Slash, << >>} /\ Slash \in Seq(Chars) /\ Len(Slash) = 1
  BY SlashText DEF Text, Slash
<1> HIDE DEF names, tail, body
<1>4. CASE names = << >>
  <2>1. tail \in Seq(Chars) /\ Len(tail) <= 1 /\ Len(tail) \in Nat
    <3>1. CASE tail = Slash
      <4>1. Slash \in Seq(Chars) /\ Len(Slash) = 1
        BY <1>3
      <4>2. tail \in Seq(Chars) /\ Len(tail) = 1
        BY <3>1, <4>1
      <4>3. QED
        BY <4>2
    <3>2. CASE tail = << >>
      <4>1. << >> \in Seq(Chars) /\ Len(<< >>) = 0
        BY Nothing
      <4>2. tail \in Seq(Chars) /\ Len(tail) = 0
        BY <3>2, <4>1
      <4>3. QED
        BY <4>2
    <3>3. QED
      BY <1>3, <3>1, <3>2
  <2>2. Resolved(p) = Slash \o tail
    BY <1>2, <1>4
  <2>5. Slash \o tail \in Seq(Chars) /\ Len(Slash \o tail) = Len(Slash) + Len(tail)
    BY <1>3, <2>1, Together
  <2>3. Resolved(p) \in Seq(Chars) /\ Len(Resolved(p)) <= 2
    BY <1>3, <2>1, <2>2, <2>5
  <2>4. QED
    BY <1>4, <2>3 DEF Text, names
<1>5. CASE names # << >>
  <2>1. body \in Text /\ Segments(body) = << << >> >> \o names
    BY <1>1, <1>2, <1>5, SegmentsOfSpelled
  <2>2. CASE tail = << >>
    <3>1. Resolved(p) = body
      BY <1>2, <2>1, <2>2, Together DEF Text
    <3>2. QED
      BY <1>5, <2>1, <3>1 DEF names
  <2>3. CASE tail = Slash
    <3>1. /\ Resolved(p) \in Text /\ Resolved(p) = body \o Slash \o << >>
      BY <1>2, <1>3, <2>1, <2>3, Together, SlashText DEF Text
    <3>2. Segments(Resolved(p)) = (<< << >> >> \o names) \o << << >> >>
      BY <2>1, <3>1, SegmentsSplit, SegmentsGrows, SlashText
    <3>3. QED
      BY <1>5, <3>1, <3>2 DEF names
  <2>4. QED
    BY <1>3, <2>2, <2>3
<1>6. QED
  BY <1>4, <1>5


\* What is accepted is the scope, or the scope, a slash and more.
LEMMA AcceptedShape ==
  ASSUME NEW p \in Text
  PROVE  Accepted(p) <=> \/ Resolved(p) = Scope
                         \/ \E rest \in Text : Resolved(p) = Scope \o Slash \o rest
<1>1. Scope \o Slash \in Seq(Chars) /\ Resolved(p) \in Seq(Chars)
  BY ScopeSpelled, SlashText, Together, ResolvedSegments DEF Text
<1> DEFINE l == Scope \o Slash
<1> HIDE DEF l
<1>2. IsPrefix(l, Resolved(p)) => \E rest \in Text : Resolved(p) = l \o rest
  BY <1>1, ConcatOfPrefix DEF Text, l
<1>3. ASSUME NEW rest \in Text, Resolved(p) = l \o rest PROVE IsPrefix(l, Resolved(p))
  BY <1>1, <1>3, PrefixOfConcat DEF Text, l
<1>4. QED
  BY <1>2, <1>3 DEF Accepted, l

\* Names with nothing before them, and perhaps nothing after, are what an
\* accepted path is cut into.
LEMMA OnlyNames ==
  ASSUME NEW names \in Seq(Names), NEW segs,
         \/ segs = << << >> >> \o names
         \/ segs = (<< << >> >> \o names) \o << << >> >>
  PROVE  \A i \in 2 .. Len(segs) : Named(segs[i]) \/ (i = Len(segs) /\ segs[i] = << >>)
<1> DEFINE one == << << >> >>
           w == one \o names
<1>1. one \in Seq(Word) /\ Len(one) = 1 /\ one[1] = << >> /\ names \in Seq(Word)
  BY ScopeSpelled DEF Names
<1>2. /\ w \in Seq(Word) /\ Len(w) = 1 + Len(names) /\ Len(names) \in Nat
      /\ \A i \in 1 + 1 .. 1 + Len(names) : w[i] = names[i - 1]
  <2> HIDE DEF one
  <2>1. QED
    BY <1>1, Together
<1> HIDE DEF one, w
<1>3. ASSUME NEW i \in 2 .. Len(w) PROVE Named(w[i])
  <2>1. i - 1 \in 1 .. Len(names) /\ i \in 1 + 1 .. 1 + Len(names)
    BY <1>2
  <2>2. w[i] = names[i - 1]
    BY <1>2, <2>1
  <2>3. names[i - 1] \in Names
    BY <2>1
  <2>4. QED
    BY <2>2, <2>3 DEF Names
<1>4. CASE segs = w
  BY <1>3, <1>4
<1>5. CASE segs = w \o one
  <2>1. /\ Len(w) \in Nat /\ Len(segs) = Len(w) + 1
        /\ \A i \in 1 .. Len(w) : segs[i] = w[i]
        /\ \A i \in Len(w) + 1 .. Len(w) + 1 : segs[i] = one[i - Len(w)]
    BY <1>1, <1>2, <1>5, Together
  <2>2. segs[Len(segs)] = << >>
    <3>1. Len(segs) \in Len(w) + 1 .. Len(w) + 1 /\ Len(segs) - Len(w) = 1
      BY <2>1
    <3>2. QED
      BY <1>1, <2>1, <3>1
  <2>3. ASSUME NEW i \in 2 .. Len(segs), i # Len(segs) PROVE Named(segs[i])
    <3>1. i \in 1 .. Len(w) /\ i \in 2 .. Len(w)
      BY <2>1, <2>3
    <3>2. QED
      BY <1>3, <2>1, <3>1
  <2>4. QED
    BY <2>2, <2>3
<1>6. QED
  BY <1>4, <1>5 DEF one, w

\* The path is a text,
RawText == raw \in Text

\* in every state of the run.
LEMMA RawIsText == PathSpec => []RawText
<1>1. PathInit => RawText
  BY DEF PathInit, RawText, Text
<1>2. RawText /\ [PathNext]_raw => RawText'
  BY DEF PathNext, RawText, Text
<1>3. QED
  BY <1>1, <1>2, PTL DEF PathSpec

\* An accepted path lies under the scope segment by segment, for every
\* alphabet, scope and length.
LEMMA Inside == RawText => StaysInside
<1> SUFFICES ASSUME raw \in Text, Accepted(raw)
             PROVE  /\ IsPrefix(<< << >>, Root, User >>, Segments(Resolved(raw)))
                    /\ LET segs == Segments(Resolved(raw)) IN
                       \A i \in 2 .. Len(segs) : Named(segs[i]) \/ (i = Len(segs) /\ segs[i] = << >>)
  BY DEF StaysInside, RawText
<1> DEFINE names == Resolve(Segments(Rooted(raw)))
           top == << << >>, Root, User >>
           path == Resolved(raw)
<1>0. top = Segments(Scope) /\ top \in Seq(Word) /\ Scope \in Text
  BY ScopeSpelled, SegmentsAreWords
<1>1. /\ names \in Seq(Names) /\ path \in Text
      /\ names = << >> => Len(path) <= 2
      /\ names # << >> => \/ Segments(path) = << << >> >> \o names
                          \/ Segments(path) = (<< << >> >> \o names) \o << << >> >>
  BY RootedText, ResolvedSegments
<1> HIDE DEF names, top, path
<1>2. path = Scope \/ \E rest \in Text : path = Scope \o Slash \o rest
  BY AcceptedShape DEF path
<1>3. Len(path) >= 4
  <2>1. CASE path = Scope
    BY <2>1, ScopeSpelled
  <2>2. ASSUME NEW rest \in Text, path = Scope \o Slash \o rest PROVE Len(path) >= 4
    <3>1. Scope \in Seq(Chars) /\ Slash \in Seq(Chars) /\ rest \in Seq(Chars) /\ Slash \o rest \in Seq(Chars)
      BY <1>0, SlashText, Together DEF Text
    <3>2. path = Scope \o (Slash \o rest)
      BY <2>2, <3>1, Together
    <3> DEFINE more == Slash \o rest
    <3> HIDE DEF more
    <3>3. Len(path) = Len(Scope) + Len(more) /\ Len(Scope) \in Nat /\ Len(more) \in Nat
      BY <3>1, <3>2, Together DEF more
    <3>4. QED
      BY <3>3, ScopeSpelled
  <2>3. QED
    BY <1>2, <2>1, <2>2
<1>4. names # << >>
  <2>1. Len(path) \in Nat
    BY <1>1 DEF Text
  <2>2. QED
    BY <1>1, <1>3, <2>1
<1>5. IsPrefix(top, Segments(path))
  <2>1. CASE path = Scope
    <3>1. top \o << >> = top /\ << >> \in Seq(Word)
      BY <1>0, Together
    <3>2. IsPrefix(top, top \o << >>)
      BY <1>0, <3>1, PrefixOfConcat
    <3>3. QED
      BY <1>0, <2>1, <3>1, <3>2
  <2>2. ASSUME NEW rest \in Text, path = Scope \o Slash \o rest
        PROVE  IsPrefix(top, Segments(path))
    <3>1. Segments(path) = top \o Segments(rest) /\ Segments(rest) \in Seq(Word)
      BY <1>0, <2>2, SegmentsSplit, SegmentsAreWords
    <3>2. QED
      BY <1>0, <3>1, PrefixOfConcat
  <2>3. QED
    BY <1>2, <2>1, <2>2
<1> DEFINE segs == Segments(path)
<1>6. \A i \in 2 .. Len(segs) : Named(segs[i]) \/ (i = Len(segs) /\ segs[i] = << >>)
  <2> HIDE DEF segs
  <2>1. segs = << << >> >> \o names \/ segs = (<< << >> >> \o names) \o << << >> >>
    BY <1>1, <1>4 DEF segs
  <2>2. QED
    BY <1>1, <2>1, OnlyNames
<1>7. QED
  BY <1>5, <1>6 DEF path, top

\* scoped accepts no path outside the user's scope (nav.go:169-186), for every
\* alphabet, scope and path: it is under the scope segment by segment.
THEOREM NothingOutside == PathSpec => []StaysInside
BY RawIsText, Inside, PTL


\* No segment goes up.
NoUp(S) == \A i \in DOMAIN S : S[i] # <<".", ".">>

\* Texts, put together in another order, are the same text.
LEMMA Regrouped ==
  \A a \in Text, b \in Text, c \in Text : (a \o b) \o c = a \o (b \o c)
BY Regroup DEF Text

\* Texts together are a text.
LEMMA Joined == \A a \in Text, b \in Text : a \o b \in Text
BY Together DEF Text

\* Names are words.
LEMMA NamesAreWords == Seq(Names) \subseteq Seq(Word)
BY DEF Names

\* Without a segment that goes up, what is resolved is only added to.
LEMMA ResolveWithoutUp ==
  ASSUME NEW A \in Seq(Word), NEW S \in Seq(Word), NoUp(S)
  PROVE  Resolve(A \o S) = Resolve(A) \o Resolve(S)
<1> DEFINE T == {t \in Seq(Word) : NoUp(t) => Resolve(A \o t) = Resolve(A) \o Resolve(t)}
<1>0. Seq(Word) \subseteq Seq(Text) /\ \A t \in Seq(Word) : Resolve(t) \in Seq(Word)
  BY WordsAreTexts, ResolveLeavesNames, NamesAreWords
<1>1. << >> \in T
  <2>1. << >> \in Seq(Word)
    OBVIOUS
  <2>2. A \o << >> = A /\ Resolve(A) \o << >> = Resolve(A)
    BY <1>0, <2>1, Together
  <2>3. QED
    BY <2>1, <2>2, ResolveGrows
<1>2. ASSUME NEW s \in Seq(Word), NEW x \in Word, s \in T PROVE Append(s, x) \in T
  <2>1. Append(s, x) \in Seq(Word)
    OBVIOUS
  <2> SUFFICES ASSUME NoUp(Append(s, x))
               PROVE  Resolve(A \o Append(s, x)) = Resolve(A) \o Resolve(Append(s, x))
    BY <2>1
  <2> DEFINE more == Append(s, x)
  <2>2. /\ Len(s) \in Nat /\ Len(more) = Len(s) + 1 /\ more[Len(s) + 1] = x
        /\ \A i \in 1 .. Len(s) : more[i] = s[i]
    OBVIOUS
  <2>3. NoUp(s) /\ x # <<".", ".">>
    <3> HIDE DEF more
    <3>1. NoUp(more)
      BY DEF more
    <3>2. \A i \in 1 .. Len(s) : i \in DOMAIN more
      BY <2>1, <2>2 DEF more
    <3>3. Len(s) + 1 \in DOMAIN more
      BY <2>1, <2>2 DEF more
    <3>4. DOMAIN s = 1 .. Len(s)
      OBVIOUS
    <3>5. QED
      BY <2>2, <3>1, <3>2, <3>3, <3>4 DEF NoUp
  <2>4. A \o more = Append(A \o s, x) /\ A \o s \in Seq(Word)
    BY ConcatAppend
  <2>5. Resolve(A \o more) = Entering(Resolve(A) \o Resolve(s), x)
    BY <1>0, <1>2, <2>3, <2>4, WordsAreTexts, ResolveGrows
  <2>6. Resolve(more) = Entering(Resolve(s), x)
    BY <1>0, WordsAreTexts, ResolveGrows
  <2> DEFINE a == Resolve(A)
             b == Resolve(s)
  <2>7. a \in Seq(Word) /\ b \in Seq(Word)
    BY <1>0
  <2> HIDE DEF a, b, more
  <2>8. a \o Append(b, x) = Append(a \o b, x)
    BY <2>7, ConcatAppend
  <2>9. Entering(a \o b, x) = a \o Entering(b, x)
    BY <2>3, <2>8 DEF Entering
  <2>10. QED
    BY <2>5, <2>6, <2>9 DEF a, b, more
<1> HIDE DEF T
<1>3. S \in T
  BY <1>1, <1>2, Growing
<1>4. QED
  BY <1>3 DEF T

\* Spelling is a matter of each part too.
LEMMA SpellTogether ==
  ASSUME NEW A \in Seq(Word), NEW S \in Seq(Word)
  PROVE  Spell(A \o S) = Spell(A) \o Spell(S)
<1> DEFINE T == {t \in Seq(Word) : Spell(A \o t) = Spell(A) \o Spell(t)}
<1>0. Seq(Word) \subseteq Seq(Text) /\ \A t \in Seq(Word) : Spell(t) \in Text
  BY WordsAreTexts, SegmentsOfSpelled
<1>1. << >> \in T
  <2>1. << >> \in Seq(Word)
    OBVIOUS
  <2>2. A \o << >> = A /\ Spell(A) \o << >> = Spell(A)
    BY <1>0, Together DEF Text
  <2>3. QED
    BY <2>1, <2>2, SpellGrows
<1>2. ASSUME NEW s \in Seq(Word), NEW x \in Word, s \in T PROVE Append(s, x) \in T
  <2> DEFINE more == Append(s, x)
             a == Spell(A)
             b == Spell(s)
  <2>1. more \in Seq(Word) /\ x \in Text /\ Slash \in Text
    BY WordsAreTexts, SlashText
  <2>2. A \o more = Append(A \o s, x) /\ A \o s \in Seq(Word)
    BY ConcatAppend
  <2>3. Spell(A \o more) = (a \o b) \o Slash \o x
    BY <1>0, <1>2, <2>2, WordsAreTexts, SpellGrows DEF Spelling
  <2>4. Spell(more) = b \o Slash \o x
    BY <1>0, WordsAreTexts, SpellGrows DEF Spelling
  <2>5. a \in Text /\ b \in Text
    BY <1>0
  <2> HIDE DEF a, b, more
  <2>6. (a \o b) \o Slash = a \o (b \o Slash)
    BY <2>1, <2>5, Regrouped
  <2> DEFINE c == b \o Slash
  <2>10. c \in Text
    BY <2>1, <2>5, Joined
  <2> HIDE DEF c
  <2>7. (a \o c) \o x = a \o (c \o x)
    <3>1. a \in Text /\ x \in Text
      BY <2>1, <2>5
    <3> HIDE DEF T
    <3>2. QED
      BY <2>10, <3>1, Regrouped
  <2>8. Spell(A \o more) = a \o Spell(more)
    BY <2>3, <2>4, <2>6, <2>7 DEF c
  <2>9. QED
    BY <2>1, <2>8 DEF a, b, more
<1> HIDE DEF T
<1>3. S \in T
  BY <1>1, <1>2, Growing
<1>4. QED
  BY <1>3 DEF T

\* What is spelled begins with a slash.
LEMMA SpelledBegins ==
  ASSUME NEW S \in Seq(Word)
  PROVE  Spell(S) = << >> \/ \E rest \in Text : Spell(S) = Slash \o rest
<1> DEFINE T == {t \in Seq(Word) : Spell(t) = << >> \/ \E rest \in Text : Spell(t) = Slash \o rest}
<1>0. Seq(Word) \subseteq Seq(Text) /\ \A t \in Seq(Word) : Spell(t) \in Text
  BY WordsAreTexts, SegmentsOfSpelled
<1>1. << >> \in T
  BY SpellGrows
<1>2. ASSUME NEW s \in Seq(Word), NEW x \in Word, s \in T PROVE Append(s, x) \in T
  <2>1. Append(s, x) \in Seq(Word) /\ x \in Text /\ Slash \in Text
    BY WordsAreTexts, SlashText
  <2>2. Spell(Append(s, x)) = Spell(s) \o Slash \o x
    BY <1>0, WordsAreTexts, SpellGrows DEF Spelling
  <2>3. CASE Spell(s) = << >>
    <3>1. << >> \o Slash = Slash
      BY <2>1, Together DEF Text
    <3>2. Spell(Append(s, x)) = Slash \o x
      BY <2>2, <2>3, <3>1
    <3>3. QED
      BY <2>1, <3>2
  <2>4. ASSUME NEW rest \in Text, Spell(s) = Slash \o rest PROVE Append(s, x) \in T
    <3> DEFINE more == rest \o Slash
    <3>1. more \in Text
      BY <2>1, Joined
    <3>2. (Slash \o rest) \o Slash = Slash \o more
      BY <2>1, Regrouped
    <3> HIDE DEF more
    <3>3. more \o x \in Text
      BY <2>1, <3>1, Joined
    <3>4. (Slash \o more) \o x = Slash \o (more \o x)
      BY <2>1, <3>1, Regrouped
    <3>5. Spell(Append(s, x)) = Slash \o (more \o x)
      BY <2>2, <2>4, <3>2, <3>4
    <3>6. QED
      BY <2>1, <3>3, <3>5
  <2>5. QED
    BY <1>2, <2>3, <2>4
<1> HIDE DEF T
<1>3. S \in T
  BY <1>1, <1>2, Growing
<1>4. QED
  BY <1>3 DEF T

\* One and one are two.
LEMMA Pair == Append(<<Root>>, User) = <<Root, User>>
<1>1. Root \in Text /\ User \in Text
  BY ScopeSpelled, WordsAreTexts DEF Names
<1>2. <<Root>> \in Seq(Text) /\ <<Root, User>> = Append(<<Root>>, User)
  BY <1>1
<1>3. QED
  BY <1>2

\* A path under the scope that never goes up is accepted.
LEMMA UnderTheScope ==
  ASSUME NEW r \in Text, NoUp(Segments(r)), NEW q \in Text, Rooted(q) = Scope \o Slash \o r
  PROVE  Accepted(q)
<1> DEFINE S == Segments(r)
           top == << << >>, Root, User >>
           X == Resolve(S)
           tail == IF Trailing(Rooted(q)) THEN Slash ELSE << >>
<1>1. S \in Seq(Word) /\ top \in Seq(Word) /\ X \in Seq(Word) /\ top = Segments(Scope) /\ Scope \in Text
  BY ScopeSpelled, SegmentsAreWords, ResolveLeavesNames, NamesAreWords
<1>2. Segments(Rooted(q)) = top \o S
  BY <1>1, SegmentsSplit
<1>3. Resolve(top) = <<Root, User>>
  <2>1. << >> \in Text /\ Root \in Text /\ User \in Text /\ Root \in Names /\ User \in Names
    BY ScopeSpelled, WordsAreTexts DEF Names
  <2>2. /\ << << >> >> \in Seq(Text) /\ << << >>, Root >> \in Seq(Text) /\ << >> \in Seq(Text)
        /\ << << >> >> = Append(<< >>, << >>)
        /\ << << >>, Root >> = Append(<< << >> >>, Root)
        /\ top = Append(<< << >>, Root >>, User)
    BY <2>1
  <2>3. Resolve(<< << >> >>) = << >>
    BY <2>1, <2>2, ResolveGrows DEF Entering
  <2>4. Resolve(<< << >>, Root >>) = <<Root>>
    <3>1. Resolve(<< << >>, Root >>) = Entering(<< >>, Root)
      BY <2>1, <2>2, <2>3, ResolveGrows
    <3>2. Append(<< >>, Root) = <<Root>>
      OBVIOUS
    <3>3. QED
      BY <2>1, <3>1, <3>2 DEF Entering, Names, Named
  <2>5. Resolve(top) = Entering(<<Root>>, User)
    BY <2>1, <2>2, <2>4, ResolveGrows
  <2>6. Append(<<Root>>, User) = <<Root, User>>
    BY Pair
  <2>7. QED
    BY <2>1, <2>5, <2>6 DEF Entering, Names, Named
<1>4. Resolve(top \o S) = <<Root, User>> \o X
  BY <1>1, <1>3, ResolveWithoutUp
<1>5. <<Root, User>> \o X # << >> /\ <<Root, User>> \in Seq(Word)
  <2>1. <<Root, User>> \in Seq(Word) /\ Len(<<Root, User>>) = 2
    BY ScopeSpelled DEF Names
  <2> DEFINE two == <<Root, User>>
  <2> HIDE DEF two, X
  <2>2. Len(two \o X) = Len(two) + Len(X) /\ Len(X) \in Nat /\ Len(two) = 2
    BY <1>1, <2>1, Together DEF two
  <2>3. two \o X # << >>
    BY <2>2
  <2>4. QED
    BY <2>1, <2>3 DEF two
<1>6. Clean(Rooted(q)) = Scope \o Spell(X)
  <2> DEFINE two == <<Root, User>>
             all == two \o X
  <2>1. Spell(all) = Spell(two) \o Spell(X)
    <3> HIDE DEF X, two
    <3>1. X \in Seq(Word) /\ two \in Seq(Word)
      BY <1>1, <1>5 DEF two
    <3>2. QED
      BY <3>1, SpellTogether
  <2>2. Resolve(Segments(Rooted(q))) = all /\ all # << >>
    BY <1>2, <1>4, <1>5
  <2>3. Spell(two) = Scope
    BY ScopeSpelled
  <2> HIDE DEF all, two, X
  <2>4. Clean(Rooted(q)) = Spell(all)
    BY <2>2 DEF Clean
  <2>5. QED
    BY <2>1, <2>3, <2>4
<1>7. Resolved(q) = (Scope \o Spell(X)) \o tail
  BY <1>6 DEF Resolved
<1>8. Resolved(q) = Scope \/ \E rest \in Text : Resolved(q) = Scope \o Slash \o rest
  <2>1. /\ Scope \in Text /\ Slash \in Text /\ << >> \in Text
        /\ tail = << >> \/ tail = Slash
    BY <1>1, SlashText
  <2> HIDE DEF X, tail
  <2>2. CASE Spell(X) = << >>
    <3>1. Resolved(q) = Scope \o tail /\ Scope \o << >> = Scope
      BY <1>7, <2>1, <2>2, Together DEF Text
    <3>2. (Scope \o Slash) \o << >> = Scope \o Slash
      <4>1. Scope \o Slash \in Text
        BY <2>1, Joined
      <4> DEFINE l == Scope \o Slash
      <4> HIDE DEF l
      <4>2. l \o << >> = l
        BY <4>1, Together DEF Text, l
      <4>3. QED
        BY <4>2 DEF l
    <3>3. QED
      BY <2>1, <3>1, <3>2
  <2>3. ASSUME NEW rest \in Text, Spell(X) = Slash \o rest
        PROVE  \E more \in Text : Resolved(q) = Scope \o Slash \o more
    <3>1. tail \in Text /\ rest \o tail \in Text /\ Scope \o Slash \in Text
      BY <2>1, Joined
    <3>2. Scope \o (Slash \o rest) = (Scope \o Slash) \o rest
      <4>1. Scope \in Text /\ Slash \in Text
        BY <2>1
      <4>2. QED
        BY <4>1, Regrouped
    <3>3. ((Scope \o Slash) \o rest) \o tail = (Scope \o Slash) \o (rest \o tail)
      BY <2>3, <3>1, Regrouped
    <3>4. Resolved(q) = Scope \o Slash \o (rest \o tail)
      BY <1>7, <2>3, <3>2, <3>3
    <3>5. QED
      BY <3>1, <3>4
  <2>4. QED
    BY <1>1, <2>2, <2>3, SpelledBegins
<1>9. QED
  BY <1>8, AcceptedShape

\* A path that starts with a slash is taken as it is, another is put under the
\* scope.
LEMMA StartsRooted ==
  ASSUME NEW p \in Text
  PROVE  /\ Rooted(Slash \o p) = Slash \o p
         /\ Rooted(Scope \o p) = Scope \o p
<1>1. Slash \in Text /\ Root \in Text /\ User \in Text
  BY SlashText, ScopeSpelled, WordsAreTexts DEF Names
<1>2. \A t \in Text : IsPrefix(Slash, Slash \o t)
  BY <1>1, PrefixOfConcat DEF Text
<1> DEFINE q == Root \o Slash
           s == q \o User
           r == s \o p
<1>3. q \in Text
  BY <1>1, Joined
<1>4. (Slash \o Root) \o Slash = Slash \o q
  BY <1>1, Regrouped
<1> HIDE DEF q
<1>5. s \in Text
  BY <1>1, <1>3, Joined
<1>6. (Slash \o q) \o User = Slash \o s
  BY <1>1, <1>3, Regrouped
<1> HIDE DEF s
<1>7. r \in Text
  BY <1>1, <1>5, Joined
<1>8. (Slash \o s) \o p = Slash \o r
  <2>1. Slash \in Text
    BY <1>1
  <2>2. QED
    BY <1>5, <2>1, Regrouped
<1> HIDE DEF r
<1>9. Scope \o p = Slash \o r
  BY <1>4, <1>6, <1>8 DEF Scope
<1>10. QED
  BY <1>2, <1>7, <1>9 DEF Rooted

\* What never goes up is not refused, for every alphabet, scope and length.
LEMMA NotRefused == RawText => AcceptsInside
<1> SUFFICES ASSUME raw \in Text, NoUp(Segments(raw))
             PROVE  /\ ~IsPrefix(Slash, raw) => Accepted(raw)
                    /\ Accepted(Scope \o Slash \o raw)
                    /\ IsPrefix(Slash, raw) => Accepted(Scope \o raw)
  BY DEF AcceptsInside, RawText, NoUp
<1>1. Slash \in Text /\ Scope \in Text /\ Slash \o raw \in Text
  BY ScopeSpelled, SlashText, Joined
<1>2. ~IsPrefix(Slash, raw) => Accepted(raw)
  BY UnderTheScope DEF Rooted
<1>3. Accepted(Scope \o Slash \o raw)
  <2>1. Scope \o Slash \o raw = Scope \o (Slash \o raw)
    BY <1>1, Regrouped
  <2>4. Scope \o (Slash \o raw) \in Text
    BY <1>1, Joined
  <2>2. Rooted(Scope \o (Slash \o raw)) = Scope \o (Slash \o raw)
    BY <1>1, StartsRooted
  <2>3. QED
    BY <2>1, <2>2, <2>4, UnderTheScope
<1>4. ASSUME IsPrefix(Slash, raw) PROVE Accepted(Scope \o raw)
  <2>1. PICK r \in Text : raw = Slash \o r
    BY <1>1, <1>4, ConcatOfPrefix DEF Text
  <2>2. Scope \o raw = Scope \o Slash \o r /\ Scope \o raw \in Text
    <3>1. Scope \o raw \in Text
      BY <1>1, Joined
    <3>2. Scope \o (Slash \o r) = Scope \o Slash \o r
      <4>1. Scope \in Text /\ Slash \in Text /\ r \in Text
        BY <1>1, <2>1
      <4>2. QED
        BY <4>1, Regrouped
    <3>3. QED
      BY <2>1, <3>1, <3>2
  <2>3. Rooted(Scope \o raw) = Scope \o Slash \o r
    BY <2>2, StartsRooted
  <2>4. NoUp(Segments(r))
    <3> DEFINE one == << << >> >>
               B == Segments(r)
    <3>1. raw = << >> \o Slash \o r
      BY <1>1, <2>1, Together DEF Text
    <3>2. Segments(raw) = one \o B
      BY <2>1, <3>1, SegmentsSplit, SegmentsGrows, SlashText DEF Text
    <3>3. one \in Seq(Word) /\ Len(one) = 1 /\ B \in Seq(Word)
      BY <2>1, ScopeSpelled, SegmentsAreWords DEF Text
    <3> HIDE DEF one, B
    <3> DEFINE all == one \o B
    <3>4. /\ all \in Seq(Word) /\ Len(B) \in Nat /\ Len(all) = 1 + Len(B)
          /\ \A i \in 1 + 1 .. 1 + Len(B) : all[i] = B[i - 1]
      <4>1. Len(all) = Len(one) + Len(B)
        BY <3>3, Together
      <4>2. \A i \in Len(one) + 1 .. Len(one) + Len(B) : all[i] = B[i - Len(one)]
        BY <3>3, Together
      <4>3. all \in Seq(Word) /\ Len(B) \in Nat
        BY <3>3, Together
      <4> HIDE DEF all
      <4>4. QED
        BY <3>3, <4>1, <4>2, <4>3
    <3>5. NoUp(all)
      BY <3>2
    <3> HIDE DEF all
    <3>6. ASSUME NEW i \in DOMAIN B PROVE B[i] # <<".", ".">>
      <4>1. i \in 1 .. Len(B) /\ i + 1 \in 1 + 1 .. 1 + Len(B) /\ i + 1 \in DOMAIN all /\ (i + 1) - 1 = i
        BY <3>3, <3>4
      <4>2. QED
        BY <3>4, <3>5, <4>1 DEF NoUp
    <3>7. QED
      BY <3>6 DEF NoUp, B
  <2>5. QED
    BY <2>1, <2>2, <2>3, <2>4, UnderTheScope DEF Text
<1>5. QED
  BY <1>2, <1>3, <1>4

\* scoped refuses no path inside (nav.go:169-186): a path that never goes up is
\* accepted, relative, rooted in the scope or spelled out.
THEOREM NothingInsideRefused == PathSpec => []AcceptsInside
BY RawIsText, NotRefused, PTL


\* A segment that means nothing leaves no trace.
LEMMA ResolveSkips ==
  ASSUME NEW A \in Seq(Word), NEW B \in Seq(Word), NEW e \in {<< >>, <<".">>}
  PROVE  Resolve((A \o <<e>>) \o B) = Resolve(A \o B)
<1> DEFINE a == A \o <<e>>
           T == {t \in Seq(Word) : Resolve(a \o t) = Resolve(A \o t)}
<1>0. e \in Word /\ Seq(Word) \subseteq Seq(Text) /\ Word \subseteq Text
  BY ScopeSpelled, WordsAreTexts
<1>1. a = Append(A, e) /\ a \in Seq(Word)
  BY <1>0, ConcatAppend
<1>2. Resolve(a) = Resolve(A)
  <2>1. Resolve(Append(A, e)) = Entering(Resolve(A), e)
    BY <1>0, ResolveGrows
  <2>2. Entering(Resolve(A), e) = Resolve(A)
    BY DEF Entering
  <2>3. QED
    BY <1>1, <2>1, <2>2
<1> HIDE DEF a
<1>3. << >> \in T
  <2>1. << >> \in Seq(Word)
    BY Nothing
  <2>2. a \o << >> = a /\ A \o << >> = A
    BY <1>1, <2>1, Together
  <2>3. QED
    BY <1>2, <2>1, <2>2
<1>4. ASSUME NEW s \in Seq(Word), NEW x \in Word, s \in T PROVE Append(s, x) \in T
  <2> DEFINE more == Append(s, x)
  <2>1. more \in Seq(Word)
    OBVIOUS
  <2>2. a \o more = Append(a \o s, x) /\ a \o s \in Seq(Word)
    BY <1>1, ConcatAppend
  <2>3. A \o more = Append(A \o s, x) /\ A \o s \in Seq(Word)
    BY ConcatAppend
  <2> DEFINE c == a \o s
             d == A \o s
  <2>4. Resolve(c) = Resolve(d)
    BY <1>4
  <2> HIDE DEF more, c, d
  <2>5. Resolve(Append(c, x)) = Entering(Resolve(c), x) /\ Resolve(Append(d, x)) = Entering(Resolve(d), x)
    BY <1>0, <2>2, <2>3, ResolveGrows DEF c, d
  <2>6. Resolve(a \o more) = Resolve(A \o more)
    BY <2>2, <2>3, <2>4, <2>5 DEF c, d
  <2>7. QED
    BY <2>1, <2>6 DEF more
<1> HIDE DEF T
<1>5. B \in T
  BY <1>3, <1>4, Growing
<1>6. QED
  BY <1>5 DEF T, a

\* What may be put after a slash without a meaning.
Dot == <<".", "/">>
Fillers == {Slash, Dot}

\* A filler is a segment that means nothing, and a slash.
LEMMA FillersAre ==
  ASSUME NEW more \in Fillers
  PROVE  \E e \in {<< >>, <<".">>} : more = e \o Slash
<1>1. << >> \o Slash = Slash
  BY SlashText, Together DEF Text
<1>2. <<".">> \o Slash = Dot
  <2>1. <<".">> \in Seq(Chars) /\ "/" \in Chars /\ "." \in Chars
    BY SlashText
  <2>2. Append(<<".">>, "/") = <<".">> \o <<"/">>
    BY <2>1, ConcatAppend
  <2>3. <<".", "/">> = Append(<<".">>, "/")
    BY <2>1
  <2>4. QED
    BY <2>2, <2>3 DEF Dot, Slash
<1>3. QED
  BY <1>1, <1>2 DEF Fillers

\* Whether a path ends in a slash is seen in its last part.
LEMMA TrailingIn ==
  ASSUME NEW a \in Text, NEW b \in Text
  PROVE  Trailing(a \o Slash \o b) <=> (b = << >> \/ Trailing(b))
<1> DEFINE l == a \o Slash
<1>1. l = Append(a, "/") /\ l \in Seq(Chars) /\ b \in Seq(Chars) /\ "/" \in Chars /\ a \in Seq(Chars)
  BY SlashText, ConcatAppend DEF Text, Slash
<1>2. Last(l) = "/" /\ l # << >>
  BY <1>1, LastPut
<1> HIDE DEF l
<1>3. CASE b = << >>
  <2>1. l \o << >> = l
    BY <1>1, Together
  <2>2. QED
    BY <1>2, <1>3, <2>1 DEF Trailing, l
<1>4. CASE b # << >>
  <2>1. Last(l \o b) = Last(b) /\ l \o b # << >>
    BY <1>1, <1>4, ConcatFront
  <2>2. QED
    BY <1>4, <2>1 DEF Trailing, l
<1>5. QED
  BY <1>3, <1>4

\* A filler after a slash changes nothing of what a rooted path comes to.
LEMMA FillerMeansNothing ==
  ASSUME NEW A \in Text, NEW B \in Text, NEW more \in Fillers
  PROVE  LET p == A \o Slash \o B
             q == A \o Slash \o more \o B
         IN  Clean(q) = Clean(p) /\ (Trailing(q) <=> Trailing(p))
<1>1. PICK e \in {<< >>, <<".">>} : more = e \o Slash
  BY FillersAre
<1>2. e \in Word /\ e \in Text /\ Slash \in Text
  BY ScopeSpelled, WordsAreTexts, SlashText
<1> DEFINE l == A \o Slash
           p == l \o B
           m == l \o e
           q == m \o Slash \o B
<1>3. l \in Text
  BY <1>2, Joined
<1>4. l \o more = m \o Slash
  <2>1. l \o (e \o Slash) = (l \o e) \o Slash
    BY <1>2, <1>3, Regrouped
  <2>2. QED
    BY <1>1, <2>1
<1>5. A \o Slash \o more \o B = q
  BY <1>4
<1>6. m \in Text
  BY <1>2, <1>3, Joined
<1>7. Segments(p) = Segments(A) \o Segments(B)
  BY SegmentsSplit
<1>8. Segments(m) = Segments(A) \o <<e>>
  BY <1>2, SegmentsSplit, SegmentsOfWord
<1>9. Segments(q) = (Segments(A) \o <<e>>) \o Segments(B)
  <2> HIDE DEF m
  <2>1. Segments(q) = Segments(m) \o Segments(B)
    BY <1>6, SegmentsSplit
  <2>2. QED
    BY <1>8, <2>1
<1>10. Resolve(Segments(q)) = Resolve(Segments(p))
  <2>1. Segments(A) \in Seq(Word) /\ Segments(B) \in Seq(Word)
    BY SegmentsAreWords
  <2>2. QED
    BY <1>7, <1>9, <2>1, ResolveSkips
<1>11. Trailing(q) <=> (B = << >> \/ Trailing(B))
  <2> HIDE DEF m
  <2>1. QED
    BY <1>6, TrailingIn
<1>12. Trailing(p) <=> (B = << >> \/ Trailing(B))
  BY TrailingIn
<1> HIDE DEF q, p, l
<1>13. QED
  BY <1>5, <1>10, <1>11, <1>12 DEF Clean, p, l


\* A path is what is before one of its slashes, the slash and what is after it.
LEMMA CutAtSlash ==
  ASSUME NEW p \in Text, NEW i \in DOMAIN p, p[i] = "/"
  PROVE  /\ SubSeq(p, i + 1, Len(p)) \in Text
         /\ \E a \in Text : /\ SubSeq(p, 1, i) = a \o Slash
                            /\ p = a \o Slash \o SubSeq(p, i + 1, Len(p))
<1> DEFINE h == SubSeq(p, 1, i)
           b == SubSeq(p, i + 1, Len(p))
<1>1. p \in Seq(Chars) /\ Len(p) \in Nat /\ i \in 1 .. Len(p) /\ i \in Nat
  BY DEF Text
<1>2. h \in Seq(Chars) /\ Len(h) = i /\ \A j \in 1 .. i : h[j] = p[j]
  BY <1>1
<1>3. /\ b \in Seq(Chars) /\ Len(b) = Len(p) - i
      /\ \A j \in 1 .. Len(b) : b[j] = p[i + j]
  BY <1>1
<1> HIDE DEF h, b
<1>4. h # << >> /\ Last(h) = "/"
  BY <1>1, <1>2 DEF Last
<1>5. Front(h) \in Seq(Chars) /\ h = Append(Front(h), "/")
  BY <1>2, <1>4, LastTaken
<1>6. h = Front(h) \o Slash
  <2>1. "/" \in Chars
    BY SlashText
  <2> DEFINE a == Front(h)
  <2> HIDE DEF a
  <2>2. Append(a, "/") = a \o <<"/">>
    BY <1>5, <2>1, ConcatAppend DEF a
  <2>3. QED
    BY <1>5, <2>2 DEF a, Slash
<1> DEFINE t == h \o b
<1>7. /\ t \in Seq(Chars) /\ Len(t) = Len(h) + Len(b) /\ Len(b) \in Nat
      /\ \A j \in 1 .. Len(h) : t[j] = h[j]
      /\ \A j \in Len(h) + 1 .. Len(h) + Len(b) : t[j] = b[j - Len(h)]
  <2>1. h \in Seq(Chars) /\ b \in Seq(Chars)
    BY <1>2, <1>3
  <2>2. QED
    BY <2>1, Together
<1> HIDE DEF t
<1>8. ASSUME NEW j \in 1 .. Len(p) PROVE t[j] = p[j]
  <2>1. CASE j \in 1 .. i
    BY <1>2, <1>7, <2>1
  <2>2. CASE j \in i + 1 .. Len(p)
    <3>1. j \in i + 1 .. i + Len(b) /\ j - i \in 1 .. Len(b) /\ i + (j - i) = j
      <4>1. i \in Nat /\ Len(p) \in Nat /\ Len(b) = Len(p) - i
        BY <1>1, <1>3
      <4>2. ASSUME NEW u \in Nat, NEW n \in Nat, NEW k \in u + 1 .. n
            PROVE  k \in u + 1 .. u + (n - u) /\ k - u \in 1 .. n - u /\ u + (k - u) = k
        OBVIOUS
      <4>3. QED
        BY <2>2, <4>1, <4>2
    <3>2. QED
      BY <1>2, <1>3, <1>7, <3>1
  <2>3. QED
    BY <1>1, <2>1, <2>2
<1>9. Len(t) = Len(p)
  BY <1>1, <1>2, <1>3, <1>7
<1>10. t = p
  BY <1>1, <1>7, <1>8, <1>9
<1>11. QED
  BY <1>3, <1>5, <1>6, <1>10 DEF t, h, b, Text

\* Whether a path is rooted is seen in its first part.
LEMMA RootedIn ==
  ASSUME NEW a \in Text, NEW b \in Text
  PROVE  IsPrefix(Slash, (a \o Slash) \o b) <=> (a = << >> \/ IsPrefix(Slash, a))
<1> DEFINE h == a \o Slash
<1>1. Slash \in Text /\ h \in Text
  BY SlashText, Joined
<1>2. CASE a = << >>
  <2>1. h = Slash
    BY <1>1, <1>2, Together DEF Text
  <2>2. IsPrefix(Slash, Slash \o b)
    BY <1>1, PrefixOfConcat DEF Text
  <2>3. QED
    BY <1>2, <2>1, <2>2
<1>3. CASE a # << >>
  <2>1. Len(a) \in Nat /\ Len(a) >= 1
    BY <1>3 DEF Text
  <2>2. h[1] = a[1] /\ Len(h) \in Nat /\ Len(h) >= 1
    <3>1. \A i \in 1 .. Len(a) : h[i] = a[i]
      BY <1>1, Together DEF Text
    <3>2. Len(h) = Len(a) + Len(Slash) /\ Len(Slash) \in Nat
      BY <1>1, Together DEF Text
    <3> HIDE DEF h
    <3>3. QED
      BY <2>1, <3>1, <3>2
  <2>3. (h \o b)[1] = h[1] /\ h \o b \in Text
    <3> HIDE DEF h
    <3>1. \A i \in 1 .. Len(h) : (h \o b)[i] = h[i]
      BY <1>1, Together DEF Text
    <3>2. QED
      BY <1>1, <2>2, <3>1, Joined
  <2> HIDE DEF h
  <2>4. ASSUME NEW t \in Text, t # << >> PROVE IsPrefix(Slash, t) <=> t[1] = "/"
    <3>1. Len(t) \in Nat /\ Len(t) >= 1 /\ t \in Seq(Chars)
      BY <2>4 DEF Text
    <3>2. Len(Slash) = 1 /\ Slash[1] = "/" /\ Slash \in Seq(Chars)
      BY SlashText DEF Slash, Text
    <3>4. SubSeq(Slash, 1, 1) = SubSeq(t, 1, 1) <=> t[1] = "/"
      BY <3>1, <3>2, FirstOf
    <3>5. QED
      BY <3>1, <3>2, <3>4 DEF IsPrefix
  <2>5. h \o b # << >>
    <3>1. Len(h \o b) = Len(h) + Len(b) /\ Len(b) \in Nat
      BY <1>1, Together DEF Text
    <3>2. QED
      BY <2>2, <3>1
  <2>6. QED
    BY <1>3, <2>2, <2>3, <2>4, <2>5 DEF h
<1>4. QED
  BY <1>2, <1>3

\* A filler after a slash changes nothing of what any path comes to.
LEMMA SamePath ==
  ASSUME NEW a \in Text, NEW b \in Text, NEW more \in Fillers
  PROVE  Resolved(a \o Slash \o more \o b) = Resolved(a \o Slash \o b)
<1> DEFINE h == a \o Slash
           p == h \o b
           q == h \o more \o b
<1>1. Slash \in Text /\ more \in Text /\ Scope \in Text /\ h \in Text
  <2>1. Dot \in Text
    BY SlashText DEF Dot, Text
  <2>2. QED
    BY <2>1, SlashText, ScopeSpelled, Joined DEF Fillers
<1>2. more \o b \in Text
  BY <1>1, Joined
<1>3. q = h \o (more \o b)
  BY <1>1, Regrouped
<1>4. IsPrefix(Slash, p) <=> IsPrefix(Slash, q)
  BY <1>2, <1>3, RootedIn
<1>5. Clean(Rooted(q)) = Clean(Rooted(p)) /\ (Trailing(Rooted(q)) <=> Trailing(Rooted(p)))
  <2>1. CASE IsPrefix(Slash, p)
    <3>1. Rooted(p) = p /\ Rooted(q) = q
      BY <1>4, <2>1 DEF Rooted
    <3>2. QED
      BY <3>1, FillerMeansNothing
  <2>2. CASE ~IsPrefix(Slash, p)
    <3> DEFINE l == Scope \o Slash
               A == l \o a
    <3>1. Rooted(p) = l \o p /\ Rooted(q) = l \o q
      BY <1>4, <2>2 DEF Rooted
    <3>2. l \in Text
      BY <1>1, Joined
    <3>3. A \in Text
      BY <3>2, Joined
    <3> HIDE DEF l
    <3>4. l \o h = A \o Slash
      BY <1>1, <3>2, Regrouped
    <3> HIDE DEF h, A
    <3>5. l \o (h \o b) = (l \o h) \o b
      BY <1>1, <3>2, Regrouped
    <3>6. l \o (h \o (more \o b)) = (l \o h) \o (more \o b)
      BY <1>1, <1>2, <3>2, Regrouped
    <3>7. A \o Slash \in Text
      BY <1>1, <3>3, Joined
    <3> DEFINE k == A \o Slash
    <3> HIDE DEF k
    <3>8. k \o (more \o b) = (k \o more) \o b
      BY <1>1, <3>7, Regrouped DEF k
    <3>9. Rooted(p) = A \o Slash \o b
      BY <3>1, <3>4, <3>5
    <3>10. Rooted(q) = A \o Slash \o more \o b
      BY <1>3, <3>1, <3>4, <3>6, <3>8 DEF k
    <3>11. QED
      BY <3>3, <3>9, <3>10, FillerMeansNothing
  <2>3. QED
    BY <2>1, <2>2
<1>6. QED
  BY <1>5 DEF Resolved

\* However a path is spelled it is one path, for every alphabet, scope and
\* length.
LEMMA OnePath == RawText => Canonical
<1> SUFFICES ASSUME raw \in Text
             PROVE  /\ \A i \in DOMAIN raw : raw[i] = "/" =>
                         \A more \in Fillers :
                            Resolved(SubSeq(raw, 1, i) \o more \o SubSeq(raw, i + 1, Len(raw))) = Resolved(raw)
                    /\ ~IsPrefix(Slash, raw) =>
                          /\ Resolved(Dot \o raw) = Resolved(raw)
                          /\ Resolved(Scope \o Slash \o raw) = Resolved(raw)
  BY DEF Canonical, RawText, Fillers, Dot
<1>1. ASSUME NEW i \in DOMAIN raw, raw[i] = "/", NEW more \in Fillers
      PROVE  Resolved(SubSeq(raw, 1, i) \o more \o SubSeq(raw, i + 1, Len(raw))) = Resolved(raw)
  <2> DEFINE b == SubSeq(raw, i + 1, Len(raw))
             h == SubSeq(raw, 1, i)
  <2>1. b \in Text /\ \E a \in Text : h = a \o Slash /\ raw = a \o Slash \o b
    BY <1>1, CutAtSlash
  <2> HIDE DEF b, h
  <2>2. PICK a \in Text : h = a \o Slash /\ raw = a \o Slash \o b
    BY <2>1
  <2>3. Resolved(a \o Slash \o more \o b) = Resolved(a \o Slash \o b)
    BY <2>1, SamePath
  <2>4. QED
    BY <2>2, <2>3 DEF b, h
<1>2. ASSUME ~IsPrefix(Slash, raw) PROVE Resolved(Dot \o raw) = Resolved(raw)
  <2>1. Dot \in Text /\ Scope \in Text /\ Slash \in Text
    BY SlashText, ScopeSpelled DEF Dot, Text
  <2>2. ~IsPrefix(Slash, Dot \o raw)
    <3>1. Len(Dot) = 2 /\ Dot[1] = "."
      BY DEF Dot
    <3>2. Dot \o raw \in Text /\ (Dot \o raw)[1] = "."
      <4>1. \A i \in 1 .. Len(Dot) : (Dot \o raw)[i] = Dot[i]
        BY <2>1, Together DEF Text
      <4>2. QED
        BY <2>1, <3>1, <4>1, Joined
    <3> DEFINE t == Dot \o raw
    <3> HIDE DEF t
    <3>3. ASSUME IsPrefix(Slash, t) PROVE FALSE
      <4>1. PICK r \in Seq(Chars) : t = Slash \o r
        <5>1. t \in Seq(Chars) /\ Slash \in Seq(Chars)
          BY <2>1, <3>2 DEF t, Text
        <5>2. QED
          BY <3>3, <5>1, ConcatOfPrefix
      <4>2. \A i \in 1 .. Len(Slash) : (Slash \o r)[i] = Slash[i]
        BY <2>1, <4>1, Together DEF Text
      <4>3. Len(Slash) = 1 /\ Slash[1] = "/"
        BY DEF Slash
      <4>4. t[1] = "/"
        BY <4>1, <4>2, <4>3
      <4>5. QED
        BY <3>2, <4>4 DEF t
    <3>4. QED
      BY <3>3 DEF t
  <2> DEFINE l == Scope \o Slash
  <2>3. Rooted(raw) = l \o raw /\ Rooted(Dot \o raw) = l \o (Dot \o raw)
    BY <1>2, <2>2 DEF Rooted
  <2>4. l \in Text
    BY <2>1, Joined
  <2> HIDE DEF l
  <2>5. l \o (Dot \o raw) = l \o Dot \o raw
    BY <2>1, <2>4, Regrouped
  <2>6. Rooted(Dot \o raw) = Scope \o Slash \o Dot \o raw /\ Rooted(raw) = Scope \o Slash \o raw
    BY <2>3, <2>5 DEF l
  <2>7. /\ Clean(Rooted(Dot \o raw)) = Clean(Rooted(raw))
        /\ Trailing(Rooted(Dot \o raw)) <=> Trailing(Rooted(raw))
    BY <2>1, <2>6, FillerMeansNothing DEF Fillers
  <2>8. QED
    BY <2>7 DEF Resolved
<1>3. ASSUME ~IsPrefix(Slash, raw) PROVE Resolved(Scope \o Slash \o raw) = Resolved(raw)
  <2>1. Rooted(raw) = Scope \o Slash \o raw
    BY <1>3 DEF Rooted
  <2>0. Scope \in Text /\ Slash \in Text
    BY ScopeSpelled, SlashText
  <2>2. Scope \o Slash \o raw = Scope \o (Slash \o raw) /\ Slash \o raw \in Text
    BY <2>0, Regrouped, Joined
  <2>3. Rooted(Scope \o Slash \o raw) = Scope \o Slash \o raw
    BY <2>2, StartsRooted
  <2>4. QED
    BY <2>1, <2>3 DEF Resolved
<1>4. QED
  BY <1>1, <1>2, <1>3

\* scoped gives a path one spelling (nav.go:189, nav.go:361): slashes and dots
\* that mean nothing never make another of it, and neither does the scope
\* before a path that is relative to it.
THEOREM OneSpelling == PathSpec => []Canonical
BY RawIsText, OnePath, PTL

=============================================================================
