----------------------------- MODULE DemoTools_proofs -----------------------------
(***************************************************************************)
(* Proofs about the tools of the demo server: where write_file may write   *)
(* and what a write leaves behind (WriteFile), for any calls, names, paths *)
(* and lengths of content; and the arguments the tools and the prompt      *)
(* accept (DemoContent).                                                   *)
(***************************************************************************)
EXTENDS WriteFile, DemoContent, SequenceTheorems, WellFoundedInduction, TLAPS

-------------------------------------------------------------------------------
(* Induction over the natural numbers, for a set of them in the place of a *)
(* predicate.                                                              *)

\* A set of natural numbers that is not empty has a least element.
LEMMA Least ==
  ASSUME NEW T, T \subseteq Nat, T # {}
  PROVE  \E n \in T : \A m \in T : n <= m
<1> DEFINE Less == OpToRel(<, Nat)
<1>1. \A x, y \in Nat : y < x => <<y, x>> \in Less
  BY DEF OpToRel
<1>2. IsWellFoundedOn(Less, Nat)
  BY NatLessThanWellFounded
<1> HIDE DEF Less
<1>3. PICK n \in T : \A m \in T : ~ (<<m, n>> \in Less)
  BY <1>2, WFMin
<1>4. ASSUME NEW m \in T PROVE n <= m
  <2>1. ~ (m < n)
    BY <1>1, <1>3
  <2> QED  BY <2>1
<1> QED  BY <1>4

\* A set that has 0, and with each number the next, has them all.
LEMMA Upward ==
  ASSUME NEW T, 0 \in T, \A n \in Nat : n \in T => n + 1 \in T
  PROVE  Nat \subseteq T
<1> DEFINE Missing == Nat \ T
<1> SUFFICES ASSUME Missing # {} PROVE FALSE
  OBVIOUS
<1>1. PICK n \in Missing : \A m \in Missing : n <= m
  BY Least
<1>2. n # 0 /\ n \in Nat
  OBVIOUS
<1>3. n - 1 \in Nat /\ n - 1 \notin Missing
  BY <1>1, <1>2
<1>4. n - 1 \in T /\ (n - 1) + 1 = n
  BY <1>2, <1>3
<1> QED  BY <1>3, <1>4

-------------------------------------------------------------------------------
(* Where a path leads.                                                     *)

\* A normal path over S.
NormalOf(S) == Seq(S \ {".", ".."})

\* One part further, a normal path stays one.
LEMMA AfterType ==
  ASSUME NEW S, NEW done \in NormalOf(S), NEW part \in S
  PROVE  After(done, part) \in NormalOf(S)
<1>1. CASE part = "."
  BY <1>1 DEF After
<1>2. CASE part = ".." /\ done = <<>>
  BY <1>2 DEF After
<1>3. CASE part = ".." /\ done # <<>>
  <2>1. After(done, part) = Front(done)
    BY <1>3 DEF After
  <2> QED  BY <1>3, <2>1 DEF Front, NormalOf
<1>4. CASE part \notin {".", ".."}
  <2>1. part # "." /\ part # ".."
    BY <1>4
  <2>2. After(done, part) = Append(done, part)
    BY <2>1 DEF After
  <2> QED  BY <1>4, <2>2 DEF NormalOf
<1> QED  BY <1>1, <1>2, <1>3, <1>4

\* f[n] is what lexically_normal has after n parts of p.
Resolves(f, p) ==
  f = [n \in 0 .. Len(p) |-> IF n = 0 THEN <<>> ELSE After(f[n - 1], p[n])]

\* lexically_normal is defined for every path, and its result has no "." and
\* no "..".
LEMMA Resolution ==
  ASSUME NEW S, NEW p \in Seq(S)
  PROVE  \E f : /\ Resolves(f, p)
                /\ f \in [0 .. Len(p) -> NormalOf(S)]
                /\ Normal(p) = f[Len(p)]
<1> DEFINE Upto(m, f) ==
             /\ f \in [0 .. m -> NormalOf(S)]
             /\ f[0] = <<>>
             /\ \A n \in 1 .. m : f[n] = After(f[n - 1], p[n])
           T == {m \in Nat : m <= Len(p) => \E f : Upto(m, f)}
<1>0. Len(p) \in Nat /\ \A n \in 1 .. Len(p) : p[n] \in S
  OBVIOUS
<1>1. 0 \in T
  <2>1. Upto(0, [n \in 0 .. 0 |-> <<>>])
    BY DEF NormalOf
  <2> QED  BY <2>1
<1>2. ASSUME NEW m \in Nat, m \in T PROVE m + 1 \in T
  <2> SUFFICES ASSUME m + 1 <= Len(p) PROVE \E f : Upto(m + 1, f)
    OBVIOUS
  <2>1. PICK f : Upto(m, f)
    BY <1>0, <1>2
  <2> DEFINE g == [n \in 0 .. m + 1 |->
                     IF n = m + 1 THEN After(f[m], p[m + 1]) ELSE f[n]]
  <2>2. After(f[m], p[m + 1]) \in NormalOf(S)
    <3>1. f[m] \in NormalOf(S) /\ p[m + 1] \in S
      BY <1>0, <2>1
    <3> QED  BY <3>1, AfterType
  <2>3. g \in [0 .. m + 1 -> NormalOf(S)]
    BY <2>1, <2>2
  <2>4. g[0] = <<>>
    BY <2>1
  <2>5. ASSUME NEW n \in 1 .. m + 1 PROVE g[n] = After(g[n - 1], p[n])
    <3>1. CASE n = m + 1
      <4>1. n - 1 = m /\ m \in 0 .. m + 1 /\ m # m + 1
        BY <3>1
      <4> QED  BY <3>1, <4>1
    <3>2. CASE n # m + 1
      <4>1. n \in 1 .. m /\ n - 1 \in 0 .. m + 1 /\ n - 1 # m + 1
        BY <3>2
      <4>2. g[n] = f[n] /\ g[n - 1] = f[n - 1]
        BY <3>2, <4>1
      <4> QED  BY <2>1, <4>1, <4>2
    <3> QED  BY <3>1, <3>2
  <2> QED  BY <2>3, <2>4, <2>5
<1> HIDE DEF Upto
<1>3. Len(p) \in T
  BY <1>0, <1>1, <1>2, Upward
<1>4. PICK f : Upto(Len(p), f)
  BY <1>0, <1>3
<1> USE DEF Upto
<1>5. Resolves(f, p)
  BY <1>0, <1>4 DEF Resolves
<1> DEFINE done == CHOOSE h : Resolves(h, p)
<1>6. Resolves(done, p)
  BY <1>5
<1>7. Normal(p) = done[Len(p)]
  BY DEF Normal, Resolves
<1> HIDE DEF done, Upto
<1>8. done \in [0 .. Len(p) -> NormalOf(S)]
  <2> DEFINE U == {m \in Nat : m <= Len(p) => done[m] \in NormalOf(S)}
  <2>1. 0 \in U
    BY <1>6, <1>0 DEF Resolves, NormalOf
  <2>2. ASSUME NEW m \in Nat, m \in U PROVE m + 1 \in U
    <3> SUFFICES ASSUME m + 1 <= Len(p) PROVE done[m + 1] \in NormalOf(S)
      OBVIOUS
    <3>1. m + 1 \in 0 .. Len(p) /\ m + 1 # 0 /\ (m + 1) - 1 = m
      BY <1>0
    <3>2. done[m + 1] = After(done[m], p[m + 1])
      BY <1>6, <3>1 DEF Resolves
    <3>3. done[m] \in NormalOf(S) /\ p[m + 1] \in S
      BY <1>0, <2>2
    <3> QED  BY <3>2, <3>3, AfterType
  <2>3. Nat \subseteq U
    BY <2>1, <2>2, Upward
  <2>4. \A n \in 0 .. Len(p) : done[n] \in NormalOf(S)
    BY <1>0, <2>3
  <2> QED  BY <1>6, <2>4 DEF Resolves
<1> QED  BY <1>6, <1>7, <1>8

\* The first k elements of t are s.
Begins(s, t) == Len(s) <= Len(t) /\ \A i \in 1 .. Len(s) : t[i] = s[i]

\* Begins, in the words of the library.
LEMMA PrefixOf ==
  ASSUME NEW S, NEW s \in Seq(S), NEW t \in Seq(S), Begins(s, t)
  PROVE  IsPrefix(s, t)
<1>1. Len(s) \in Nat /\ Len(t) \in Nat /\ Len(s) <= Len(t)
  BY DEF Begins
<1>2. SubSeq(s, 1, Len(s)) = [i \in 1 .. Len(s) |-> s[i]]
  BY <1>1
<1>3. SubSeq(t, 1, Len(s)) = [i \in 1 .. Len(s) |-> t[i]]
  BY <1>1
<1>4. \A i \in 1 .. Len(s) : t[i] = s[i]
  BY DEF Begins
<1> QED  BY <1>1, <1>2, <1>3, <1>4 DEF IsPrefix

\* A part other than "..", leaves what is there, and a name makes it longer.
LEMMA AfterGrows ==
  ASSUME NEW S, NEW done \in NormalOf(S), NEW part \in S, part # ".."
  PROVE  /\ Begins(done, After(done, part))
         /\ part # "." => Len(After(done, part)) = Len(done) + 1
<1>1. CASE part = "."
  BY <1>1 DEF After, Begins, NormalOf
<1>2. CASE part # "."
  <2>1. After(done, part) = Append(done, part)
    BY <1>2 DEF After
  <2>2. /\ Len(After(done, part)) = Len(done) + 1
        /\ \A i \in 1 .. Len(done) : After(done, part)[i] = done[i]
    BY <2>1, AppendProperties DEF NormalOf
  <2>3. Len(done) \in Nat
    BY DEF NormalOf
  <2> QED  BY <1>2, <2>2, <2>3 DEF Begins
<1> QED  BY <1>1, <1>2

\* Without "..", what lexically_normal has at some part stays.
LEMMA ResolvedStays ==
  ASSUME NEW S, NEW p \in Seq(S), \A i \in DOMAIN p : p[i] # "..",
         NEW f \in [0 .. Len(p) -> NormalOf(S)], Resolves(f, p),
         NEW k \in 0 .. Len(p)
  PROVE  \A n \in k .. Len(p) : Begins(f[k], f[n])
<1> DEFINE T == {m \in Nat : m + k <= Len(p) => Begins(f[k], f[m + k])}
<1>0. /\ Len(p) \in Nat /\ k \in Nat
      /\ \A n \in 1 .. Len(p) : p[n] \in S /\ p[n] # ".."
  OBVIOUS
<1>1. 0 \in T
  <2>1. f[k] \in NormalOf(S) /\ 0 + k = k
    BY <1>0
  <2>2. Begins(f[k], f[k])
    BY <2>1 DEF Begins, NormalOf
  <2> QED  BY <2>1, <2>2
<1>2. ASSUME NEW m \in Nat, m \in T PROVE m + 1 \in T
  <2> SUFFICES ASSUME (m + 1) + k <= Len(p)
               PROVE  Begins(f[k], f[(m + 1) + k])
    OBVIOUS
  <2> DEFINE n == m + k
  <2>1. /\ n \in 0 .. Len(p) /\ n + 1 \in 1 .. Len(p) /\ n + 1 # 0
        /\ (n + 1) - 1 = n /\ (m + 1) + k = n + 1 /\ n + 1 \in 0 .. Len(p)
        /\ m + k <= Len(p)
    BY <1>0
  <2>2. Begins(f[k], f[n])
    BY <1>2, <2>1
  <2> HIDE DEF n
  <2>3. f[n + 1] = After(f[n], p[n + 1])
    BY <2>1 DEF Resolves
  <2>4. Begins(f[n], f[n + 1])
    <3>1. f[n] \in NormalOf(S) /\ p[n + 1] \in S /\ p[n + 1] # ".."
      BY <1>0, <2>1
    <3> QED  BY <2>3, <3>1, AfterGrows
  <2>5. Len(f[k]) \in Nat /\ Len(f[n]) \in Nat /\ Len(f[n + 1]) \in Nat
    BY <2>1 DEF NormalOf
  <2>6. Begins(f[k], f[n + 1])
    BY <2>2, <2>4, <2>5 DEF Begins
  <2> QED  BY <2>1, <2>6
<1>3. Nat \subseteq T
  BY <1>1, <1>2, Upward
<1>4. ASSUME NEW n \in k .. Len(p) PROVE Begins(f[k], f[n])
  <2>1. n - k \in Nat /\ (n - k) + k = n /\ n <= Len(p)
    BY <1>0
  <2> QED  BY <1>3, <2>1
<1> QED  BY <1>4

\* One path after another.
LEMMA Joined ==
  ASSUME NEW S, NEW a \in Seq(S), NEW b \in Seq(S)
  PROVE  /\ a \o b \in Seq(S) /\ Len(a \o b) = Len(a) + Len(b)
         /\ \A i \in 1 .. Len(a) : (a \o b)[i] = a[i]
         /\ \A i \in 1 .. Len(b) : (a \o b)[Len(a) + i] = b[i]
<1>1. Len(a) \in Nat /\ Len(b) \in Nat
  OBVIOUS
<1>2. a \o b \in Seq(S) /\ Len(a \o b) = Len(a) + Len(b)
  BY ConcatProperties
<1>3. \A i \in 1 .. Len(a) + Len(b) :
        (a \o b)[i] = IF i <= Len(a) THEN a[i] ELSE b[i - Len(a)]
  BY ConcatProperties
<1>4. ASSUME NEW i \in 1 .. Len(a) PROVE (a \o b)[i] = a[i]
  BY <1>1, <1>3
<1>5. ASSUME NEW i \in 1 .. Len(b) PROVE (a \o b)[Len(a) + i] = b[i]
  BY <1>1, <1>3
<1> QED  BY <1>2, <1>4, <1>5

\* The paths that IsSafeRelativePath lets through are relative ones.
LEMMA SafeIsRelative ==
  ASSUME NEW p \in Paths, IsSafeRelativePath(p)
  PROVE  p \in Seq(Parts) /\ p # <<>> /\ Len(p) \in Nat /\ Len(p) > 0
<1>1. CASE p \in SeqOf(Parts, MaxParts)
  <2>1. p \in Seq(Parts)
    BY <1>1, PathsAssumption DEF SeqOf
  <2> QED  BY <2>1 DEF IsSafeRelativePath
<1>2. CASE \E q \in SeqOf(Parts, MaxParts) : p = <<"/">> \o q
  <2>1. PICK q \in SeqOf(Parts, MaxParts) : p = <<"/">> \o q
    BY <1>2
  <2> DEFINE U == Parts \union {"/"}
             slash == <<"/">>
  <2>2. q \in Seq(U)
    BY PathsAssumption DEF SeqOf
  <2>3. slash \in Seq(U) /\ Len(slash) = 1 /\ slash[1] = "/"
    OBVIOUS
  <2> HIDE DEF slash, U
  <2>4. /\ slash \o q \in Seq(U) /\ Len(slash \o q) = Len(slash) + Len(q)
        /\ \A i \in 1 .. Len(slash) : (slash \o q)[i] = slash[i]
    BY <2>2, <2>3, Joined
  <2>5. p = slash \o q
    BY <2>1 DEF slash
  <2>6. IsAbsolute(p)
    BY <2>2, <2>3, <2>4, <2>5 DEF IsAbsolute
  <2> QED  BY <2>6 DEF IsSafeRelativePath
<1> QED  BY <1>1, <1>2 DEF Paths

\* Where such a path leads: to the root or below it, and below it if the last
\* part is a name.
LEMMA SafeTarget ==
  ASSUME NEW p \in Paths, IsSafeRelativePath(p)
  PROVE  /\ Target(p) \in Located
         /\ Begins(OutputRoot, Target(p))
         /\ ~NamesDirectory(p) => Len(Target(p)) > 2
<1> DEFINE S == Parts \union {"cwd", "mcp_demo_output"}
           whole == OutputRoot \o p
<1>1. p \in Seq(S) /\ Len(p) \in Nat /\ Len(p) > 0 /\ p \in Seq(Parts)
  BY SafeIsRelative
<1> DEFINE root == OutputRoot
<1>2. root \in Seq(S) /\ Len(root) = 2 /\ root[1] = "cwd"
      /\ root[2] = "mcp_demo_output"
  BY DEF OutputRoot
<1> HIDE DEF root, S
<1>3. /\ root \o p \in Seq(S) /\ Len(root \o p) = Len(root) + Len(p)
      /\ \A i \in 1 .. Len(root) : (root \o p)[i] = root[i]
      /\ \A i \in 1 .. Len(p) : (root \o p)[Len(root) + i] = p[i]
  <2>1. root \in Seq(S) /\ p \in Seq(S)
    BY <1>1, <1>2
  <2> QED  BY <2>1, Joined
<1>4. whole = root \o p
  BY DEF root
<1> HIDE DEF whole
<1>5. whole \in Seq(S) /\ Len(whole) = 2 + Len(p)
  BY <1>2, <1>3, <1>4
<1>6. whole[1] = "cwd" /\ whole[2] = "mcp_demo_output"
  BY <1>1, <1>2, <1>3, <1>4
<1>7. \A i \in 1 .. Len(p) : whole[2 + i] = p[i]
  BY <1>2, <1>3, <1>4
<1>8. ASSUME NEW i \in DOMAIN whole PROVE whole[i] # ".."
  <2>1. i \in 1 .. 2 + Len(p)
    BY <1>5
  <2>2. CASE i \in {1, 2}
    BY <1>6, <2>2
  <2>3. CASE i \notin {1, 2}
    <3>1. i - 2 \in 1 .. Len(p) /\ 2 + (i - 2) = i
      BY <1>1, <2>1, <2>3
    <3>2. whole[i] = p[i - 2] /\ i - 2 \in DOMAIN p
      BY <1>1, <1>7, <3>1
    <3> QED  BY <3>2 DEF IsSafeRelativePath
  <2> QED  BY <2>2, <2>3
<1>9. PICK f : /\ Resolves(f, whole)
               /\ f \in [0 .. Len(whole) -> NormalOf(S)]
               /\ Normal(whole) = f[Len(whole)]
  BY <1>5, Resolution
<1>10. Target(p) = f[Len(whole)]
  BY <1>9 DEF Target, IsSafeRelativePath, whole
<1>11. f[2] = root
  <2>1. Len(whole) \in Nat /\ 0 \in 0 .. Len(whole) /\ 1 \in 0 .. Len(whole)
        /\ 2 \in 0 .. Len(whole)
    BY <1>1, <1>5
  <2>2. f[0] = <<>>
    BY <1>9, <2>1 DEF Resolves
  <2>3. f[1] = After(f[0], whole[1]) /\ f[2] = After(f[1], whole[2])
    BY <1>9, <2>1 DEF Resolves
  <2>4. f[1] = Append(f[0], "cwd") /\ f[2] = Append(f[1], "mcp_demo_output")
    BY <1>6, <2>3 DEF After
  <2>5. "cwd" \in S /\ "mcp_demo_output" \in S /\ f[0] \in Seq(S) /\ Len(f[0]) = 0
    BY <2>2 DEF S
  <2>6. f[1] \in Seq(S) /\ Len(f[1]) = 1 /\ f[1][1] = "cwd"
    BY <2>4, <2>5, AppendProperties
  <2>7. /\ f[2] \in Seq(S) /\ Len(f[2]) = 2
        /\ f[2][1] = "cwd" /\ f[2][2] = "mcp_demo_output"
    BY <2>4, <2>5, <2>6, AppendProperties
  <2> QED  BY <1>2, <2>7, SeqEqual
<1>12. 2 \in 0 .. Len(whole) /\ Len(whole) \in 2 .. Len(whole)
       /\ Len(whole) - 1 \in 2 .. Len(whole) /\ Len(whole) - 1 \in 0 .. Len(whole)
       /\ Len(whole) \in Nat /\ Len(whole) # 0 /\ Len(whole) \in 1 .. Len(whole)
  BY <1>1, <1>5
<1>13. \A n \in 2 .. Len(whole) : Begins(root, f[n])
  BY <1>5, <1>8, <1>9, <1>11, <1>12, ResolvedStays
<1>14. f[Len(whole)] \in NormalOf(S)
  BY <1>9, <1>12
<1>15. Target(p) \in Located
  <2>1. S \ {".", ".."} \subseteq Names \union {"cwd", "mcp_demo_output"}
    BY DEF S, Parts
  <2>2. Seq(S \ {".", ".."})
          \subseteq Seq(Names \union {"cwd", "mcp_demo_output"})
    BY <2>1, SeqMonotonic
  <2> QED  BY <1>10, <1>14, <2>2 DEF NormalOf, Located
<1>16. ASSUME ~NamesDirectory(p) PROVE Len(Target(p)) > 2
  <2> DEFINE n == Len(whole)
  <2>1. f[n] = After(f[n - 1], whole[n])
    BY <1>9, <1>12 DEF Resolves
  <2>2. whole[n] = p[Len(p)] /\ whole[n] \in S
    <3>1. Len(p) \in 1 .. Len(p) /\ n = 2 + Len(p)
      BY <1>1, <1>5
    <3> QED  BY <1>5, <1>7, <1>12, <3>1
  <2>3. whole[n] # "." /\ whole[n] # ".."
    BY <1>16, <2>2 DEF NamesDirectory, Last
  <2>4. f[n - 1] \in NormalOf(S)
    BY <1>9, <1>12
  <2>5. Len(f[n]) = Len(f[n - 1]) + 1
    BY <2>1, <2>2, <2>3, <2>4, AfterGrows
  <2>6. Len(f[n - 1]) \in Nat /\ 2 <= Len(f[n - 1])
    BY <1>2, <1>12, <1>13, <2>4 DEF Begins, NormalOf
  <2> QED  BY <1>10, <2>5, <2>6
<1>17. Begins(OutputRoot, Target(p))
  BY <1>10, <1>12, <1>13 DEF root
<1> QED  BY <1>15, <1>16, <1>17

-------------------------------------------------------------------------------
(* The file system.                                                        *)

\* The file system and the calls under way: what a call has been let through
\* with is safe.
FileInv ==
  /\ TypeOK
  /\ StaysUnderRoot
  /\ \A c \in Calls :
       pc[c] \in {"posted", "open", "write"} => IsSafeRelativePath(path[c])

\* A write keeps the content within its bound.
LEMMA OverwriteType ==
  ASSUME NEW S, Hole \in S, NEW content \in Seq(S), NEW chunk \in S,
         NEW n \in Nat, NEW i \in 1 .. n, Len(content) <= n
  PROVE  /\ Overwrite(content, i, chunk) \in Seq(S)
         /\ Len(Overwrite(content, i, chunk)) <= n
<1> DEFINE m == IF i > Len(content) THEN i ELSE Len(content)
           at(k) == IF k = i THEN chunk
                    ELSE IF k \in DOMAIN content THEN content[k] ELSE Hole
<1>1. m \in Nat /\ m <= n
  OBVIOUS
<1>2. \A k \in 1 .. m : at(k) \in S
  OBVIOUS
<1>3. Overwrite(content, i, chunk) = [k \in 1 .. m |-> at(k)]
  BY DEF Overwrite
<1> HIDE DEF m, at
<1>4. /\ [k \in 1 .. m |-> at(k)] \in Seq(S)
      /\ Len([k \in 1 .. m |-> at(k)]) = m
  BY <1>1, <1>2, IsASeq
<1> QED  BY <1>1, <1>3, <1>4

\* Nothing but the directories above the root.
LEMMA InitFiles == Init => FileInv
<1> SUFFICES ASSUME Init PROVE FileInv
  OBVIOUS
<1>1. DOMAIN files = {} /\ DOMAIN last = {}
  BY DEF Init
<1>2. dirs = {<<>>, <<"cwd">>} /\ dirs \subseteq Located
  BY DEF Init, Located
<1>3. written \in [Calls -> 0 .. Chunks]
  BY PathsAssumption DEF Init
<1>4. TypeOK
  BY <1>1, <1>2, <1>3 DEF Init, TypeOK
<1>5. StaysUnderRoot
  BY <1>1, <1>2 DEF StaysUnderRoot
<1> QED  BY <1>4, <1>5 DEF Init, FileInv

\* The beginning of a path.
LEMMA FirstPart ==
  ASSUME NEW S, NEW s \in Seq(S), NEW n \in 0 .. Len(s)
  PROVE  /\ SubSeq(s, 1, n) \in Seq(S) /\ Len(SubSeq(s, 1, n)) = n
         /\ \A i \in 1 .. n : SubSeq(s, 1, n)[i] = s[i]
<1>1. /\ Len(s) \in Nat /\ n \in Nat /\ n <= Len(s)
      /\ \A i \in 1 .. Len(s) : s[i] \in S
  OBVIOUS
<1>2. SubSeq(s, 1, n) = [i \in 1 .. n |-> s[i]]
  BY <1>1
<1>3. \A i \in 1 .. n : s[i] \in S
  BY <1>1
<1> QED  BY <1>1, <1>2, <1>3, IsASeq

\* What create_directories makes for such a path: the root, what is below it
\* on the way, and nothing else.
LEMMA DirectoriesMade ==
  ASSUME NEW p \in Paths, IsSafeRelativePath(p), NEW d \in Above(Parent(p))
  PROVE  /\ d \in Located
         /\ d \in {<<>>, <<"cwd">>} \/ IsPrefix(OutputRoot, d)
<1> DEFINE t == Target(p)
           above == Parent(p)
           N == Names \union {"cwd", "mcp_demo_output"}
<1>0. (NamesDirectory(p) \/ t = <<>> => above = t)
      /\ (~NamesDirectory(p) /\ t # <<>> => above = SubSeq(t, 1, Len(t) - 1))
      /\ Above(above) = {SubSeq(above, 1, n) : n \in 0 .. Len(above)}
  BY DEF Parent, Front, Above
<1>1. t \in Seq(N) /\ Begins(OutputRoot, t) /\ (~NamesDirectory(p) => Len(t) > 2)
  BY SafeTarget DEF Located
<1> HIDE DEF N, t, above
<1>2. Len(t) \in Nat /\ Len(t) >= 2 /\ t[1] = "cwd" /\ t[2] = "mcp_demo_output"
  BY <1>1 DEF Begins, OutputRoot
<1>3. \/ above = t
      \/ Len(t) > 2 /\ above = SubSeq(t, 1, Len(t) - 1)
  BY <1>0, <1>1
<1>4. /\ above \in Seq(N) /\ Len(above) \in Nat /\ Len(above) >= 2
      /\ above[1] = "cwd" /\ above[2] = "mcp_demo_output"
  <2>1. CASE above = t
    BY <1>1, <1>2, <2>1
  <2>2. CASE Len(t) > 2 /\ above = SubSeq(t, 1, Len(t) - 1)
    <3>1. Len(t) - 1 \in 0 .. Len(t) /\ Len(t) - 1 >= 2 /\ Len(t) - 1 \in Nat
      BY <1>2, <2>2
    <3>2. /\ above \in Seq(N) /\ Len(above) = Len(t) - 1
          /\ \A i \in 1 .. Len(t) - 1 : above[i] = t[i]
      BY <1>1, <2>2, <3>1, FirstPart
    <3> QED  BY <1>2, <3>1, <3>2
  <2> QED  BY <1>3, <2>1, <2>2
<1>5. PICK n \in 0 .. Len(above) : d = SubSeq(above, 1, n)
  BY <1>0 DEF above
<1>6. /\ d \in Seq(N) /\ Len(d) = n /\ n \in Nat /\ n <= Len(above)
      /\ \A i \in 1 .. n : d[i] = above[i]
  BY <1>4, <1>5, FirstPart
<1>7. CASE n = 0
  BY <1>6, <1>7 DEF N, Located
<1>8. CASE n = 1
  <2>1. d = <<"cwd">>
    BY <1>4, <1>6, <1>8
  <2> QED  BY <1>6, <2>1 DEF N, Located
<1>9. CASE n >= 2
  <2> DEFINE root == OutputRoot
  <2>1. /\ root \in Seq(N) /\ Len(root) = 2
        /\ root[1] = "cwd" /\ root[2] = "mcp_demo_output"
    BY DEF OutputRoot, N
  <2> HIDE DEF root
  <2>2. d[1] = "cwd" /\ d[2] = "mcp_demo_output"
    BY <1>4, <1>6, <1>9
  <2>3. Begins(root, d)
    BY <1>6, <1>9, <2>1, <2>2 DEF Begins
  <2>4. IsPrefix(root, d)
    BY <1>6, <2>1, <2>3, PrefixOf
  <2> QED  BY <1>6, <2>4 DEF root, N, Located
<1> QED  BY <1>6, <1>7, <1>8, <1>9

\* A path that leads to a file leads below the root.
LEMMA FileBelow ==
  ASSUME NEW p \in Paths, IsSafeRelativePath(p), ~NamesDirectory(p)
  PROVE  Target(p) \in Located /\ IsStrictPrefix(OutputRoot, Target(p))
<1> DEFINE t == Target(p)
           root == OutputRoot
<1>1. t \in Located /\ Begins(root, t) /\ Len(t) > 2
  BY SafeTarget
<1>2. root \in Located /\ Len(root) = 2
  BY DEF OutputRoot, Located
<1> HIDE DEF t, root
<1>3. IsPrefix(root, t) /\ root # t
  BY <1>1, <1>2, PrefixOf DEF Located
<1> QED  BY <1>1, <1>3 DEF t, root, IsStrictPrefix

\* Steps that touch no file.
LEMMA CallStep ==
  ASSUME FileInv, NEW c \in Calls, CheckPath(c) \/ Finish(c)
  PROVE  FileInv'
<1>1. UNCHANGED <<path, dirs, files, written, failed, shared, last>>
  BY DEF CheckPath, Finish
<1>2. /\ pc' \in [Calls -> {"called", "posted", "open", "write", "returned"}]
      /\ result' \in [Calls -> {"none", "error", "success"}]
  BY DEF CheckPath, Finish, Return, FileInv, TypeOK
<1>3. TypeOK' /\ StaysUnderRoot'
  BY <1>1, <1>2 DEF FileInv, TypeOK, StaysUnderRoot
<1>4. \A d \in Calls : pc'[d] \in {"posted", "open", "write"} =>
                         IsSafeRelativePath(path[d])
  BY DEF CheckPath, Finish, Return, FileInv, TypeOK
<1> QED  BY <1>1, <1>3, <1>4 DEF FileInv

\* create_directories.
LEMMA CreateStep ==
  ASSUME FileInv, NEW c \in Calls, CreateDirectories(c)
  PROVE  FileInv'
<1> DEFINE needed == Above(Parent(path[c]))
<1>1. UNCHANGED <<path, files, written, failed, shared, last>>
  BY DEF CreateDirectories
<1>2. /\ path[c] \in Paths /\ IsSafeRelativePath(path[c])
      /\ pc' \in [Calls -> {"called", "posted", "open", "write", "returned"}]
      /\ result' \in [Calls -> {"none", "error", "success"}]
  BY DEF CreateDirectories, Return, FileInv, TypeOK
<1>3. \A d \in Calls : pc'[d] \in {"posted", "open", "write"} =>
                         IsSafeRelativePath(path[d])
  BY DEF CreateDirectories, Return, FileInv, TypeOK
<1>4. \/ UNCHANGED dirs
      \/ /\ needed \intersect DOMAIN files = {}
         /\ \E made \in SUBSET needed : dirs' = dirs \union made
  BY DEF CreateDirectories
<1>5. \A d \in needed : /\ d \in Located
                        /\ d \in {<<>>, <<"cwd">>} \/ IsPrefix(OutputRoot, d)
  BY <1>2, DirectoriesMade
<1> HIDE DEF needed
<1>6. /\ dirs' \subseteq Located
      /\ dirs' \intersect DOMAIN files = {}
      /\ \A d \in dirs' : d \in {<<>>, <<"cwd">>} \/ IsPrefix(OutputRoot, d)
  BY <1>4, <1>5 DEF FileInv, TypeOK, StaysUnderRoot
<1>7. TypeOK'
  BY <1>1, <1>2, <1>6 DEF FileInv, TypeOK
<1>8. StaysUnderRoot'
  BY <1>1, <1>6 DEF FileInv, StaysUnderRoot
<1> QED  BY <1>1, <1>3, <1>7, <1>8 DEF FileInv

\* Opening a file adds it, below the root, where no directory is.
LEMMA OpenFile ==
  ASSUME FileInv, NEW c \in Calls, Open(c)
  PROVE  FileInv'
<1> DEFINE t == Target(path[c])
<1>1. UNCHANGED <<path, dirs, written, failed>>
  BY DEF Open
<1>2. /\ path[c] \in Paths /\ IsSafeRelativePath(path[c])
      /\ pc' \in [Calls -> {"called", "posted", "open", "write", "returned"}]
      /\ result' \in [Calls -> {"none", "error", "success"}]
  BY DEF Open, Return, FileInv, TypeOK
<1>3. \A d \in Calls : pc'[d] \in {"posted", "open", "write"} =>
                         IsSafeRelativePath(path[d])
  BY DEF Open, Return, FileInv, TypeOK
<1>4. CASE UNCHANGED <<files, shared, last>>
  <2>1. TypeOK' /\ StaysUnderRoot'
    BY <1>1, <1>2, <1>4 DEF FileInv, TypeOK, StaysUnderRoot
  <2> QED  BY <1>1, <1>3, <2>1 DEF FileInv
<1>5. CASE /\ ~NamesDirectory(path[c]) /\ t \notin dirs
           /\ files' = [f \in DOMAIN files \union {t} |->
                          IF f = t THEN <<>> ELSE files[f]]
           /\ last' = [f \in DOMAIN files \union {t} |->
                         IF f = t THEN c ELSE last[f]]
           /\ shared' = IF Sharing(c) = {} THEN shared
                        ELSE shared \union Sharing(c) \union {c}
  <2>1. t \in Located /\ IsStrictPrefix(OutputRoot, t)
    BY <1>2, <1>5, FileBelow
  <2> HIDE DEF t
  <2>2. /\ DOMAIN files' = DOMAIN files \union {t}
        /\ DOMAIN last' = DOMAIN files \union {t}
        /\ \A f \in DOMAIN files' :
             /\ f # t => f \in DOMAIN files /\ files'[f] = files[f]
                         /\ last'[f] = last[f]
             /\ f = t => files'[f] = <<>> /\ last'[f] = c
    BY <1>5
  <2>3. ASSUME NEW f \in DOMAIN files'
        PROVE  /\ files'[f] \in Seq(Calls \union {Hole})
               /\ Len(files'[f]) <= Chunks /\ last'[f] \in Calls
    <3>1. CASE f = t
      <4>1. files'[f] = <<>> /\ last'[f] = c
        BY <2>2, <3>1
      <4>2. <<>> \in Seq(Calls \union {Hole}) /\ Len(<<>>) = 0 /\ 0 <= Chunks
        BY PathsAssumption
      <4> QED  BY <4>1, <4>2
    <3>2. CASE f # t
      BY <2>2, <3>2 DEF FileInv, TypeOK
    <3> QED  BY <3>1, <3>2
  <2>4. shared' \subseteq Calls
    BY <1>5 DEF Sharing, FileInv, TypeOK
  <2>5. DOMAIN files' \subseteq Located /\ dirs' \intersect DOMAIN files' = {}
    BY <1>1, <1>5, <2>1, <2>2 DEF FileInv, TypeOK
  <2>6. TypeOK'
    BY <1>1, <1>2, <2>2, <2>3, <2>4, <2>5 DEF FileInv, TypeOK
  <2>7. StaysUnderRoot'
    BY <1>1, <2>1, <2>2 DEF FileInv, StaysUnderRoot
  <2> QED  BY <1>1, <1>3, <2>6, <2>7 DEF FileInv
<1> QED  BY <1>4, <1>5 DEF Open

\* A chunk changes the content of a file, and no name.
LEMMA WriteStep ==
  ASSUME FileInv, NEW c \in Calls, WriteChunk(c)
  PROVE  FileInv'
<1> DEFINE t == Target(path[c])
           w == written[c]
<1>1. /\ UNCHANGED <<path, pc, result, dirs, shared, last>>
      /\ w \in 0 .. Chunks /\ w < Chunks
  BY DEF WriteChunk, FileInv, TypeOK
<1>2. CASE failed' = [failed EXCEPT ![c] = TRUE] /\ UNCHANGED <<written, files>>
  <2>1. TypeOK' /\ StaysUnderRoot'
    BY <1>1, <1>2 DEF FileInv, TypeOK, StaysUnderRoot
  <2> QED  BY <1>1, <2>1 DEF FileInv
<1>3. CASE /\ written' = [written EXCEPT ![c] = @ + 1]
           /\ files' = [files EXCEPT ![t] = Overwrite(@, w + 1, c)]
           /\ UNCHANGED failed
  <2>1. /\ DOMAIN files' = DOMAIN files
        /\ \A f \in DOMAIN files :
             files'[f] = IF f = t THEN Overwrite(files[f], w + 1, c)
                         ELSE files[f]
    BY <1>3
  <2>2. Chunks \in Nat /\ w + 1 \in 1 .. Chunks /\ w + 1 \in 0 .. Chunks
    BY <1>1, PathsAssumption
  <2>3. written' \in [Calls -> 0 .. Chunks]
    BY <1>3, <2>2 DEF FileInv, TypeOK
  <2> HIDE DEF t, w
  <2>4. ASSUME NEW f \in DOMAIN files
        PROVE  /\ files'[f] \in Seq(Calls \union {Hole})
               /\ Len(files'[f]) <= Chunks
    <3>1. /\ files[f] \in Seq(Calls \union {Hole}) /\ Len(files[f]) <= Chunks
          /\ c \in Calls \union {Hole} /\ Hole \in Calls \union {Hole}
      BY DEF FileInv, TypeOK
    <3>2. /\ Overwrite(files[f], w + 1, c) \in Seq(Calls \union {Hole})
          /\ Len(Overwrite(files[f], w + 1, c)) <= Chunks
      BY <2>2, <3>1, OverwriteType
    <3> QED  BY <2>1, <3>1, <3>2
  <2>5. TypeOK'
    BY <1>1, <1>3, <2>1, <2>3, <2>4 DEF FileInv, TypeOK
  <2>6. StaysUnderRoot'
    BY <1>1, <2>1 DEF FileInv, StaysUnderRoot
  <2> QED  BY <1>1, <2>5, <2>6 DEF FileInv
<1> QED  BY <1>2, <1>3 DEF WriteChunk

\* Every step keeps the invariant.
LEMMA NextFiles == FileInv /\ [Next]_vars => FileInv'
<1> SUFFICES ASSUME FileInv, [Next]_vars PROVE FileInv'
  OBVIOUS
<1>1. CASE Returned \/ UNCHANGED vars
  <2>1. UNCHANGED vars
    BY <1>1 DEF Returned
  <2> QED  BY <2>1 DEF vars, FileInv, TypeOK, StaysUnderRoot
<1> QED  BY <1>1, CallStep, CreateStep, OpenFile, WriteStep DEF Next

\* What calls of write_file may touch, whatever their paths and however they
\* interleave.
THEOREM FilesStay == Spec => []FileInv
BY InitFiles, NextFiles, PTL DEF Spec

\* Types of the calls and of the file system: no directory is a file, and no
\* content grows beyond what one call writes (WriteFileBlocking).
THEOREM TypesOfFiles == Spec => []TypeOK
<1>1. FileInv => TypeOK
  BY DEF FileInv
<1> QED  BY <1>1, FilesStay, PTL

\* No file, and no directory, is made outside mcp_demo_output, for any names,
\* any length of path and any calls: no path that IsSafeRelativePath lets
\* through leads out of it once lexically_normal has resolved it.
THEOREM FilesStayUnderRoot == Spec => []StaysUnderRoot
<1>1. FileInv => StaysUnderRoot
  BY DEF FileInv
<1> QED  BY <1>1, FilesStay, PTL

-------------------------------------------------------------------------------
(* What a write leaves behind.  Only whether two calls have the same       *)
(* target matters here.                                                    *)

\* Types of the calls and of the file system.
CallTypes ==
  /\ pc \in [Calls -> {"called", "posted", "open", "write", "returned"}]
  /\ result \in [Calls -> {"none", "error", "success"}]
  /\ written \in [Calls -> 0 .. Chunks]
  /\ failed \in [Calls -> BOOLEAN]
  /\ files = [t \in DOMAIN files |-> files[t]]
  /\ last = [t \in DOMAIN files |-> last[t]]

\* c has opened its file, and nobody has opened it since.
Latest(c) == Target(path[c]) \in DOMAIN files /\ last[Target(path[c])] = c

Content(c) == [i \in 1 .. written[c] |-> c]

\* While a call writes, whoever has opened its file since has shared it.
Overtaken(c) ==
  pc[c] = "write" =>
    /\ Target(path[c]) \in DOMAIN files
    /\ Latest(c) \/ last[Target(path[c])] \in shared

\* A call opens its file when it begins to write; while no other call has it
\* open too, the file holds what the call has written.
Alone(c) ==
  /\ result[c] = "success" =>
       /\ pc[c] = "returned" /\ (written[c] = Chunks \/ failed[c])
       /\ Target(path[c]) \in DOMAIN files
  /\ pc[c] \in {"called", "posted", "open"} => written[c] = 0
  /\ Latest(c) => pc[c] = "write" \/ result[c] = "success"
  /\ Latest(c) /\ c \notin shared => files[Target(path[c])] = Content(c)

WriteInv == CallTypes /\ \A c \in Calls : Overtaken(c) /\ Alone(c)

\* The next chunk goes to the end of what the call has written.
LEMMA AppendChunk ==
  ASSUME NEW n \in Nat, NEW c
  PROVE  Overwrite([i \in 1 .. n |-> c], n + 1, c) = [i \in 1 .. n + 1 |-> c]
<1> DEFINE content == [i \in 1 .. n |-> c]
<1>1. Len(content) = n /\ DOMAIN content = 1 .. n
  OBVIOUS
<1> HIDE DEF content
<1>2. Overwrite(content, n + 1, c) =
        [k \in 1 .. n + 1 |->
           IF k = n + 1 THEN c
           ELSE IF k \in 1 .. n THEN content[k] ELSE Hole]
  BY <1>1 DEF Overwrite
<1>3. \A k \in 1 .. n + 1 : k # n + 1 => k \in 1 .. n /\ content[k] = c
  BY DEF content
<1>4. Overwrite(content, n + 1, c) = [i \in 1 .. n + 1 |-> c]
  BY <1>2, <1>3
<1> QED  BY <1>4 DEF content

\* Nothing has been opened.
LEMMA InitWrite == Init => WriteInv
<1> SUFFICES ASSUME Init PROVE WriteInv
  OBVIOUS
<1>1. DOMAIN files = {}
  BY DEF Init
<1>2. \A c \in Calls : ~Latest(c)
  BY <1>1 DEF Latest
<1>3. CallTypes
  BY PathsAssumption DEF Init, CallTypes
<1> QED  BY <1>2, <1>3 DEF Init, WriteInv, Overtaken, Alone

\* What a call that changes no file says of the others.
LEMMA OthersStay ==
  ASSUME WriteInv, NEW d \in Calls,
         UNCHANGED <<path, files, last, shared>>,
         pc'[d] = pc[d], result'[d] = result[d], written'[d] = written[d],
         failed'[d] = failed[d]
  PROVE  Overtaken(d)' /\ Alone(d)'
BY DEF WriteInv, Overtaken, Alone, Latest, Content

\* The steps before a file is opened, and the last.
LEMMA QuietSteps ==
  ASSUME WriteInv, NEW c \in Calls,
         CheckPath(c) \/ CreateDirectories(c) \/ Finish(c)
  PROVE  WriteInv'
<1>1. UNCHANGED <<path, files, last, shared, written, failed>>
  BY DEF CheckPath, CreateDirectories, Finish
<1>2. /\ pc' \in [Calls -> {"called", "posted", "open", "write", "returned"}]
      /\ result' \in [Calls -> {"none", "error", "success"}]
  BY DEF CheckPath, CreateDirectories, Finish, Return, WriteInv, CallTypes
<1>3. CallTypes'
  BY <1>1, <1>2 DEF WriteInv, CallTypes
<1>4. \A d \in Calls \ {c} : pc'[d] = pc[d] /\ result'[d] = result[d]
  BY DEF CheckPath, CreateDirectories, Finish, Return, WriteInv, CallTypes
<1>5. \A d \in Calls \ {c} : Overtaken(d)' /\ Alone(d)'
  BY <1>1, <1>4, OthersStay
<1>6. Overtaken(c) /\ Alone(c)
  BY DEF WriteInv
<1>7. CASE CheckPath(c) \/ CreateDirectories(c)
  <2>1. /\ pc[c] \in {"called", "posted"}
        /\ pc'[c] \in {"posted", "open", "returned"}
        /\ result'[c] \in {result[c], "error"}
    BY <1>7 DEF CheckPath, CreateDirectories, Return, WriteInv, CallTypes
  <2>2. ~Latest(c) /\ result[c] # "success" /\ written[c] = 0
    BY <1>6, <2>1 DEF Alone
  <2> QED
    BY <1>1, <1>3, <1>5, <2>1, <2>2 DEF WriteInv, Overtaken, Alone, Latest
<1>8. CASE Finish(c)
  <2>1. /\ pc[c] = "write" /\ pc'[c] = "returned" /\ result'[c] = "success"
        /\ written[c] = Chunks \/ failed[c]
    BY <1>8 DEF Finish, Return, WriteInv, CallTypes
  <2>2. Overtaken(c)' /\ Alone(c)'
    BY <1>1, <1>6, <2>1 DEF Overtaken, Alone, Latest, Content
  <2> QED  BY <1>3, <1>5, <2>2 DEF WriteInv
<1> QED  BY <1>7, <1>8

\* Opening a file empties it: whoever has it open now shares it.
LEMMA OpenStep == ASSUME WriteInv, NEW c \in Calls, Open(c) PROVE WriteInv'
<1> DEFINE t == Target(path[c])
<1>1. /\ UNCHANGED <<path, written, failed>>
      /\ pc[c] = "open" /\ Overtaken(c) /\ Alone(c)
      /\ ~Latest(c) /\ written[c] = 0 /\ result[c] # "success"
  BY DEF Open, WriteInv, Alone
<1>2. CASE Return(c, "error") /\ UNCHANGED <<files, shared, last>>
  <2>1. CallTypes'
    BY <1>1, <1>2 DEF Return, WriteInv, CallTypes
  <2>2. /\ \A d \in Calls \ {c} : pc'[d] = pc[d] /\ result'[d] = result[d]
        /\ pc'[c] = "returned" /\ result'[c] = "error"
    BY <1>2 DEF Return, WriteInv, CallTypes
  <2>3. \A d \in Calls \ {c} : Overtaken(d)' /\ Alone(d)'
    BY <1>1, <1>2, <2>2, OthersStay
  <2>4. Overtaken(c)' /\ Alone(c)'
    BY <1>1, <1>2, <2>2 DEF Overtaken, Alone, Latest
  <2> QED  BY <2>1, <2>3, <2>4 DEF WriteInv
<1>3. CASE /\ files' = [f \in DOMAIN files \union {t} |->
                          IF f = t THEN <<>> ELSE files[f]]
           /\ last' = [f \in DOMAIN files \union {t} |->
                         IF f = t THEN c ELSE last[f]]
           /\ shared' = IF Sharing(c) = {} THEN shared
                        ELSE shared \union Sharing(c) \union {c}
           /\ pc' = [pc EXCEPT ![c] = "write"]
           /\ UNCHANGED result
  <2>1. CallTypes'
    BY <1>1, <1>3 DEF WriteInv, CallTypes
  <2>2. /\ \A d \in Calls \ {c} : pc'[d] = pc[d]
        /\ pc'[c] = "write"
    BY <1>3 DEF WriteInv, CallTypes
  <2>3. /\ DOMAIN files' = DOMAIN files \union {t}
        /\ \A f \in DOMAIN files :
             f # t => files'[f] = files[f] /\ last'[f] = last[f]
        /\ files'[t] = <<>> /\ last'[t] = c
        /\ shared \subseteq shared'
    BY <1>3
  <2> HIDE DEF t
  <2>4. ASSUME NEW d \in Calls, d # c PROVE Overtaken(d)' /\ Alone(d)'
    <3>1. Overtaken(d) /\ Alone(d)
      BY DEF WriteInv
    <3>2. /\ pc'[d] = pc[d] /\ result'[d] = result[d]
          /\ written'[d] = written[d] /\ failed'[d] = failed[d]
          /\ path' = path
      BY <1>1, <1>3, <2>2, <2>4
    <3>3. CASE Target(path[d]) # t
      BY <2>3, <3>1, <3>2, <3>3
      DEF Overtaken, Alone, Latest, Content
    <3>4. CASE Target(path[d]) = t
      <4>1. ~Latest(d)' /\ Target(path'[d]) \in DOMAIN files'
        BY <2>3, <2>4, <3>2, <3>4 DEF Latest
      <4>2. pc[d] = "write" => c \in shared'
        <5>1. pc[d] = "write" => d \in Sharing(c)
          BY <2>4, <3>4 DEF Sharing, t
        <5> QED  BY <1>3, <5>1
      <4>3. Overtaken(d)'
        BY <2>3, <3>2, <3>4, <4>1, <4>2 DEF Overtaken
      <4> QED  BY <3>1, <3>2, <4>1, <4>3 DEF Alone
    <3> QED  BY <3>3, <3>4
  <2>5. Overtaken(c)' /\ Alone(c)'
    <3>1. Content(c)' = <<>>
      BY <1>1 DEF Content
    <3>2. Latest(c)' /\ Target(path'[c]) = t
      BY <1>1, <2>3 DEF Latest, t
    <3> QED
      BY <1>1, <1>3, <2>2, <2>3, <3>1, <3>2 DEF Overtaken, Alone
  <2> QED  BY <2>1, <2>4, <2>5 DEF WriteInv
<1> QED  BY <1>2, <1>3 DEF Open

\* A chunk goes to a file that only its writer has, or to a shared one.
LEMMA ChunkStep ==
  ASSUME WriteInv, NEW c \in Calls, WriteChunk(c) PROVE WriteInv'
<1> DEFINE t == Target(path[c])
           w == written[c]
<1>1. /\ UNCHANGED <<path, pc, result, shared, last>>
      /\ pc[c] = "write" /\ w \in Nat /\ w < Chunks
      /\ Overtaken(c) /\ Alone(c) /\ result[c] # "success"
  BY DEF WriteChunk, WriteInv, CallTypes, Alone
<1>2. CASE UNCHANGED <<written, files>> /\ failed' = [failed EXCEPT ![c] = TRUE]
  <2>1. CallTypes'
    BY <1>1, <1>2 DEF WriteInv, CallTypes
  <2>2. \A d \in Calls \ {c} : failed'[d] = failed[d]
    BY <1>2 DEF WriteInv, CallTypes
  <2>3. \A d \in Calls \ {c} : Overtaken(d)' /\ Alone(d)'
    BY <1>1, <1>2, <2>2, OthersStay
  <2>4. Overtaken(c)' /\ Alone(c)'
    BY <1>1, <1>2 DEF Overtaken, Alone, Latest, Content
  <2> QED  BY <2>1, <2>3, <2>4 DEF WriteInv
<1>3. CASE /\ written' = [written EXCEPT ![c] = @ + 1]
           /\ files' = [files EXCEPT ![t] = Overwrite(@, written[c] + 1, c)]
           /\ UNCHANGED failed
  <2>1. /\ DOMAIN files' = DOMAIN files /\ t \in DOMAIN files
        /\ \A f \in DOMAIN files : f # t => files'[f] = files[f]
        /\ files'[t] = Overwrite(files[t], w + 1, c)
    BY <1>1, <1>3 DEF Overtaken, WriteInv, CallTypes
  <2>2. /\ \A d \in Calls \ {c} : written'[d] = written[d]
        /\ written'[c] = w + 1 /\ w + 1 \in 0 .. Chunks
    BY <1>1, <1>3, PathsAssumption DEF WriteInv, CallTypes
  <2>3. CallTypes'
    <3>1. written' \in [Calls -> 0 .. Chunks]
      BY <1>3, <2>2 DEF WriteInv, CallTypes
    <3>2. files' = [f \in DOMAIN files' |-> files'[f]]
      BY <1>3, <2>1
    <3> QED  BY <1>1, <1>3, <2>1, <3>1, <3>2 DEF WriteInv, CallTypes
  <2> HIDE DEF t, w
  <2>4. ASSUME NEW d \in Calls, d # c PROVE Overtaken(d)' /\ Alone(d)'
    <3>1. Overtaken(d) /\ Alone(d)
      BY DEF WriteInv
    <3>2. Latest(d)' <=> Latest(d)
      BY <1>1, <2>1 DEF Latest
    <3>3. Overtaken(d)'
      BY <1>1, <2>1, <3>1, <3>2 DEF Overtaken
    <3>4. Latest(d) /\ d \notin shared => Target(path[d]) # t
      BY <1>1, <2>4 DEF Latest, Overtaken, t
    <3>5. Latest(d) /\ d \notin shared =>
            files'[Target(path[d])] = files[Target(path[d])]
      BY <2>1, <3>4 DEF Latest
    <3>6. Content(d)' = Content(d)
      BY <2>2, <2>4 DEF Content
    <3> QED
      BY <1>1, <1>3, <2>1, <2>2, <2>4, <3>1, <3>2, <3>3, <3>5, <3>6 DEF Alone
  <2>5. Overtaken(c)' /\ Alone(c)'
    <3>1. Latest(c)' <=> Latest(c)
      BY <1>1, <2>1 DEF Latest
    <3>2. ASSUME Latest(c), c \notin shared PROVE files'[t] = Content(c)'
      <4>1. files[t] = [i \in 1 .. w |-> c]
        BY <1>1, <3>2 DEF Alone, Content, t, w
      <4>2. files'[t] = [i \in 1 .. w + 1 |-> c]
        <5>1. w \in Nat
          BY <1>1
        <5>2. Overwrite([i \in 1 .. w |-> c], w + 1, c)
                = [i \in 1 .. w + 1 |-> c]
          BY <5>1, AppendChunk
        <5> QED  BY <2>1, <4>1, <5>2
      <4> QED  BY <2>2, <4>2 DEF Content
    <3> QED
      BY <1>1, <2>1, <3>1, <3>2 DEF Overtaken, Alone, t
  <2> QED  BY <2>3, <2>4, <2>5 DEF WriteInv
<1> QED  BY <1>2, <1>3 DEF WriteChunk

\* Every step keeps the invariant.
LEMMA NextWrite == WriteInv /\ [Next]_vars => WriteInv'
<1> SUFFICES ASSUME WriteInv, [Next]_vars PROVE WriteInv'
  OBVIOUS
<1>1. CASE Returned \/ UNCHANGED vars
  <2>1. UNCHANGED vars
    BY <1>1 DEF Returned
  <2> QED
    BY <2>1 DEF vars, WriteInv, CallTypes, Overtaken, Alone, Latest, Content
<1> QED  BY <1>1, QuietSteps, OpenStep, ChunkStep DEF Next

\* A call that no other disturbed leaves its whole content in its file: for
\* any calls, paths and lengths (IsSafeRelativePath, WriteFileBlocking).
THEOREM SoleWritesStand == Spec => []SoleWriteStands
<1>1. WriteInv => SoleWriteStands
  <2> SUFFICES ASSUME WriteInv, NEW c \in Calls, result[c] = "success",
                      c \notin shared, last[Target(path[c])] = c, ~failed[c]
               PROVE  files[Target(path[c])] = [i \in 1 .. Chunks |-> c]
    BY DEF SoleWriteStands
  <2>1. Alone(c) /\ Latest(c)
    BY DEF WriteInv, Alone, Latest
  <2> QED  BY <2>1 DEF Alone, Content
<1> QED  BY <1>1, InitWrite, NextWrite, PTL DEF Spec

-------------------------------------------------------------------------------
(* The arguments of the tools and of the prompt.                           *)

\* The type a tool or prompt asks of a member.
Kind(c, m) ==
  IF c = "add" \/ (c = "calculate" /\ m \in {"a", "b"}) THEN "number"
  ELSE "string"

\* The tests t of c: each type is looked at where the member is known to be
\* there, and every member has both tests.
Orderly(c, t) ==
  /\ Len(t) \in Nat
  /\ \A k \in 1 .. Len(t) :
       /\ t[k].member \in Members(c)
       /\ t[k].type \in {"any", Kind(c, t[k].member)}
       /\ t[k].type # "any" =>
            \E j \in 1 .. Len(t) : j < k /\ t[j].member = t[k].member
  /\ \A m \in Members(c) :
       \E k \in 1 .. Len(t) : t[k].member = m /\ t[k].type = Kind(c, m)

\* The tools and the prompt, and the members of their schemas.
LEMMA CallableNames ==
  Callables = {"echo", "calculate", "get_time", "get_weather", "write_file",
                    "add", "code_review"}
BY DEF Callables, Schema

LEMMA MemberNames ==
  /\ Members("echo") = {"message"}
  /\ Members("calculate") = {"operation", "a", "b"}
  /\ Members("get_time") = {}
  /\ Members("get_weather") = {"city"}
  /\ Members("write_file") = {"path", "content"}
  /\ Members("add") = {"a", "b"}
  /\ Members("code_review") = {"code", "language"}
BY DEF Members, Schema

\* Two tests for one member.
LEMMA OneMember ==
  ASSUME NEW c, NEW m, Members(c) = {m}, 
         Tests[c] = <<Present(m), Is(Kind(c, m), m)>>
  PROVE  Orderly(c, Tests[c])
<1> DEFINE t == Tests[c]
<1>1. /\ Len(t) = 2 /\ 1 .. 2 = {1, 2} /\ 1 \in 1 .. 2 /\ 2 \in 1 .. 2
      /\ t[1].member = m /\ t[1].type = "any"
      /\ t[2].member = m /\ t[2].type = Kind(c, m)
  BY DEF Present, Is
<1> HIDE DEF t
<1>2. Orderly(c, t)
  BY <1>1 DEF Orderly
<1> QED  BY <1>2 DEF t

\* Two tests for each of two members.
LEMMA TwoMembers ==
  ASSUME NEW c, NEW m, NEW n, m # n,
         Members(c) = {m, n}, 
         Tests[c] = <<Present(m), Is(Kind(c, m), m),
                           Present(n), Is(Kind(c, n), n)>>
  PROVE  Orderly(c, Tests[c])
<1> DEFINE t == Tests[c]
<1>1. /\ Len(t) = 4 /\ 1 .. 4 = {1, 2, 3, 4}
      /\ t[1].member = m /\ t[1].type = "any"
      /\ t[2].member = m /\ t[2].type = Kind(c, m)
      /\ t[3].member = n /\ t[3].type = "any"
      /\ t[4].member = n /\ t[4].type = Kind(c, n)
  BY DEF Present, Is
<1> HIDE DEF t
<1>2. Orderly(c, t)
  BY <1>1 DEF Orderly
<1> QED  BY <1>2 DEF t

\* The tests of every handler are in order.
LEMMA TestsOrderly ==
  ASSUME NEW c \in Callables
  PROVE  Orderly(c, Tests[c])
<1>1. CASE c = "echo"
  <2>1. Kind(c, "message") = "string" /\ Members(c) = {"message"}
    BY <1>1, MemberNames DEF Kind
  <2>2. Tests[c] = <<Present("message"), Is("string", "message")>>
    BY <1>1 DEF Tests
  <2>3. Tests[c] = <<Present("message"),
                          Is(Kind(c, "message"), "message")>>
    BY <2>1, <2>2
  <2> QED  BY <2>1, <2>3, OneMember
<1>2. CASE c = "get_weather"
  <2>1. Kind(c, "city") = "string" /\ Members(c) = {"city"}
    BY <1>2, MemberNames DEF Kind
  <2>2. Tests[c] = <<Present("city"), Is("string", "city")>>
    BY <1>2 DEF Tests
  <2>3. Tests[c] = <<Present("city"),
                          Is(Kind(c, "city"), "city")>>
    BY <2>1, <2>2
  <2> QED  BY <2>1, <2>3, OneMember
<1>3. CASE c = "write_file"
  <2>1. /\ Kind(c, "path") = "string" /\ Kind(c, "content") = "string"
        /\ Members(c) = {"path", "content"}
    BY <1>3, MemberNames DEF Kind
  <2>2. Tests[c] = <<Present("path"), Is("string", "path"),
                          Present("content"),
                          Is("string", "content")>>
    BY <1>3 DEF Tests
  <2>3. Tests[c] = <<Present("path"), Is(Kind(c, "path"), "path"),
                          Present("content"),
                          Is(Kind(c, "content"), "content")>>
    BY <2>1, <2>2
  <2> QED  BY <2>1, <2>3, TwoMembers
<1>7. CASE c = "code_review"
  <2>1. /\ Kind(c, "code") = "string" /\ Kind(c, "language") = "string"
        /\ Members(c) = {"code", "language"}
    BY <1>7, MemberNames DEF Kind
  <2>2. Tests[c] = <<Present("code"), Is("string", "code"),
                          Present("language"),
                          Is("string", "language")>>
    BY <1>7 DEF Tests
  <2>3. Tests[c] = <<Present("code"), Is(Kind(c, "code"), "code"),
                          Present("language"),
                          Is(Kind(c, "language"), "language")>>
    BY <2>1, <2>2
  <2> QED  BY <2>1, <2>3, TwoMembers
<1>4. CASE c = "get_time"
  <2>1. Tests[c] = <<>> /\ Members(c) = {}
    BY <1>4, MemberNames DEF Tests
  <2> QED  BY <2>1 DEF Orderly
<1>5. CASE c = "add"
  <2> DEFINE t == Tests[c]
  <2>1. t = <<Present("a"), Present("b"),
              Is("number", "a"), Is("number", "b")>>
    BY <1>5 DEF Tests
  <2>2. /\ Len(t) = 4 /\ 1 .. 4 = {1, 2, 3, 4}
        /\ t[1].member = "a" /\ t[1].type = "any"
        /\ t[2].member = "b" /\ t[2].type = "any"
        /\ t[3].member = "a" /\ t[3].type = "number"
        /\ t[4].member = "b" /\ t[4].type = "number"
    BY <2>1 DEF Present, Is
  <2> HIDE DEF t
  <2>3. /\ Kind(c, "a") = "number" /\ Kind(c, "b") = "number"
        /\ Members(c) = {"a", "b"}
    BY <1>5, MemberNames DEF Kind
  <2>4. Orderly(c, t)
    BY <2>2, <2>3 DEF Orderly
  <2> QED  BY <2>4 DEF t
<1>6. CASE c = "calculate"
  <2> DEFINE t == Tests[c]
  <2>1. t = <<Present("operation"), Is("string", "operation"),
              Present("a"), Is("number", "a"),
              Present("b"), Is("number", "b")>>
    BY <1>6 DEF Tests
  <2>2. /\ Len(t) = 6 /\ 1 .. 6 = {1, 2, 3, 4, 5, 6}
        /\ t[1].member = "operation" /\ t[1].type = "any"
        /\ t[2].member = "operation" /\ t[2].type = "string"
        /\ t[3].member = "a" /\ t[3].type = "any"
        /\ t[4].member = "a" /\ t[4].type = "number"
        /\ t[5].member = "b" /\ t[5].type = "any"
        /\ t[6].member = "b" /\ t[6].type = "number"
    BY <2>1 DEF Present, Is
  <2> HIDE DEF t
  <2>3. /\ Kind(c, "a") = "number" /\ Kind(c, "b") = "number"
        /\ Kind(c, "operation") = "string"
        /\ Members(c) = {"operation", "a", "b"}
    BY <1>6, MemberNames DEF Kind
  <2>4. Orderly(c, t)
    BY <2>2, <2>3 DEF Orderly
  <2> QED  BY <2>4 DEF t
<1> QED  BY <1>1, <1>2, <1>3, <1>4, <1>5, <1>6, <1>7, CallableNames

\* What the schema allows: the values of the type asked for, and of the
\* operations the four.
LEMMA SchemaKinds ==
  ASSUME NEW c \in Callables, NEW m \in Members(c), NEW v \in JSON
  PROVE  v \in Schema[c][m] <=>
           /\ v.type = Kind(c, m)
           /\ c = "calculate" /\ m = "operation" => v.value \in Operations
<1>1. /\ v \in Strings <=> v.type = "string"
      /\ v \in Numbers <=> v.type = "number"
  BY DEF JSON, Strings, Numbers, Null, Text, Number
<1>2. v \in {Text(s) : s \in Operations} <=>
        v.type = "string" /\ v.value \in Operations
  BY DEF JSON, Strings, Numbers, Null, Text, Number
<1>3. CASE c = "calculate"
  <2>1. /\ Schema[c]["operation"] = {Text(s) : s \in Operations}
        /\ Schema[c]["a"] = Numbers /\ Schema[c]["b"] = Numbers
        /\ m \in {"operation", "a", "b"}
    BY <1>3, MemberNames DEF Schema
  <2>2. CASE m = "operation"
    <3>1. Schema[c][m] = {Text(s) : s \in Operations}
      BY <2>1, <2>2
    <3>2. Kind(c, m) = "string"
      BY <1>3, <2>2 DEF Kind
    <3> QED  BY <1>2, <1>3, <2>2, <3>1, <3>2
  <2>3. CASE m \in {"a", "b"}
    BY <1>1, <1>3, <2>1, <2>3 DEF Kind
  <2> QED  BY <2>1, <2>2, <2>3
<1>4. CASE c = "add"
  <2>1. Schema[c][m] = Numbers
    BY <1>4, MemberNames DEF Schema
  <2> QED  BY <1>1, <1>4, <2>1 DEF Kind
<1>5. CASE c \notin {"calculate", "add"}
  <2>1. Schema[c][m] = Strings
    BY <1>5, CallableNames, MemberNames DEF Schema
  <2> QED  BY <1>1, <1>5, <2>1 DEF Kind
<1> QED  BY <1>3, <1>4, <1>5

\* Test t has passed.
Passed(t) ==
  /\ Has(t.member)
  /\ t.type # "any" => args[t.member].type = t.type

\* The arguments have the types asked for.
Typed ==
  \A m \in Members(callable) :
    Has(m) /\ args[m].type = Kind(callable, m)

ContentInv ==
  /\ callable \in Callables /\ args \in Arguments(callable)
  /\ next \in Nat /\ next >= 1
  /\ \A k \in 1 .. Len(Tests[callable]) :
       k < next => Passed(Tests[callable][k])
  /\ NothingAbsentIsRead
  /\ reply \in {"none", "result", "error", "throws"}
  /\ reply \in {"error", "throws"} => reply = Refusal
  /\ SchemaDecides

\* A call conforms if its arguments are an object and have their types, and the
\* operation is one of the four.
LEMMA ConformingCalls ==
  ASSUME callable \in Callables, args \in Arguments(callable)
  PROVE  Conforms <=>
           /\ args # Absent
           /\ Typed
           /\ callable = "calculate" =>
                args["operation"].value \in Operations
<1>1. \A m \in Members(callable) : Has(m) => args[m] \in JSON
  <2>1. args # Absent => \E M \in SUBSET Members(callable) :
                           args \in [M -> JSON]
    BY DEF Arguments
  <2> QED  BY <2>1 DEF Has
<1>2. ASSUME NEW m \in Members(callable), Has(m)
      PROVE  args[m] \in Schema[callable][m] <=>
               /\ args[m].type = Kind(callable, m)
               /\ callable = "calculate" /\ m = "operation" =>
                    args[m].value \in Operations
  BY <1>1, <1>2, SchemaKinds
<1>3. callable = "calculate" => "operation" \in Members(callable)
  BY MemberNames
<1> QED  BY <1>2, <1>3 DEF Conforms, Typed

\* All tests have passed when every argument has its type, and no test fails
\* then.
LEMMA TypedWhenTested ==
  ASSUME ContentInv, next > Len(Tests[callable])
  PROVE  Typed
<1>1. Orderly(callable, Tests[callable])
  BY TestsOrderly DEF ContentInv
<1>2. ASSUME NEW m \in Members(callable)
      PROVE  Has(m) /\ args[m].type = Kind(callable, m)
  <2>1. PICK k \in 1 .. Len(Tests[callable]) :
               /\ Tests[callable][k].member = m
               /\ Tests[callable][k].type = Kind(callable, m)
    BY <1>1 DEF Orderly
  <2>2. k < next
    BY <1>1, <2>1 DEF ContentInv, Orderly
  <2>3. Kind(callable, m) # "any"
    BY DEF Kind
  <2> QED  BY <2>1, <2>2, <2>3 DEF ContentInv, Passed
<1> QED  BY <1>2 DEF Typed

\* No test has been made.
LEMMA InitContent == DemoInit => ContentInv
<1> SUFFICES ASSUME DemoInit PROVE ContentInv
  OBVIOUS
<1>1. \A k \in 1 .. Len(Tests[callable]) : ~(k < next)
  <2>1. Len(Tests[callable]) \in Nat /\ next = 1
    BY TestsOrderly DEF Orderly, DemoInit
  <2> QED  BY <2>1
<1> QED
  BY <1>1 DEF DemoInit, ContentInv, NothingAbsentIsRead, SchemaDecides

\* One test: what it looks at is there, and it fails only for arguments that
\* do not conform.
LEMMA TestStep == ContentInv /\ Test => ContentInv'
<1> SUFFICES ASSUME ContentInv, Test PROVE ContentInv'
  OBVIOUS
<1> DEFINE ts == Tests[callable]
           t == ts[next]
<1>1. /\ Orderly(callable, ts) /\ UNCHANGED <<callable, args>>
      /\ reply = "none" /\ next <= Len(ts) /\ next \in Nat /\ next >= 1
      /\ looked' = IF t.type = "any" THEN looked ELSE looked \union {t.member}
  BY TestsOrderly DEF ContentInv, Test, Untested
<1>2. /\ next \in 1 .. Len(ts) /\ Len(ts) \in Nat
      /\ t.member \in Members(callable)
      /\ t.type \in {"any", Kind(callable, t.member)}
  BY <1>1 DEF Orderly
<1>3. t.type # "any" => Has(t.member)
  <2> SUFFICES ASSUME t.type # "any" PROVE Has(t.member)
    OBVIOUS
  <2>1. PICK j \in 1 .. Len(ts) : j < next /\ ts[j].member = t.member
    BY <1>1, <1>2 DEF Orderly
  <2>2. Passed(ts[j])
    BY <2>1 DEF ContentInv
  <2> QED  BY <2>1, <2>2 DEF Passed
<1>4. PICK passes \in IF t.type = "any" THEN {Has(t.member)}
                      ELSE Shows(t.member, t.type) :
        IF passes THEN next' = next + 1 /\ UNCHANGED reply
        ELSE reply' = Refusal /\ UNCHANGED next
  BY DEF Test
<1> HIDE DEF ts, t
<1>5. passes = Passed(t)
  <2>1. CASE t.type = "any"
    <3>1. passes = Has(t.member)
      BY <1>4, <2>1
    <3> QED  BY <2>1, <3>1 DEF Passed, Has
  <2>2. CASE t.type # "any"
    <3>1. passes \in {args[t.member].type = t.type}
      BY <1>3, <1>4, <2>2 DEF Shows
    <3>2. passes = (args[t.member].type = t.type)
      BY <3>1
    <3> QED  BY <1>3, <2>2, <3>2 DEF Passed, Has
  <2> QED  BY <2>1, <2>2
<1>6. NothingAbsentIsRead'
  BY <1>1, <1>3 DEF ContentInv, NothingAbsentIsRead, Has
<1>7. CASE Passed(t)
  <2>1. next' = next + 1 /\ reply' = "none"
    BY <1>1, <1>4, <1>5, <1>7
  <2>2. ASSUME NEW k \in 1 .. Len(ts), k < next' PROVE Passed(ts[k])'
    <3>1. k = next \/ k < next
      BY <1>1, <1>2, <2>1, <2>2
    <3>2. Passed(ts[k])
      BY <1>7, <3>1 DEF ContentInv, ts, t
    <3> QED  BY <1>1, <3>2 DEF Passed, Has, ts
  <2> QED
    BY <1>1, <1>6, <2>1, <2>2 DEF ContentInv, SchemaDecides, ts
<1>8. CASE ~Passed(t)
  <2>1. next' = next /\ reply' = Refusal
    BY <1>4, <1>5, <1>8
  <2>2. Refusal \in {"error", "throws"} /\ Refusal' = Refusal
    BY <1>1 DEF Refusal
  <2>3. ~Typed
    BY <1>2, <1>8 DEF Typed, Passed
  <2>4. ~Conforms
    BY <2>3, ConformingCalls DEF ContentInv
  <2>5. ~Conforms'
    BY <1>1, <2>4 DEF Conforms, Has
  <2>6. SchemaDecides'
    BY <2>1, <2>2, <2>5 DEF SchemaDecides
  <2>7. \A k \in 1 .. Len(ts) : k < next' => Passed(ts[k])'
    BY <1>1, <2>1 DEF ContentInv, Passed, Has, ts
  <2> QED
    BY <1>1, <1>6, <2>1, <2>2, <2>6, <2>7 DEF ContentInv, ts
<1> QED  BY <1>7, <1>8

\* The answer, when all tests have passed.
LEMMA AnswerStep ==
  ContentInv /\ (Calculate \/ Write \/ Answer) => ContentInv'
<1> SUFFICES ASSUME ContentInv, Calculate \/ Write \/ Answer
             PROVE  ContentInv'
  OBVIOUS
<1>1. /\ UNCHANGED <<callable, args, next>>
      /\ reply = "none" /\ next > Len(Tests[callable])
      /\ looked' = looked \union Members(callable)
  BY DEF Calculate, Write, Answer, Tested
<1>2. Typed
  BY <1>1, TypedWhenTested
<1>3. Conforms <=>
        /\ args # Absent
        /\ callable = "calculate" => args["operation"].value \in Operations
  BY <1>2, ConformingCalls DEF ContentInv
<1>11. args # Absent \/ Unchecked
  BY <1>2 DEF Typed, Has, Unchecked
<1>12. callable \in {"calculate", "write_file"} => args # Absent
  <2>1. callable \in {"calculate", "write_file"} => Members(callable) # {}
    BY MemberNames
  <2> QED  BY <1>11, <2>1 DEF Unchecked
<1>4. Conforms' <=> Conforms
  BY <1>1 DEF Conforms, Has
<1>5. Refused' <=> Refused
  BY <1>1 DEF Refused
<1>6. NothingAbsentIsRead'
  BY <1>1, <1>2 DEF ContentInv, Typed, NothingAbsentIsRead, Has
<1>7. \A k \in 1 .. Len(Tests[callable]) :
        k < next => Passed(Tests[callable][k])'
  BY <1>1 DEF ContentInv, Passed, Has
<1>8. /\ reply' \in {"result", "error"}
      /\ reply' = "error" => callable # "code_review"
      /\ reply' = "result" => Conforms \/ Unchecked
      /\ Conforms /\ ~Refused => reply' = "result"
  <2>1. CASE Calculate
    BY <1>3, <1>12, <2>1 DEF Calculate, Refused
  <2>2. CASE Write
    BY <1>3, <1>12, <2>2 DEF Write, Refused
  <2>3. CASE Answer
    BY <1>3, <1>11, <2>3 DEF Answer
  <2> QED  BY <2>1, <2>2, <2>3
<1>9. SchemaDecides'
  <2>1. Unchecked' <=> Unchecked
    BY <1>1 DEF Unchecked
  <2> QED  BY <1>4, <1>5, <1>8, <2>1 DEF SchemaDecides
<1>10. reply' \in {"error", "throws"} => reply' = Refusal'
  BY <1>1, <1>8 DEF Refusal
<1> QED  BY <1>1, <1>6, <1>7, <1>8, <1>9, <1>10 DEF ContentInv

\* Every step keeps the invariant.
LEMMA NextContent == ContentInv /\ [DemoNext]_demoVars => ContentInv'
<1> SUFFICES ASSUME ContentInv, [DemoNext]_demoVars PROVE ContentInv'
  OBVIOUS
<1>1. CASE UNCHANGED demoVars
  BY <1>1
  DEF demoVars, ContentInv, Passed, Has, NothingAbsentIsRead,
      SchemaDecides, Conforms, Unchecked, Refused, Refusal
<1> QED  BY <1>1, TestStep, AnswerStep DEF DemoNext, Done

\* What holds while a handler tests its arguments.
THEOREM ContentStays == DemoSpec => []ContentInv
BY InitContent, NextContent, PTL DEF DemoSpec

\* No handler reads a member that is not there.
THEOREM AbsentIsNeverRead == DemoSpec => []NothingAbsentIsRead
<1>1. ContentInv => NothingAbsentIsRead
  BY DEF ContentInv
<1> QED  BY <1>1, ContentStays, PTL

\* The tests of every handler decide as its advertised schema does, an object
\* with its members, but that get_time answers what is no object too.
THEOREM SchemasDecide == DemoSpec => []SchemaDecides
<1>1. ContentInv => SchemaDecides
  BY DEF ContentInv
<1> QED  BY <1>1, ContentStays, PTL
===============================================================================
