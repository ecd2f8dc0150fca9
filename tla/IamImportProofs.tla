---------------------------- MODULE IamImportProofs ----------------------------
(***************************************************************************)
(* Proofs about import and remove of bin/iam_utils.py for every account,   *)
(* every set of files and every list of names.                             *)
(***************************************************************************)
EXTENDS IamImport, SequenceTheorems, FiniteSetTheorems, WellFoundedInduction, TLAPS

(***************************************************************************)
(* Lists as sets: the calls of a command matter, their order does not.     *)
(***************************************************************************)
IsList(s) == s \in Seq(ToSet(s))

\* A function on 1 .. n is a list of its values.
LEMMA FunctionIsList ==
    ASSUME NEW n \in Nat, NEW s, HasDomain(s, 1 .. n)
    PROVE  IsList(s) /\ Len(s) = n /\ DOMAIN s = 1 .. n
<1>1. DOMAIN s = 1 .. n
  BY DEF HasDomain
<1>2. s \in [1 .. n -> ToSet(s)]
  BY <1>1 DEF HasDomain, ToSet
<1> QED BY <1>1, <1>2 DEF IsList

\* A list is nothing but its first element and its tail.
LEMMA ListSplits ==
    ASSUME NEW s, IsList(s), s # <<>>
    PROVE  IsList(Tail(s)) /\ ToSet(s) = ToSet(Tail(s)) \cup {s[1]} /\ s[1] \in ToSet(s)
<1> DEFINE t == Tail(s)
<1>1. PICK n \in Nat : n = Len(s) - 1
  BY DEF IsList
<1>2. /\ DOMAIN s = 1 .. n + 1 /\ DOMAIN t = 1 .. n /\ t \in Seq(ToSet(s))
      /\ \A i \in 1 .. n : t[i] = s[i + 1]
  BY <1>1 DEF IsList
<1> HIDE DEF t
<1>3. t \in Seq(ToSet(t))
  <2>1. \A i \in 1 .. n : t[i] \in ToSet(t)
    BY ONLY <1>2 DEF ToSet
  <2>2. PICK m \in Nat : m = Len(t)
    BY <1>2
  <2>3. DOMAIN t = 1 .. m /\ Len(t) = m
    BY <1>2, <2>2
  <2>4. \A i \in 1 .. m : t[i] \in ToSet(t)
    BY ONLY <2>3 DEF ToSet
  <2> QED BY <1>2, <2>3, <2>4
<1>4. s[1] \in ToSet(s)
  <2>1. 1 \in 1 .. n + 1
    OBVIOUS
  <2> QED BY ONLY <1>2, <2>1 DEF ToSet
<1>5. ToSet(t) \subseteq ToSet(s)
  BY ONLY <1>2, n \in Nat DEF ToSet
<1>6. ASSUME NEW x \in ToSet(s), x # s[1] PROVE x \in ToSet(t)
  <2>1. PICK i \in 1 .. n + 1 : x = s[i]
    BY ONLY <1>2, x \in ToSet(s) DEF ToSet
  <2>2. i - 1 \in 1 .. n /\ (i - 1) + 1 = i
    BY ONLY <1>6, <2>1, n \in Nat
  <2>3. t[i - 1] = x
    BY ONLY <1>2, <2>1, <2>2
  <2> QED BY ONLY <1>2, <2>2, <2>3 DEF ToSet
<1> QED BY <1>3, <1>4, <1>5, <1>6 DEF t, IsList

\* Two lists in a row hold what either holds.
LEMMA ConcatIsUnion ==
    ASSUME NEW s, NEW t, IsList(s), IsList(t)
    PROVE  IsList(s \o t) /\ ToSet(s \o t) = ToSet(s) \cup ToSet(t)
<1> DEFINE u == s \o t
           S == ToSet(s) \cup ToSet(t)
<1>1. s \in Seq(S) /\ t \in Seq(S)
  BY SeqMonotonic DEF IsList
<1>2. PICK m \in Nat : m = Len(s)
  BY <1>1
<1>3. PICK n \in Nat : n = Len(t)
  BY <1>1
<1>4. /\ DOMAIN s = 1 .. m /\ DOMAIN t = 1 .. n /\ DOMAIN u = 1 .. m + n
      /\ \A i \in 1 .. m + n : u[i] = IF i <= m THEN s[i] ELSE t[i - m]
      /\ u \in Seq(S)
  <2>1. Len(u) = m + n /\ u \in Seq(S)
    BY <1>1, <1>2, <1>3, ConcatProperties
  <2>2. \A i \in 1 .. m + n : u[i] = IF i <= m THEN s[i] ELSE t[i - m]
    BY <1>1, <1>2, <1>3, ConcatProperties
  <2> QED BY <1>1, <1>2, <1>3, <2>1, <2>2
<1> HIDE DEF u
<1>5. ToSet(u) \subseteq S
  BY ONLY <1>4, m \in Nat, n \in Nat DEF ToSet, S
<1>6. ASSUME NEW x \in ToSet(s) PROVE x \in ToSet(u)
  <2>1. PICK i \in 1 .. m : x = s[i]
    BY ONLY <1>4, x \in ToSet(s) DEF ToSet
  <2>2. i \in 1 .. m + n /\ u[i] = x
    BY ONLY <1>4, <2>1, m \in Nat, n \in Nat
  <2> QED BY ONLY <1>4, <2>2 DEF ToSet
<1>7. ASSUME NEW x \in ToSet(t) PROVE x \in ToSet(u)
  <2>1. PICK i \in 1 .. n : x = t[i]
    BY ONLY <1>4, x \in ToSet(t) DEF ToSet
  <2>2. m + i \in 1 .. m + n /\ (m + i) - m = i /\ ~ (m + i <= m)
    BY ONLY <2>1, m \in Nat, n \in Nat
  <2>3. u[m + i] = x
    BY ONLY <1>4, <2>1, <2>2
  <2> QED BY ONLY <1>4, <2>2, <2>3 DEF ToSet
<1>8. u \in Seq(ToSet(u))
  BY <1>4 DEF ToSet
<1> QED BY <1>5, <1>6, <1>7, <1>8 DEF u, IsList

\* SetToSeq lists the members of a finite set.
LEMMA ListOfSet ==
    ASSUME NEW S, IsFiniteSet(S)
    PROVE  IsList(SetToSeq(S)) /\ ToSet(SetToSeq(S)) = S
<1>1. PICK n \in Nat : n = Cardinality(S)
  BY FS_CardinalityType
<1>2. IsFiniteSet(1 .. n) /\ Cardinality(1 .. n) = n
  BY FS_Interval
<1>3. PICK g : g \in Bijection(1 .. n, S)
  BY <1>1, <1>2, FS_SameCardinalityBij DEF ExistsBijection
<1>4. \E f \in [1 .. n -> S] : IsInjective(f)
  BY <1>3 DEF Bijection, Injection
<1>5. SetToSeq(S) \in [1 .. n -> S] /\ IsInjective(SetToSeq(S))
  BY <1>1, <1>4 DEF SetToSeq
<1>6. SetToSeq(S) \in Injection(1 .. n, S)
  BY <1>5 DEF Injection
<1>7. SetToSeq(S) \in Surjection(1 .. n, S)
  BY <1>1, <1>2, <1>6, FS_Injection
<1>8. ToSet(SetToSeq(S)) = S
  BY <1>5, <1>7 DEF Surjection, ToSet
<1> QED BY <1>5, <1>8 DEF IsList

\* A set of indexes has a least member.
LEMMA Least ==
    ASSUME NEW B, B \subseteq Nat, B # {}
    PROVE  \E k \in B : \A j \in B : ~ (j < k)
<1>1. PICK k \in B : \A j \in B : <<j, k>> \notin OpToRel(<, Nat)
  BY NatLessThanWellFounded, WFMin
<1> QED BY <1>1 DEF OpToRel

\* FlattenSeq holds what the lists it is given hold.
LEMMA Flattened ==
    ASSUME NEW n \in Nat, NEW ss, HasDomain(ss, 1 .. n), \A i \in 1 .. n : IsList(ss[i])
    PROVE  /\ IsList(FlattenSeq(ss))
           /\ ToSet(FlattenSeq(ss)) = UNION {ToSet(ss[i]) : i \in 1 .. n}
<1> DEFINE Step(g, i) == IF i = 1 THEN ss[i] ELSE g[i - 1] \o ss[i]
           IsFlat(g, k) == g = [i \in 1 .. k |-> Step(g, i)]
           f == CHOOSE g : IsFlat(g, n)
           Upto(k) == UNION {ToSet(ss[i]) : i \in 1 .. k}
<1>1. DOMAIN ss = 1 .. n /\ Len(ss) = n
  BY FunctionIsList
<1>2. CASE n = 0
  <2>1. FlattenSeq(ss) = ss
    BY <1>1, <1>2 DEF FlattenSeq
  <2>2. ss = <<>>
    BY <1>2 DEF HasDomain
  <2>3. ToSet(ss) = {} /\ IsList(ss)
    BY <2>2 DEF ToSet, IsList
  <2> QED BY <1>2, <2>1, <2>3
<1>3. CASE n # 0
  <2>1. FlattenSeq(ss) = f[n]
    BY <1>1, <1>3 DEF FlattenSeq
  <2>2. ASSUME NEW k \in 1 .. n PROVE \E g : IsFlat(g, k)
    <3> DEFINE B == {j \in 1 .. n : ~ \E g : IsFlat(g, j)}
    <3> SUFFICES ASSUME B # {} PROVE FALSE
      OBVIOUS
    <3>1. B \subseteq Nat
      <4> HIDE DEF IsFlat
      <4> QED OBVIOUS
    <3>2. PICK m \in B : \A j \in B : ~ (j < m)
      <4> HIDE DEF B
      <4> QED BY <3>1, Least
    <3>3. CASE m = 1
      <4>1. IsFlat([i \in 1 .. 1 |-> ss[1]], 1)
        OBVIOUS
      <4> QED BY <3>3, <4>1
    <3>4. CASE m # 1
      <4>1. m - 1 \in 1 .. n /\ m - 1 \in Nat /\ m - 1 < m
        BY <3>4
      <4>2. PICK g : IsFlat(g, m - 1)
        BY <3>2, <4>1
      <4> DEFINE h == [i \in 1 .. m |-> IF i < m THEN g[i] ELSE g[m - 1] \o ss[m]]
      <4>3. ASSUME NEW i \in 1 .. m PROVE h[i] = Step(h, i)
        <5>1. CASE i < m
          <6>1. i \in 1 .. m - 1 /\ h[i] = g[i] /\ (i # 1 => h[i - 1] = g[i - 1])
            BY <5>1
          <6>2. g[i] = Step(g, i)
            BY <4>2, <6>1
          <6> QED BY <6>1, <6>2
        <5>2. CASE i = m
          <6>1. m - 1 \in 1 .. m /\ m - 1 < m
            BY <4>1
          <6>2. h[i - 1] = g[m - 1] /\ h[i] = g[m - 1] \o ss[m]
            <7>1. h[m - 1] = g[m - 1]
              BY <6>1
            <7>2. m \in 1 .. m /\ ~ (m < m)
              OBVIOUS
            <7>3. h[m] = g[m - 1] \o ss[m]
              BY <7>2
            <7> QED BY <5>2, <7>1, <7>3
          <6> QED BY <3>4, <5>2, <6>2
        <5> QED BY <5>1, <5>2
      <4>4. h = [i \in 1 .. m |-> h[i]]
        OBVIOUS
      <4> HIDE DEF h
      <4>5. IsFlat(h, m)
        BY <4>3, <4>4
      <4> QED BY <4>5
    <3> QED BY <3>3, <3>4
  <2>3. IsFlat(f, n)
    <3> HIDE DEF IsFlat
    <3>1. \E g : IsFlat(g, n)
      BY <1>3, <2>2
    <3>2. IsFlat(CHOOSE g : IsFlat(g, n), n)
      BY <3>1, Zenon
    <3> QED BY <3>2
  <2> HIDE DEF f
  <2>4. \A k \in 1 .. n : f[k] = IF k = 1 THEN ss[1] ELSE f[k - 1] \o ss[k]
    BY <2>3
  <2>5. ASSUME NEW k \in 1 .. n PROVE IsList(f[k]) /\ ToSet(f[k]) = Upto(k)
    <3> DEFINE B == {j \in 1 .. n : ~ (IsList(f[j]) /\ ToSet(f[j]) = Upto(j))}
    <3> SUFFICES ASSUME B # {} PROVE FALSE
      OBVIOUS
    <3>1. B \subseteq Nat
      OBVIOUS
    <3>2. PICK m \in B : \A j \in B : ~ (j < m)
      <4> HIDE DEF B
      <4> QED BY <3>1, Least
    <3>3. CASE m = 1
      <4>1. f[1] = ss[1] /\ 1 \in 1 .. n
        BY <2>4, <3>3
      <4>2. Upto(1) = ToSet(ss[1])
        OBVIOUS
      <4> QED BY <3>3, <4>1, <4>2
    <3>4. CASE m # 1
      <4>1. m - 1 \in 1 .. n /\ m - 1 < m
        BY <3>4
      <4>2. IsList(f[m - 1]) /\ ToSet(f[m - 1]) = Upto(m - 1)
        BY <3>2, <4>1
      <4>3. f[m] = f[m - 1] \o ss[m]
        BY <2>4, <3>4
      <4>4. IsList(f[m]) /\ ToSet(f[m]) = Upto(m - 1) \cup ToSet(ss[m])
        BY <4>2, <4>3, ConcatIsUnion
      <4>5. \A i \in 1 .. m : i \in 1 .. m - 1 \/ i = m
        OBVIOUS
      <4>6. Upto(m) = Upto(m - 1) \cup ToSet(ss[m])
        BY <4>5
      <4> QED BY <4>4, <4>6
    <3> QED BY <3>3, <3>4
  <2>6. n \in 1 .. n
    BY <1>3
  <2> QED BY <2>1, <2>5, <2>6
<1> QED BY <1>2, <1>3

\* A loop over a finite set does what it does for each member.
Loop(S, F) == LET s == SetToSeq(S) IN FlattenSeq([i \in DOMAIN s |-> F[s[i]]])

LEMMA LoopIsUnion ==
    ASSUME NEW S, IsFiniteSet(S), NEW F, \A x \in S : IsList(F[x])
    PROVE  /\ IsList(Loop(S, F))
           /\ ToSet(Loop(S, F)) = UNION {ToSet(F[x]) : x \in S}
<1> DEFINE s == SetToSeq(S)
           parts == [i \in DOMAIN s |-> F[s[i]]]
<1>1. IsList(s) /\ ToSet(s) = S
  BY ListOfSet
<1>2. PICK n \in Nat : n = Len(s)
  BY <1>1 DEF IsList
<1>3. DOMAIN s = 1 .. n
  BY <1>1, <1>2 DEF IsList
<1>4. HasDomain(parts, 1 .. n)
  BY <1>3 DEF HasDomain
<1> HIDE DEF s
<1>5. \A i \in 1 .. n : parts[i] = F[s[i]]
  BY <1>3
<1>6. \A x \in S : \E i \in 1 .. n : x = s[i]
  BY <1>1, <1>3 DEF ToSet
<1>7. \A i \in 1 .. n : s[i] \in S
  BY <1>1, <1>3 DEF ToSet
<1>8. Loop(S, F) = FlattenSeq(parts)
  BY DEF Loop, s
<1> HIDE DEF parts
<1>9. /\ IsList(FlattenSeq(parts))
      /\ ToSet(FlattenSeq(parts)) = UNION {ToSet(parts[i]) : i \in 1 .. n}
  <2>1. \A i \in 1 .. n : IsList(parts[i])
    BY <1>5, <1>7
  <2> QED BY ONLY <1>4, <2>1, n \in Nat, Flattened
<1>10. UNION {ToSet(parts[i]) : i \in 1 .. n} = UNION {ToSet(F[x]) : x \in S}
  BY <1>5, <1>6, <1>7
<1> QED BY <1>8, <1>9, <1>10

-----------------------------------------------------------------------------
(***************************************************************************)
(* The calls of an import and of a removal, as sets.                       *)
(***************************************************************************)
CallSet(type, fn, on, args) == {[type |-> type, fn |-> fn, on |-> on, arg |-> a] : a \in args}

\* Calls lists one call for each argument.
LEMMA CallsAre ==
    ASSUME NEW type, NEW fn, NEW on, NEW args, IsFiniteSet(args)
    PROVE  /\ IsList(Calls(type, fn, on, args))
           /\ ToSet(Calls(type, fn, on, args)) = CallSet(type, fn, on, args)
<1> DEFINE s == SetToSeq(args)
           Of(a) == [type |-> type, fn |-> fn, on |-> on, arg |-> a]
           calls == [i \in DOMAIN s |-> Of(s[i])]
<1>1. IsList(s) /\ ToSet(s) = args
  BY ListOfSet
<1>2. PICK n \in Nat : n = Len(s)
  BY <1>1 DEF IsList
<1>3. DOMAIN s = 1 .. n
  BY <1>1, <1>2 DEF IsList
<1>4. Calls(type, fn, on, args) = calls
  BY DEF Calls
<1> HIDE DEF s, Of
<1>5. HasDomain(calls, 1 .. n)
  BY <1>3 DEF HasDomain
<1>6. IsList(calls)
  BY <1>5, FunctionIsList
<1>7. ToSet(calls) = {Of(a) : a \in args}
  BY <1>1 DEF ToSet
<1> HIDE DEF calls
<1> QED BY <1>4, <1>6, <1>7 DEF CallSet, Of

\* A loop over a set that makes two calls for each member.
Pairs(type, fn, fn_, on, args) ==
  LET s == SetToSeq(args)
  IN FlattenSeq([i \in DOMAIN s |->
       Calls(type, fn, on, {s[i]}) \o Calls(type, fn_, on, {s[i]})])

LEMMA PairsOfCalls ==
    ASSUME NEW type, NEW fn, NEW fn_, NEW on, NEW args, IsFiniteSet(args)
    PROVE  /\ IsList(Pairs(type, fn, fn_, on, args))
           /\ ToSet(Pairs(type, fn, fn_, on, args)) =
                CallSet(type, fn, on, args) \cup CallSet(type, fn_, on, args)
<1> DEFINE s == SetToSeq(args)
           Pair(a) == Calls(type, fn, on, {a}) \o Calls(type, fn_, on, {a})
           PairSet(a) == CallSet(type, fn, on, {a}) \cup CallSet(type, fn_, on, {a})
           F == [a \in args |-> Pair(a)]
<1>1. ASSUME NEW a PROVE IsList(Pair(a)) /\ ToSet(Pair(a)) = PairSet(a)
  <2>1. IsFiniteSet({a})
    BY FS_Singleton
  <2> QED BY <2>1, CallsAre, ConcatIsUnion
<1>2. \A i \in DOMAIN s : s[i] \in args
  BY ListOfSet DEF ToSet
<1>3. Pairs(type, fn, fn_, on, args) = FlattenSeq([i \in DOMAIN s |-> Pair(s[i])])
  BY DEF Pairs
<1> HIDE DEF s, Pair
<1>4. [i \in DOMAIN s |-> Pair(s[i])] = [i \in DOMAIN s |-> F[s[i]]]
  BY <1>2
<1>5. Pairs(type, fn, fn_, on, args) = Loop(args, F)
  BY <1>3, <1>4 DEF Loop, s
<1>6. \A a \in args : F[a] = Pair(a)
  OBVIOUS
<1> HIDE DEF F, PairSet
<1>7. IsList(Loop(args, F)) /\ ToSet(Loop(args, F)) = UNION {ToSet(F[a]) : a \in args}
  BY <1>1, <1>6, LoopIsUnion
<1>8. UNION {ToSet(F[a]) : a \in args} = UNION {PairSet(a) : a \in args}
  BY <1>1, <1>6
<1>9. UNION {PairSet(a) : a \in args} = CallSet(type, fn, on, args) \cup CallSet(type, fn_, on, args)
  BY DEF PairSet, CallSet
<1> QED BY <1>5, <1>7, <1>8, <1>9

\* A policy that is put is one of finitely many.
LEMMA FiniteInline ==
    ASSUME NEW r, IsFiniteSet(DOMAIN r.inline)
    PROVE  IsFiniteSet(Inline(r))
<1> DEFINE f == [p \in DOMAIN r.inline |-> <<p, r.inline[p]>>]
<1>1. f \in Surjection(DOMAIN r.inline, Inline(r))
  BY DEF Surjection, Inline
<1> QED BY <1>1, FS_Surjection

LEMMA CallParts ==
    ASSUME NEW type, NEW fn, NEW on, NEW args, NEW c \in CallSet(type, fn, on, args)
    PROVE  c.type = type /\ c.fn = fn /\ c.on = on /\ c.arg \in args
BY DEF CallSet

\* The calls for inline and managed policies.
ContentCalls(type, r, r_) ==
  CallSet(type, "put", r.name, Inline(r) \ Inline(r_))
    \union CallSet(type, "delete_inline", r.name, DOMAIN r_.inline \ DOMAIN r.inline)
    \union CallSet(type, "attach", r.name, r.managed \ r_.managed)
    \union CallSet(type, "detach", r.name, r_.managed \ r.managed)

LEMMA ContentsAre ==
    ASSUME NEW type, NEW r, NEW r_,
           IsFiniteSet(DOMAIN r.inline), IsFiniteSet(DOMAIN r_.inline),
           IsFiniteSet(r.managed), IsFiniteSet(r_.managed)
    PROVE  /\ IsList(Contents(type, r, r_))
           /\ ToSet(Contents(type, r, r_)) = ContentCalls(type, r, r_)
<1> DEFINE A == Inline(r) \ Inline(r_)
           B == DOMAIN r_.inline \ DOMAIN r.inline
           C == r.managed \ r_.managed
           D == r_.managed \ r.managed
           a == Calls(type, "put", r.name, A)
           b == Calls(type, "delete_inline", r.name, B)
           c == Calls(type, "attach", r.name, C)
           d == Calls(type, "detach", r.name, D)
<1>1. IsFiniteSet(A) /\ IsFiniteSet(B) /\ IsFiniteSet(C) /\ IsFiniteSet(D)
  BY FiniteInline, FS_Difference
<1>2. Contents(type, r, r_) = a \o b \o c \o d
  BY DEF Contents
<1>3. /\ IsList(a) /\ ToSet(a) = CallSet(type, "put", r.name, A)
      /\ IsList(b) /\ ToSet(b) = CallSet(type, "delete_inline", r.name, B)
      /\ IsList(c) /\ ToSet(c) = CallSet(type, "attach", r.name, C)
      /\ IsList(d) /\ ToSet(d) = CallSet(type, "detach", r.name, D)
  <2> HIDE DEF A, B, C, D
  <2> QED BY <1>1, CallsAre
<1> HIDE DEF a, b, c, d
<1>4. IsList(a \o b) /\ ToSet(a \o b) = ToSet(a) \cup ToSet(b)
  BY <1>3, ConcatIsUnion
<1>5. IsList((a \o b) \o c) /\ ToSet((a \o b) \o c) = ToSet(a \o b) \cup ToSet(c)
  BY <1>3, <1>4, ConcatIsUnion
<1>6. /\ IsList(((a \o b) \o c) \o d)
      /\ ToSet(((a \o b) \o c) \o d) = ToSet((a \o b) \o c) \cup ToSet(d)
  BY <1>3, <1>5, ConcatIsUnion
<1> QED BY <1>2, <1>3, <1>4, <1>5, <1>6, Zenon DEF ContentCalls, A, B, C, D

\* The calls for the instance profiles of a role.
LEMMA NewProfilesAre ==
    ASSUME NEW r, NEW profiles, IsFiniteSet(profiles)
    PROVE  /\ IsList(NewProfiles(r, profiles))
           /\ ToSet(NewProfiles(r, profiles)) =
                CallSet("roles", "create_instance_profile", r.name, profiles)
                  \union CallSet("roles", "add_to_profile", r.name, profiles)
<1>1. NewProfiles(r, profiles) =
        Pairs("roles", "create_instance_profile", "add_to_profile", r.name, profiles)
  BY DEF NewProfiles, Pairs
<1> QED BY <1>1, PairsOfCalls

LEMMA OldProfilesAre ==
    ASSUME NEW name, NEW profiles, IsFiniteSet(profiles)
    PROVE  /\ IsList(OldProfiles(name, profiles))
           /\ ToSet(OldProfiles(name, profiles)) =
                CallSet("roles", "remove_from_profile", name, profiles)
                  \union CallSet("roles", "delete_instance_profile", name, profiles)
<1>1. OldProfiles(name, profiles) =
        Pairs("roles", "remove_from_profile", "delete_instance_profile", name, profiles)
  BY DEF OldProfiles, Pairs
<1> QED BY <1>1, PairsOfCalls

-----------------------------------------------------------------------------
(***************************************************************************)
(* What the calls of an import are for.                                    *)
(***************************************************************************)
\* The call brings something closer to its entry of the file.
Serves(c, r) ==
  /\ c.on = r.name
  /\ \/ c.type = "policies" /\ c.fn = "create"
     \/ /\ c.type \in Entities
        /\ \/ c.fn = "create" /\ c.arg = r
           \/ c.fn = "put" /\ c.arg \in Inline(r)
           \/ c.fn = "delete_inline" /\ c.arg \notin DOMAIN r.inline
           \/ c.fn = "attach" /\ c.arg \in r.managed
           \/ c.fn = "detach" /\ c.arg \notin r.managed
     \/ /\ c.type = "roles"
        /\ \/ c.fn = "update_trust" /\ c.arg = r.trust
           \/ /\ c.fn \in {"create_instance_profile", "add_to_profile"}
              /\ c.arg \in r.profiles
           \/ /\ c.fn \in {"remove_from_profile", "delete_instance_profile"}
              /\ c.arg \in Profiles \ r.profiles

\* The calls that bring the group or role e of the account to its entry.
Needed(type, r, e) ==
  (IF e.there THEN CallSet(type, "update_trust", r.name, {r.trust} \ {e.trust})
              ELSE CallSet(type, "create", r.name, {r}))
    \union ContentCalls(type, r, e)
    \union CallSet(type, "add_to_profile", r.name, r.profiles \ e.profiles)
    \union CallSet(type, "remove_from_profile", r.name, e.profiles \ r.profiles)

\* It is there with another path, and left alone.
Elsewhere(r, e) == e.there /\ r.path # e.path

\* What update_aws plans for one entry.
PlanFor(type, r, r_) ==
  IF ~ (r_.there /\ r.name \in Whitelist[type]) THEN Create(type, r)
  ELSE IF r.path # r_.path THEN << >> ELSE Update(type, r, r_)

LEMMA EntryFacts ==
    ASSUME NEW type \in Entities, NEW r \in load(type)
    PROVE  /\ r \in File[type] /\ r.name \in Whitelist[type] /\ r.name \in NamesOf[type]
           /\ IsEntry(r) /\ IsFiniteSet(DOMAIN r.inline)
           /\ IsFiniteSet(r.managed) /\ IsFiniteSet(r.profiles)
           /\ type = "groups" => r.trust = "none" /\ r.profiles = {}
<1>1. r \in File[type] /\ r.name \in Whitelist[type]
  BY DEF load
<1>2. IsEntry(r) /\ r.name \in NamesOf[type]
  BY <1>1, IamAssumption DEF Entities, Types
<1>3. IsFiniteSet(r.managed) /\ IsFiniteSet(r.profiles)
  BY <1>2, IamAssumption, FS_Subset DEF IsEntry
<1>4. type = "groups" => r.trust = "none" /\ r.profiles = {}
  BY <1>1, IamAssumption
<1> QED BY <1>1, <1>2, <1>3, <1>4 DEF IsEntry

LEMMA EntityFacts ==
    ASSUME NEW e, IsEntity(e)
    PROVE  /\ IsFiniteSet(DOMAIN e.inline) /\ IsFiniteSet(e.managed) /\ IsFiniteSet(e.profiles)
           /\ ~ e.there => e = NoEntity
BY IamAssumption, FS_Subset DEF IsEntity

\* Every call for a group's or role's policies serves it.
LEMMA ContentCallsServe ==
    ASSUME NEW type \in Entities, NEW r, NEW r_, NEW c \in ContentCalls(type, r, r_)
    PROVE  c.type = type /\ Serves(c, r)
<1>1. CASE c \in CallSet(type, "put", r.name, Inline(r) \ Inline(r_))
  BY <1>1, CallParts DEF Serves
<1>2. CASE c \in CallSet(type, "delete_inline", r.name, DOMAIN r_.inline \ DOMAIN r.inline)
  BY <1>2, CallParts DEF Serves
<1>3. CASE c \in CallSet(type, "attach", r.name, r.managed \ r_.managed)
  BY <1>3, CallParts DEF Serves
<1>4. CASE c \in CallSet(type, "detach", r.name, r_.managed \ r.managed)
  BY <1>4, CallParts DEF Serves
<1> QED BY <1>1, <1>2, <1>3, <1>4 DEF ContentCalls

LEMMA NothingYet == /\ ~ NoEntity.there /\ NoEntity.managed = {} /\ NoEntity.profiles = {}
                    /\ DOMAIN NoEntity.inline = {} /\ IsFiniteSet(DOMAIN NoEntity.inline)
                    /\ IsFiniteSet(NoEntity.managed) /\ NoEntity.trust = "none"
BY FS_EmptySet DEF NoEntity

LEMMA GroupPlan ==
    ASSUME NEW r \in load("groups"), NEW e, IsEntity(e), e.trust = "none", e.profiles = {}
    PROVE  /\ IsList(PlanFor("groups", r, e))
           /\ \A c \in ToSet(PlanFor("groups", r, e)) : c.type = "groups" /\ Serves(c, r)
           /\ \/ e.there /\ r.path # e.path
              \/ Needed("groups", r, e) \subseteq ToSet(PlanFor("groups", r, e))
<1> DEFINE plan == PlanFor("groups", r, e)
<1>1. /\ "groups" \in Entities /\ r.name \in Whitelist["groups"] /\ IsFiniteSet(DOMAIN r.inline)
      /\ IsFiniteSet(r.managed) /\ r.trust = "none" /\ r.profiles = {}
  <2>1. "groups" \in Entities
    BY DEF Entities
  <2> QED BY <2>1, EntryFacts
<1>2. \A x : IsFiniteSet({x})
  BY FS_Singleton
<1>3. CASE ~ e.there
  <2>1. plan = Calls("groups", "create", r.name, {r}) \o Contents("groups", r, NoEntity)
    BY <1>3 DEF PlanFor, Create, group_create
  <2>2. /\ IsList(Calls("groups", "create", r.name, {r}))
        /\ ToSet(Calls("groups", "create", r.name, {r})) = CallSet("groups", "create", r.name, {r})
    BY <1>2, CallsAre
  <2>3. /\ IsList(Contents("groups", r, NoEntity))
        /\ ToSet(Contents("groups", r, NoEntity)) = ContentCalls("groups", r, NoEntity)
    BY <1>1, NothingYet, ContentsAre
  <2>4. IsList(plan) /\ ToSet(plan) = CallSet("groups", "create", r.name, {r})
                                        \cup ContentCalls("groups", r, NoEntity)
    <3> DEFINE a == Calls("groups", "create", r.name, {r})
               b == Contents("groups", r, NoEntity)
    <3>1. IsList(a) /\ IsList(b)
      BY <2>2, <2>3
    <3> HIDE DEF plan, a, b
    <3>2. IsList(a \o b) /\ ToSet(a \o b) = ToSet(a) \cup ToSet(b)
      BY <3>1, ConcatIsUnion
    <3> QED BY <2>1, <2>2, <2>3, <3>2 DEF plan, a, b
  <2>5. Needed("groups", r, e) \subseteq ToSet(plan)
    <3>1. e = NoEntity
      BY <1>3, EntityFacts
    <3>2. \A fn : CallSet("groups", fn, r.name, {}) = {}
      BY DEF CallSet
    <3>3. r.profiles \ e.profiles = {} /\ e.profiles \ r.profiles = {}
      BY <1>1
    <3> QED BY <1>3, <2>4, <3>1, <3>2, <3>3 DEF Needed
  <2>6. ASSUME NEW c \in ToSet(plan) PROVE c.type = "groups" /\ Serves(c, r)
    <3>1. CASE c \in CallSet("groups", "create", r.name, {r})
      BY <1>1, <3>1, CallParts DEF Serves
    <3>2. CASE c \in ContentCalls("groups", r, NoEntity)
      BY <1>1, <3>2, ContentCallsServe
    <3> QED BY <2>4, <3>1, <3>2
  <2> HIDE DEF plan
  <2> QED BY <2>4, <2>5, <2>6 DEF plan
<1>4. CASE e.there /\ r.path # e.path
  <2>1. plan = << >>
    BY <1>1, <1>4 DEF PlanFor
  <2>2. IsList(<< >>) /\ ToSet(<< >>) = {}
    BY DEF IsList, ToSet
  <2> QED BY <1>4, <2>1, <2>2
<1>5. CASE e.there /\ r.path = e.path
  <2>1. plan = Contents("groups", r, e)
    BY <1>1, <1>5 DEF PlanFor, Update, group_update
  <2>2. IsList(plan) /\ ToSet(plan) = ContentCalls("groups", r, e)
    BY <1>1, <2>1, EntityFacts, ContentsAre
  <2>3. Needed("groups", r, e) \subseteq ToSet(plan)
    <3>1. \A fn : CallSet("groups", fn, r.name, {}) = {}
      BY DEF CallSet
    <3>2. /\ r.profiles \ e.profiles = {} /\ e.profiles \ r.profiles = {}
          /\ {r.trust} \ {e.trust} = {}
      BY <1>1
    <3> QED BY <1>5, <2>2, <3>1, <3>2 DEF Needed
  <2>4. \A c \in ToSet(plan) : c.type = "groups" /\ Serves(c, r)
    BY <1>1, <2>2, ContentCallsServe
  <2> HIDE DEF plan
  <2> QED BY <2>2, <2>3, <2>4 DEF plan
<1> QED BY <1>3, <1>4, <1>5

\* The calls for profiles that a role should have, and should not.
LEMMA ProfileCallsServe ==
    ASSUME NEW r, NEW profiles \in SUBSET r.profiles, NEW old \in SUBSET (Profiles \ r.profiles),
           NEW c \in CallSet("roles", "create_instance_profile", r.name, profiles)
                       \union CallSet("roles", "add_to_profile", r.name, profiles)
                       \union CallSet("roles", "remove_from_profile", r.name, old)
                       \union CallSet("roles", "delete_instance_profile", r.name, old)
    PROVE  c.type = "roles" /\ Serves(c, r)
<1>1. CASE c \in CallSet("roles", "create_instance_profile", r.name, profiles)
  BY <1>1, CallParts DEF Serves
<1>2. CASE c \in CallSet("roles", "add_to_profile", r.name, profiles)
  BY <1>2, CallParts DEF Serves
<1>3. CASE c \in CallSet("roles", "remove_from_profile", r.name, old)
  BY <1>3, CallParts DEF Serves
<1>4. CASE c \in CallSet("roles", "delete_instance_profile", r.name, old)
  BY <1>4, CallParts DEF Serves
<1> QED BY <1>1, <1>2, <1>3, <1>4

LEMMA RolePlan ==
    ASSUME NEW r \in load("roles"), NEW e, IsEntity(e)
    PROVE  /\ IsList(PlanFor("roles", r, e))
           /\ \A c \in ToSet(PlanFor("roles", r, e)) : c.type = "roles" /\ Serves(c, r)
           /\ \/ e.there /\ r.path # e.path
              \/ Needed("roles", r, e) \subseteq ToSet(PlanFor("roles", r, e))
<1> DEFINE plan == PlanFor("roles", r, e)
<1>1. /\ "roles" \in Entities /\ r.name \in Whitelist["roles"] /\ IsFiniteSet(DOMAIN r.inline)
      /\ IsFiniteSet(r.managed) /\ IsFiniteSet(r.profiles)
  <2>1. "roles" \in Entities
    BY DEF Entities
  <2> QED BY <2>1, EntryFacts
<1>2. \A x : IsFiniteSet({x})
  BY FS_Singleton
<1>3. CASE ~ e.there
  <2> DEFINE a == Calls("roles", "create", r.name, {r})
             b == Contents("roles", r, NoEntity)
             d == NewProfiles(r, r.profiles)
  <2>1. plan = a \o b \o d
    BY <1>3 DEF PlanFor, Create, role_create
  <2>2. IsList(a) /\ ToSet(a) = CallSet("roles", "create", r.name, {r})
    BY <1>2, CallsAre
  <2>3. IsList(b) /\ ToSet(b) = ContentCalls("roles", r, NoEntity)
    BY <1>1, NothingYet, ContentsAre
  <2>4. IsList(d) /\ ToSet(d) = CallSet("roles", "create_instance_profile", r.name, r.profiles)
                                 \union CallSet("roles", "add_to_profile", r.name, r.profiles)
    BY <1>1, NewProfilesAre
  <2> HIDE DEF plan, a, b, d
  <2>5. IsList(a \o b) /\ ToSet(a \o b) = ToSet(a) \cup ToSet(b)
    BY <2>2, <2>3, ConcatIsUnion
  <2>6. IsList((a \o b) \o d) /\ ToSet((a \o b) \o d) = ToSet(a \o b) \cup ToSet(d)
    BY <2>4, <2>5, ConcatIsUnion
  <2>7. IsList(plan) /\ ToSet(plan) = ToSet(a) \cup ToSet(b) \cup ToSet(d)
    BY <2>1, <2>5, <2>6
  <2>8. Needed("roles", r, e) \subseteq ToSet(plan)
    <3>1. e = NoEntity
      BY <1>3, EntityFacts
    <3>2. \A fn : CallSet("roles", fn, r.name, {}) = {}
      BY DEF CallSet
    <3>3. r.profiles \ e.profiles = r.profiles /\ e.profiles \ r.profiles = {}
      BY <3>1, NothingYet
    <3> QED BY <1>3, <2>2, <2>3, <2>4, <2>7, <3>1, <3>2, <3>3 DEF Needed
  <2>9. ASSUME NEW c \in ToSet(plan) PROVE c.type = "roles" /\ Serves(c, r)
    <3>1. CASE c \in ToSet(a)
      BY <1>1, <2>2, <3>1, CallParts DEF Serves
    <3>2. CASE c \in ToSet(b)
      BY <1>1, <2>3, <3>2, ContentCallsServe
    <3>3. CASE c \in ToSet(d)
      BY <2>4, <3>3, ProfileCallsServe
    <3> QED BY <2>7, <3>1, <3>2, <3>3
  <2> QED BY <2>7, <2>8, <2>9 DEF plan
<1>4. CASE e.there /\ r.path # e.path
  <2>1. plan = << >>
    BY <1>1, <1>4 DEF PlanFor
  <2>2. IsList(<< >>) /\ ToSet(<< >>) = {}
    BY DEF IsList, ToSet
  <2> QED BY <1>4, <2>1, <2>2
<1>5. CASE e.there /\ r.path = e.path
  <2> DEFINE trust == IF r.trust # e.trust THEN {r.trust} ELSE {}
             new == r.profiles \ e.profiles
             old == e.profiles \ r.profiles
             a == Calls("roles", "update_trust", r.name, trust)
             b == Contents("roles", r, e)
             d == NewProfiles(r, new)
             f == OldProfiles(r.name, old)
  <2>1. plan = a \o b \o d \o f
    BY <1>1, <1>5 DEF PlanFor, Update, role_update
  <2>2. IsFiniteSet(trust)
    BY <1>2, FS_EmptySet
  <2>3. IsFiniteSet(new) /\ IsFiniteSet(old)
    BY <1>1, EntityFacts, FS_Difference
  <2>4. new \subseteq r.profiles /\ old \subseteq Profiles \ r.profiles
    BY DEF IsEntity
  <2> HIDE DEF new, old, trust
  <2>5. IsList(a) /\ ToSet(a) = CallSet("roles", "update_trust", r.name, trust)
    BY <2>2, CallsAre
  <2>6. IsList(b) /\ ToSet(b) = ContentCalls("roles", r, e)
    BY <1>1, EntityFacts, ContentsAre
  <2>7. IsList(d) /\ ToSet(d) = CallSet("roles", "create_instance_profile", r.name, new)
                                 \union CallSet("roles", "add_to_profile", r.name, new)
    BY <2>3, NewProfilesAre
  <2>8. IsList(f) /\ ToSet(f) = CallSet("roles", "remove_from_profile", r.name, old)
                                 \union CallSet("roles", "delete_instance_profile", r.name, old)
    BY <2>3, OldProfilesAre
  <2> HIDE DEF plan, a, b, d, f
  <2>9. IsList(a \o b) /\ ToSet(a \o b) = ToSet(a) \cup ToSet(b)
    BY <2>5, <2>6, ConcatIsUnion
  <2>10. IsList((a \o b) \o d) /\ ToSet((a \o b) \o d) = ToSet(a \o b) \cup ToSet(d)
    BY <2>7, <2>9, ConcatIsUnion
  <2>11. /\ IsList(((a \o b) \o d) \o f)
         /\ ToSet(((a \o b) \o d) \o f) = ToSet((a \o b) \o d) \cup ToSet(f)
    BY <2>8, <2>10, ConcatIsUnion
  <2>12. IsList(plan) /\ ToSet(plan) = ToSet(a) \cup ToSet(b) \cup ToSet(d) \cup ToSet(f)
    BY <2>1, <2>9, <2>10, <2>11
  <2>13. Needed("roles", r, e) \subseteq ToSet(plan)
    <3>1. {r.trust} \ {e.trust} = trust
      BY DEF trust
    <3> QED BY <1>5, <2>5, <2>6, <2>7, <2>8, <2>12, <3>1 DEF Needed, new, old
  <2>14. ASSUME NEW c \in ToSet(plan) PROVE c.type = "roles" /\ Serves(c, r)
    <3>1. CASE c \in ToSet(a)
      <4>1. trust \subseteq {r.trust}
        BY DEF trust
      <4> QED BY <2>5, <3>1, <4>1, CallParts DEF Serves
    <3>2. CASE c \in ToSet(b)
      BY <1>1, <2>6, <3>2, ContentCallsServe
    <3>3. CASE c \in ToSet(d) \cup ToSet(f)
      BY <2>4, <2>7, <2>8, <3>3, ProfileCallsServe
    <3> QED BY <2>12, <3>1, <3>2, <3>3
  <2> QED BY <2>12, <2>13, <2>14 DEF plan
<1> QED BY <1>3, <1>4, <1>5

LEMMA PolicyPlan ==
    ASSUME NEW r \in load("policies"), NEW p
    PROVE  /\ IsList(PlanFor("policies", r, p))
           /\ \A c \in ToSet(PlanFor("policies", r, p)) : c.type = "policies" /\ Serves(c, r)
<1> DEFINE plan == PlanFor("policies", r, p)
           a == Calls("policies", "create", r.name, {r})
<1>1. plan = a \/ plan = << >>
  BY DEF PlanFor, Create, Update, policy_create, policy_update
<1>2. IsFiniteSet({r})
  BY FS_Singleton
<1>3. IsList(a) /\ ToSet(a) = CallSet("policies", "create", r.name, {r})
  BY <1>2, CallsAre
<1>4. IsList(<< >>) /\ ToSet(<< >>) = {}
  BY DEF IsList, ToSet
<1> HIDE DEF plan, a
<1>5. ASSUME NEW c \in ToSet(plan) PROVE c.type = "policies" /\ Serves(c, r)
  BY <1>1, <1>3, <1>4, CallParts DEF Serves
<1> QED BY <1>1, <1>3, <1>4, <1>5 DEF plan

LEMMA EntryPlan ==
    ASSUME IsAccount(iam), NEW type \in Types, NEW r \in load(type)
    PROVE  LET plan == PlanFor(type, r, iam[type][r.name])
           IN /\ IsList(plan)
              /\ \A c \in ToSet(plan) : c.type = type /\ Serves(c, r)
              /\ type \in Entities =>
                   \/ Elsewhere(r, iam[type][r.name])
                   \/ Needed(type, r, iam[type][r.name]) \subseteq ToSet(plan)
<1> DEFINE e == iam[type][r.name]
<1>1. CASE type = "groups"
  <2>1. r.name \in Groups
    BY <1>1, EntryFacts DEF Entities, NamesOf
  <2>2. IsEntity(e) /\ e.trust = "none" /\ e.profiles = {}
    BY <1>1, <2>1 DEF IsAccount
  <2> HIDE DEF e
  <2>3. /\ IsList(PlanFor("groups", r, e))
        /\ \A c \in ToSet(PlanFor("groups", r, e)) : c.type = "groups" /\ Serves(c, r)
        /\ \/ e.there /\ r.path # e.path
           \/ Needed("groups", r, e) \subseteq ToSet(PlanFor("groups", r, e))
    BY <1>1, <2>2, GroupPlan
  <2> QED BY <1>1, <2>3 DEF e, Elsewhere
<1>2. CASE type = "roles"
  <2>1. r.name \in Roles
    BY <1>2, EntryFacts DEF Entities, NamesOf
  <2>2. IsEntity(e)
    BY <1>2, <2>1 DEF IsAccount
  <2> HIDE DEF e
  <2>3. /\ IsList(PlanFor("roles", r, e))
        /\ \A c \in ToSet(PlanFor("roles", r, e)) : c.type = "roles" /\ Serves(c, r)
        /\ \/ e.there /\ r.path # e.path
           \/ Needed("roles", r, e) \subseteq ToSet(PlanFor("roles", r, e))
    BY <1>2, <2>2, RolePlan
  <2> QED BY <1>2, <2>3 DEF e, Elsewhere
<1>3. CASE type = "policies"
  <2>1. type \notin Entities
    BY <1>3 DEF Entities
  <2>2. IsList(PlanFor("policies", r, e)) /\
        \A c \in ToSet(PlanFor("policies", r, e)) : c.type = "policies" /\ Serves(c, r)
    BY <1>3, PolicyPlan
  <2> QED BY <1>3, <2>1, <2>2
<1> QED BY <1>1, <1>2, <1>3 DEF Types

\* What an import plans for one type serves entries of its file, and is all
\* that they need.
LEMMA ImportPlan ==
    ASSUME IsAccount(iam), NEW type \in Types
    PROVE  /\ IsList(update_aws(type))
           /\ \A c \in ToSet(update_aws(type)) :
                c.type = type /\ \E r \in load(type) : Serves(c, r)
           /\ type \in Entities =>
                \A r \in load(type) :
                  \/ Elsewhere(r, iam[type][r.name])
                  \/ Needed(type, r, iam[type][r.name]) \subseteq ToSet(update_aws(type))
<1> DEFINE S == load(type)
           s == SetToSeq(S)
           Plan(r) == PlanFor(type, r, iam[type][r.name])
           F == [r \in S |-> Plan(r)]
<1>1. IsFiniteSet(S)
  BY IamAssumption, FS_Subset DEF load
<1>2. \A i \in DOMAIN s : s[i] \in S
  BY <1>1, ListOfSet DEF ToSet
<1>3. update_aws(type) = FlattenSeq([i \in DOMAIN s |-> Plan(s[i])])
  BY DEF update_aws, PlanFor
<1>4. \A r \in S : /\ IsList(Plan(r))
                   /\ \A c \in ToSet(Plan(r)) : c.type = type /\ Serves(c, r)
                   /\ type \in Entities =>
                        \/ Elsewhere(r, iam[type][r.name])
                        \/ Needed(type, r, iam[type][r.name]) \subseteq ToSet(Plan(r))
  BY EntryPlan
<1> HIDE DEF Plan, s, S
<1>5. [i \in DOMAIN s |-> Plan(s[i])] = [i \in DOMAIN s |-> F[s[i]]]
  BY <1>2
<1>6. update_aws(type) = Loop(S, F)
  BY <1>3, <1>5 DEF Loop, s
<1>7. \A r \in S : F[r] = Plan(r)
  OBVIOUS
<1> HIDE DEF F
<1>8. IsList(Loop(S, F)) /\ ToSet(Loop(S, F)) = UNION {ToSet(F[r]) : r \in S}
  BY <1>1, <1>4, <1>7, LoopIsUnion
<1>9. \A r \in S : ToSet(Plan(r)) \subseteq ToSet(update_aws(type))
  BY <1>6, <1>7, <1>8
<1>10. \A c \in ToSet(update_aws(type)) : \E r \in S : c \in ToSet(Plan(r))
  BY <1>6, <1>7, <1>8
<1> QED BY <1>4, <1>6, <1>8, <1>9, <1>10 DEF S

-----------------------------------------------------------------------------
(***************************************************************************)
(* What the calls of a removal are for.                                    *)
(***************************************************************************)
Removes(c) ==
  /\ <<c.type, c.fn>> \in functions
  /\ c.fn \in {"detach", "delete_inline", "remove_from_profile", "delete_instance_profile",
               "delete_version", "delete"}
  /\ c.on \in NamesOf[c.type] \union {GroupId}
  /\ c.fn \in {"remove_from_profile", "delete_instance_profile"} =>
       c.type = "roles" /\ c.arg \in Profiles

Deletion(type, name) == CallSet(type, "delete", name, {"-"})

LEMMA OneCallIs ==
    ASSUME NEW type, NEW fn, NEW on
    PROVE  /\ IsList(OneCall(type, fn, on))
           /\ ToSet(OneCall(type, fn, on)) = CallSet(type, fn, on, {"-"})
<1>1. IsFiniteSet({"-"})
  BY FS_Singleton
<1> QED BY <1>1, CallsAre DEF OneCall

\* Calls of removals for groups and roles, and for policies.
LEMMA EntityCallsRemove ==
    ASSUME NEW type \in Entities, NEW fn \in {"detach", "delete_inline", "delete"},
           NEW on \in NamesOf[type] \union {GroupId}, NEW args, NEW c \in CallSet(type, fn, on, args)
    PROVE  Removes(c)
BY CallParts DEF Removes, functions, Entities

LEMMA PolicyCallsRemove ==
    ASSUME NEW fn \in {"delete_version", "delete"}, NEW on \in Policies, NEW args,
           NEW c \in CallSet("policies", fn, on, args)
    PROVE  Removes(c)
<1>1. c.type = "policies" /\ c.fn = fn /\ c.on = on
  BY CallParts
<1> QED BY <1>1 DEF Removes, functions, NamesOf

LEMMA GroupRemoval ==
    ASSUME NEW name \in Groups, IsEntity(iam.groups[name])
    PROVE  /\ IsList(group_remove(name))
           /\ \A c \in ToSet(group_remove(name)) : Removes(c)
           /\ Deletion("groups", name) \subseteq ToSet(group_remove(name))
<1> DEFINE g == iam.groups[name]
           a == Calls("groups", "detach", name, g.managed)
           b == Calls("groups", "delete_inline", name, DOMAIN g.inline)
           d == OneCall("groups", "delete", name)
           all == group_remove(name)
<1>1. all = a \o b \o d
  BY DEF group_remove
<1>2. IsFiniteSet(g.managed) /\ IsFiniteSet(DOMAIN g.inline)
  BY EntityFacts
<1> HIDE DEF g
<1>3. IsList(a) /\ ToSet(a) = CallSet("groups", "detach", name, g.managed)
  BY <1>2, CallsAre
<1>4. IsList(b) /\ ToSet(b) = CallSet("groups", "delete_inline", name, DOMAIN g.inline)
  BY <1>2, CallsAre
<1>5. IsList(d) /\ ToSet(d) = CallSet("groups", "delete", name, {"-"})
  BY OneCallIs
<1> HIDE DEF a, b, d, all
<1>6. IsList(a \o b) /\ ToSet(a \o b) = ToSet(a) \cup ToSet(b)
  BY <1>3, <1>4, ConcatIsUnion
<1>7. IsList((a \o b) \o d) /\ ToSet((a \o b) \o d) = ToSet(a \o b) \cup ToSet(d)
  BY <1>5, <1>6, ConcatIsUnion
<1>8. IsList(all) /\ ToSet(all) = ToSet(a) \cup ToSet(b) \cup ToSet(d)
  BY <1>1, <1>6, <1>7
<1>9. "groups" \in Entities /\ name \in NamesOf["groups"] \union {GroupId}
  BY DEF Entities, NamesOf
<1>10. ASSUME NEW c \in ToSet(all) PROVE Removes(c)
  BY <1>3, <1>4, <1>5, <1>8, <1>9, EntityCallsRemove
<1> QED BY <1>5, <1>8, <1>10 DEF all, Deletion

LEMMA RoleRemoval ==
    ASSUME NEW name \in Roles, IsEntity(iam.roles[name])
    PROVE  /\ IsList(role_remove(name))
           /\ \A c \in ToSet(role_remove(name)) : Removes(c)
           /\ Deletion("roles", name) \subseteq ToSet(role_remove(name))
<1> DEFINE r == iam.roles[name]
           a == Calls("roles", "detach", name, r.managed)
           b == OldProfiles(name, r.profiles)
           d == OneCall("roles", "delete", name)
           all == role_remove(name)
<1>1. all = a \o b \o d
  BY DEF role_remove
<1>2. IsFiniteSet(r.managed) /\ IsFiniteSet(r.profiles) /\ r.profiles \subseteq Profiles
  BY EntityFacts DEF IsEntity
<1> HIDE DEF r
<1>3. IsList(a) /\ ToSet(a) = CallSet("roles", "detach", name, r.managed)
  BY <1>2, CallsAre
<1>4. IsList(b) /\ ToSet(b) = CallSet("roles", "remove_from_profile", name, r.profiles)
                               \union CallSet("roles", "delete_instance_profile", name, r.profiles)
  BY <1>2, OldProfilesAre
<1>5. IsList(d) /\ ToSet(d) = CallSet("roles", "delete", name, {"-"})
  BY OneCallIs
<1> HIDE DEF a, b, d, all
<1>6. IsList(a \o b) /\ ToSet(a \o b) = ToSet(a) \cup ToSet(b)
  BY <1>3, <1>4, ConcatIsUnion
<1>7. IsList((a \o b) \o d) /\ ToSet((a \o b) \o d) = ToSet(a \o b) \cup ToSet(d)
  BY <1>5, <1>6, ConcatIsUnion
<1>8. IsList(all) /\ ToSet(all) = ToSet(a) \cup ToSet(b) \cup ToSet(d)
  BY <1>1, <1>6, <1>7
<1>9. "roles" \in Entities /\ name \in NamesOf["roles"] \union {GroupId}
  BY DEF Entities, NamesOf
<1>10. ASSUME NEW c \in ToSet(all) PROVE Removes(c)
  <2>1. CASE c \in ToSet(a) \cup ToSet(d)
    BY <1>3, <1>5, <1>9, <2>1, EntityCallsRemove
  <2>2. CASE c \in CallSet("roles", "remove_from_profile", name, r.profiles)
    BY <1>2, <1>9, <2>2, CallParts DEF Removes, functions
  <2>3. CASE c \in CallSet("roles", "delete_instance_profile", name, r.profiles)
    BY <1>2, <1>9, <2>3, CallParts DEF Removes, functions
  <2> QED BY <1>4, <1>8, <2>1, <2>2, <2>3
<1> QED BY <1>5, <1>8, <1>10 DEF all, Deletion

\* A policy is detached from every role that has it.
RolesWith(name) == {r \in Roles : name \in iam.roles[r].managed}
DetachedFrom(name) == [r \in RolesWith(name) |-> Calls("roles", "detach", r, {name})]

LEMMA RoleDetachments ==
    ASSUME NEW name
    PROVE  /\ IsList(Loop(RolesWith(name), DetachedFrom(name)))
           /\ \A c \in ToSet(Loop(RolesWith(name), DetachedFrom(name))) : Removes(c)
<1> DEFINE S == RolesWith(name)
           F == DetachedFrom(name)
<1>1. IsFiniteSet(S)
  BY IamAssumption, FS_Subset DEF RolesWith
<1>2. IsFiniteSet({name})
  BY FS_Singleton
<1>3. \A r \in S : IsList(F[r]) /\ ToSet(F[r]) = CallSet("roles", "detach", r, {name})
  BY <1>2, CallsAre DEF DetachedFrom
<1>4. S \subseteq Roles
  BY DEF RolesWith
<1> HIDE DEF S, F
<1>5. IsList(Loop(S, F)) /\ ToSet(Loop(S, F)) = UNION {ToSet(F[r]) : r \in S}
  BY <1>1, <1>3, LoopIsUnion
<1>6. ASSUME NEW c \in ToSet(Loop(S, F)) PROVE Removes(c)
  <2>1. PICK r \in S : c \in CallSet("roles", "detach", r, {name})
    BY <1>3, <1>5
  <2>2. "roles" \in Entities /\ r \in NamesOf["roles"] \union {GroupId}
    BY <1>4 DEF Entities, NamesOf
  <2> QED BY <2>1, <2>2, EntityCallsRemove
<1> QED BY <1>5, <1>6 DEF S, F

LEMMA PolicyRemoval ==
    ASSUME NEW name \in Policies, IsPolicy(iam.policies[name])
    PROVE  /\ IsList(policy_remove(name))
           /\ \A c \in ToSet(policy_remove(name)) : Removes(c)
           /\ Deletion("policies", name) \subseteq ToSet(policy_remove(name))
<1> DEFINE p == iam.policies[name]
           used == IF \E g \in Groups : name \in iam.groups[g].managed THEN {name} ELSE {}
           s == SetToSeq(RolesWith(name))
           a == Calls("groups", "detach", GroupId, used)
           b == Loop(RolesWith(name), DetachedFrom(name))
           d == Calls("policies", "delete_version", name, p.versions \ {p.default})
           f == OneCall("policies", "delete", name)
           all == policy_remove(name)
<1>1. all = a \o b \o d \o f
  <2>1. all = a \o FlattenSeq([i \in DOMAIN s |-> Calls("roles", "detach", s[i], {name})]) \o d \o f
    BY DEF policy_remove, RolesWith
  <2>2. IsFiniteSet(RolesWith(name))
    BY IamAssumption, FS_Subset DEF RolesWith
  <2>3. \A i \in DOMAIN s : s[i] \in RolesWith(name)
    BY <2>2, ListOfSet DEF ToSet
  <2>4. [i \in DOMAIN s |-> Calls("roles", "detach", s[i], {name})] =
          [i \in DOMAIN s |-> DetachedFrom(name)[s[i]]]
    <3> HIDE DEF s
    <3> QED BY <2>3 DEF DetachedFrom
  <2>5. b = FlattenSeq([i \in DOMAIN s |-> DetachedFrom(name)[s[i]]])
    BY DEF Loop
  <2> HIDE DEF a, b, d, f, all, s
  <2> QED BY <2>1, <2>4, <2>5
<1>2. IsFiniteSet(used)
  BY FS_Singleton, FS_EmptySet
<1>3. IsFiniteSet(p.versions \ {p.default})
  BY FS_Difference DEF IsPolicy
<1> HIDE DEF p, used
<1>4. IsList(a) /\ ToSet(a) = CallSet("groups", "detach", GroupId, used)
  BY <1>2, CallsAre
<1>5. IsList(b) /\ \A c \in ToSet(b) : Removes(c)
  BY RoleDetachments
<1>6. IsList(d) /\ ToSet(d) = CallSet("policies", "delete_version", name, p.versions \ {p.default})
  BY <1>3, CallsAre
<1>7. IsList(f) /\ ToSet(f) = CallSet("policies", "delete", name, {"-"})
  BY OneCallIs
<1> HIDE DEF a, b, d, f, all
<1>8. IsList(a \o b) /\ ToSet(a \o b) = ToSet(a) \cup ToSet(b)
  BY <1>4, <1>5, ConcatIsUnion
<1>9. IsList((a \o b) \o d) /\ ToSet((a \o b) \o d) = ToSet(a \o b) \cup ToSet(d)
  BY <1>6, <1>8, ConcatIsUnion
<1>10. /\ IsList(((a \o b) \o d) \o f)
       /\ ToSet(((a \o b) \o d) \o f) = ToSet((a \o b) \o d) \cup ToSet(f)
  BY <1>7, <1>9, ConcatIsUnion
<1>11. IsList(all) /\ ToSet(all) = ToSet(a) \cup ToSet(b) \cup ToSet(d) \cup ToSet(f)
  BY <1>1, <1>8, <1>9, <1>10
<1>12. ASSUME NEW c \in ToSet(all) PROVE Removes(c)
  <2>1. CASE c \in ToSet(a)
    <3>1. "groups" \in Entities
      BY DEF Entities
    <3> QED BY <1>4, <2>1, <3>1, EntityCallsRemove
  <2>2. CASE c \in ToSet(b)
    BY <1>5, <2>2
  <2>3. CASE c \in ToSet(d) \cup ToSet(f)
    BY <1>6, <1>7, <2>3, PolicyCallsRemove
  <2> QED BY <1>11, <2>1, <2>2, <2>3
<1> QED BY <1>7, <1>11, <1>12 DEF all, Deletion

\* What a removal plans for one name removes things, and includes its deletion
\* if it is there.
LEMMA RemovalPlan ==
    ASSUME IsAccount(iam), NEW type \in Types, NEW name \in NamesOf[type]
    PROVE  /\ IsList(remove(type, name))
           /\ \A c \in ToSet(remove(type, name)) : Removes(c)
           /\ iam[type][name].there => Deletion(type, name) \subseteq ToSet(remove(type, name))
<1>1. CASE ~ iam[type][name].there
  <2>1. remove(type, name) = << >>
    BY <1>1 DEF remove
  <2>2. IsList(<< >>) /\ ToSet(<< >>) = {}
    BY DEF IsList, ToSet
  <2> QED BY <1>1, <2>1, <2>2
<1>2. CASE iam[type][name].there /\ type = "groups"
  <2>1. remove(type, name) = group_remove(name)
    BY <1>2 DEF remove
  <2>2. name \in Groups /\ IsEntity(iam.groups[name])
    BY <1>2 DEF NamesOf, IsAccount
  <2> QED BY <1>2, <2>1, <2>2, GroupRemoval
<1>3. CASE iam[type][name].there /\ type = "roles"
  <2>1. remove(type, name) = role_remove(name)
    BY <1>3 DEF remove
  <2>2. name \in Roles /\ IsEntity(iam.roles[name])
    BY <1>3 DEF NamesOf, IsAccount
  <2> QED BY <1>3, <2>1, <2>2, RoleRemoval
<1>4. CASE iam[type][name].there /\ type = "policies"
  <2>1. remove(type, name) = policy_remove(name)
    BY <1>4 DEF remove
  <2>2. name \in Policies /\ IsPolicy(iam.policies[name])
    BY <1>4 DEF NamesOf, IsAccount
  <2> QED BY <1>4, <2>1, <2>2, PolicyRemoval
<1> QED BY <1>1, <1>2, <1>3, <1>4 DEF Types

\* The items of commands.
LEMMA ItemsOfImport ==
    ASSUME NEW order \in Orders
    PROVE  /\ IsList(ItemsToImport(order))
           /\ ToSet(ItemsToImport(order)) = ToSet(order) \X {"all"}
           /\ ToSet(order) \subseteq Types
<1>1. order \in Seq(Types)
  BY IamAssumption
<1>2. PICK n \in Nat : n = Len(order)
  BY <1>1
<1>3. DOMAIN order = 1 .. n /\ \A i \in 1 .. n : order[i] \in Types
  BY <1>1, <1>2
<1>4. HasDomain(ItemsToImport(order), 1 .. n)
  BY <1>3 DEF HasDomain, ItemsToImport
<1>5. IsList(ItemsToImport(order))
  BY <1>4, FunctionIsList
<1> QED BY <1>3, <1>5 DEF ItemsToImport, ToSet

LEMMA ItemsOfRemove ==
    ASSUME NEW order \in Orders
    PROVE  /\ IsList(ItemsToRemove(order))
           /\ \A x \in ToSet(ItemsToRemove(order)) :
                \E t \in Types : \E name \in Removed[t] : x = <<t, name>>
           /\ \A t \in ToSet(order) : \A name \in Removed[t] :
                <<t, name>> \in ToSet(ItemsToRemove(order))
<1> DEFINE Names(t) == SetToSeq(Removed[t])
           Items(t) == [j \in DOMAIN Names(t) |-> <<t, Names(t)[j]>>]
           all == [i \in DOMAIN order |-> Items(order[i])]
<1>1. order \in Seq(Types)
  BY IamAssumption
<1>2. PICK n \in Nat : n = Len(order)
  BY <1>1
<1>3. DOMAIN order = 1 .. n /\ \A i \in 1 .. n : order[i] \in Types
  BY <1>1, <1>2
<1>4. ItemsToRemove(order) = FlattenSeq(all)
  BY DEF ItemsToRemove
<1>5. ASSUME NEW t \in Types
      PROVE  IsList(Items(t)) /\ ToSet(Items(t)) = {<<t, name>> : name \in Removed[t]}
  <2>1. IsList(Names(t)) /\ ToSet(Names(t)) = Removed[t]
    BY IamAssumption, ListOfSet
  <2>2. PICK m \in Nat : m = Len(Names(t))
    BY <2>1 DEF IsList
  <2>3. DOMAIN Names(t) = 1 .. m
    BY <2>1, <2>2 DEF IsList
  <2> HIDE DEF Names
  <2>4. HasDomain(Items(t), 1 .. m)
    BY <2>3 DEF HasDomain
  <2>5. IsList(Items(t))
    BY <2>4, FunctionIsList
  <2> QED BY <2>1, <2>5 DEF ToSet
<1> HIDE DEF Items
<1>6. HasDomain(all, 1 .. n) /\ \A i \in 1 .. n : all[i] = Items(order[i])
  BY <1>3 DEF HasDomain
<1> HIDE DEF all
<1>7. IsList(FlattenSeq(all)) /\ ToSet(FlattenSeq(all)) = UNION {ToSet(all[i]) : i \in 1 .. n}
  <2>1. \A i \in 1 .. n : IsList(all[i])
    BY <1>3, <1>5, <1>6
  <2> QED BY ONLY <1>6, <2>1, n \in Nat, Flattened
<1>8. ASSUME NEW x \in ToSet(FlattenSeq(all))
      PROVE  \E t \in Types : \E name \in Removed[t] : x = <<t, name>>
  <2>1. PICK i \in 1 .. n : x \in ToSet(all[i])
    BY <1>7
  <2> QED BY <1>3, <1>5, <1>6, <2>1
<1>9. ASSUME NEW t \in ToSet(order), NEW name \in Removed[t]
      PROVE  <<t, name>> \in ToSet(FlattenSeq(all))
  <2>1. PICK i \in 1 .. n : t = order[i]
    BY <1>3 DEF ToSet
  <2>2. <<t, name>> \in ToSet(all[i])
    BY <1>3, <1>5, <1>6, <2>1
  <2> QED BY <1>7, <2>2
<1> QED BY <1>4, <1>7, <1>8, <1>9

-----------------------------------------------------------------------------
(***************************************************************************)
(* What accepted calls do to the account.                                  *)
(***************************************************************************)
\* Calls that the program makes.
IsCall(c) ==
  /\ <<c.type, c.fn>> \in functions /\ c.fn # "create_version"
  /\ c.type = "groups" =>
       /\ c.fn \notin {"update_trust", "create_instance_profile", "add_to_profile",
                       "remove_from_profile", "delete_instance_profile"}
       /\ c.fn = "create" => c.arg.trust = "none"
  /\ c.type \in Entities /\ c.fn = "attach" => c.arg \in Policies
  /\ c.fn \in {"create_instance_profile", "add_to_profile", "delete_instance_profile"} =>
       c.arg \in Profiles

LEMMA ServingIsCall ==
    ASSUME NEW c, c.type \in Types, NEW r \in load(c.type), Serves(c, r)
    PROVE  IsCall(c) /\ c.on \in NamesOf[c.type] /\ c.on \in Whitelist[c.type] /\ c.fn # "delete"
<1>1. r.name \in NamesOf[c.type] /\ r.name \in Whitelist[c.type]
  BY IamAssumption DEF load
<1>2. CASE c.type = "policies"
  BY <1>1, <1>2 DEF Serves, IsCall, functions, Entities
<1>3. CASE c.type \in Entities
  <2>1. IsEntry(r) /\ (c.type = "groups" => r.trust = "none" /\ r.profiles = {})
    BY <1>3, EntryFacts
  <2> QED BY <1>1, <1>3, <2>1 DEF Serves, IsCall, functions, Entities, IsEntry
<1> QED BY <1>2, <1>3 DEF Types, Entities

LEMMA RemovingIsCall ==
    ASSUME NEW c, Removes(c)
    PROVE  IsCall(c) /\ c.fn # "create" /\ c.type \in Types
BY DEF Removes, IsCall, functions, Entities, Types

LEMMA AccountParts ==
    ASSUME NEW a, IsAccount(a), NEW type \in Entities
    PROVE  /\ HasDomain(a[type], NamesOf[type])
           /\ \A n \in NamesOf[type] :
                /\ IsEntity(a[type][n])
                /\ \A p \in a[type][n].managed : a.policies[p].there
                /\ \A i \in a[type][n].profiles : a.profiles[i].there
                /\ type = "groups" => a[type][n].trust = "none" /\ a[type][n].profiles = {}
BY DEF IsAccount, Entities, NamesOf

\* A group or role is replaced by one that refers to what exists.
LEMMA EntityReplaced ==
    ASSUME IsAccount(iam), NEW type \in Entities, NEW n \in NamesOf[type],
           NEW e, IsEntity(e),
           \A p \in e.managed : iam.policies[p].there,
           \A i \in e.profiles : iam.profiles[i].there,
           type = "groups" => e.trust = "none" /\ e.profiles = {},
           type = "roles" => \A s \in Roles \ {n} : e.profiles \intersect iam.roles[s].profiles = {}
    PROVE  IsAccount([iam EXCEPT ![type][n] = e])
<1> DEFINE a == [iam EXCEPT ![type][n] = e]
<1>1. HasDomain(iam, Types \union {"profiles"})
  BY DEF IsAccount
<1>2. HasDomain(iam.groups, Groups) /\ HasDomain(iam.roles, Roles)
  BY DEF IsAccount
<1>3. /\ HasDomain(a, Types \union {"profiles"})
      /\ a.policies = iam.policies /\ a.profiles = iam.profiles
      /\ HasDomain(a.groups, Groups) /\ HasDomain(a.roles, Roles)
  BY <1>1, <1>2 DEF HasDomain, Entities, Types
<1>4. \A t \in Entities : \A m \in NamesOf[t] :
        a[t][m] = IF t = type /\ m = n THEN e ELSE iam[t][m]
  BY <1>1, <1>2 DEF HasDomain, Entities, Types, NamesOf
<1>5. Groups = NamesOf["groups"] /\ Roles = NamesOf["roles"]
  BY DEF NamesOf
<1>6. "groups" \in Entities /\ "roles" \in Entities
  BY DEF Entities
<1> HIDE DEF a
<1>7. \A t \in Entities : \A m \in NamesOf[t] :
        /\ IsEntity(a[t][m])
        /\ \A p \in a[t][m].managed : a.policies[p].there
        /\ \A i \in a[t][m].profiles : a.profiles[i].there
        /\ t = "groups" => a[t][m].trust = "none" /\ a[t][m].profiles = {}
  BY <1>3, <1>4, AccountParts
<1>8. ASSUME NEW r \in Roles, NEW s \in Roles, r # s
      PROVE  a.roles[r].profiles \intersect a.roles[s].profiles = {}
  <2>1. \A q, u \in Roles : q # u => iam.roles[q].profiles \intersect iam.roles[u].profiles = {}
    BY DEF IsAccount
  <2>2. \A m \in Roles : a.roles[m] = IF type = "roles" /\ m = n THEN e ELSE iam.roles[m]
    BY <1>4, <1>5, <1>6
  <2> QED BY <1>8, <2>1, <2>2
<1>9. IsAccount(a)
  <2>1. /\ \A p \in Policies : IsPolicy(a.policies[p])
        /\ HasDomain(a.policies, Policies) /\ HasDomain(a.profiles, Profiles)
        /\ \A i \in Profiles : HasDomain(a.profiles[i], {"there"}) /\ a.profiles[i].there \in BOOLEAN
    BY <1>3 DEF IsAccount
  <2>2. /\ \A g \in Groups : IsEntity(a.groups[g])
        /\ \A r \in Roles : IsEntity(a.roles[r])
        /\ \A g \in Groups : a.groups[g].trust = "none" /\ a.groups[g].profiles = {}
    BY <1>5, <1>6, <1>7
  <2>3. \A t \in {"groups", "roles"} : \A m \in NamesOf[t] :
          /\ \A p \in a[t][m].managed : a.policies[p].there
          /\ \A i \in a[t][m].profiles : a.profiles[i].there
    BY <1>7 DEF Entities
  <2> QED BY <1>3, <1>8, <2>1, <2>2, <2>3 DEF IsAccount
<1> QED BY <1>9 DEF a

\* A profile is created, or deleted when no role is in it.
LEMMA ProfileReplaced ==
    ASSUME NEW a, IsAccount(a), NEW i \in Profiles, NEW b \in BOOLEAN,
           ~ b => \A r \in Roles : i \notin a.roles[r].profiles
    PROVE  IsAccount([a EXCEPT !.profiles[i].there = b])
<1> DEFINE d == [a EXCEPT !.profiles[i].there = b]
<1>1. /\ HasDomain(a, Types \union {"profiles"}) /\ HasDomain(a.profiles, Profiles)
      /\ \A j \in Profiles : HasDomain(a.profiles[j], {"there"}) /\ a.profiles[j].there \in BOOLEAN
  BY DEF IsAccount
<1>2. /\ HasDomain(d, Types \union {"profiles"}) /\ HasDomain(d.profiles, Profiles)
      /\ d.groups = a.groups /\ d.roles = a.roles /\ d.policies = a.policies
  BY <1>1 DEF HasDomain, Types
<1>3. \A j \in Profiles : d.profiles[j] = IF j = i THEN [a.profiles[i] EXCEPT !.there = b] ELSE a.profiles[j]
  BY <1>1 DEF HasDomain, Types
<1>4. \A j \in Profiles : /\ HasDomain(d.profiles[j], {"there"}) /\ d.profiles[j].there \in BOOLEAN
                          /\ d.profiles[j].there = IF j = i THEN b ELSE a.profiles[j].there
  <2>1. [a.profiles[i] EXCEPT !.there = b] = [x \in {"there"} |-> b]
    BY <1>1 DEF HasDomain
  <2>2. HasDomain([x \in {"there"} |-> b], {"there"}) /\ [x \in {"there"} |-> b].there = b
    BY DEF HasDomain
  <2> HIDE DEF d
  <2> QED BY <1>1, <1>3, <2>1, <2>2
<1> HIDE DEF d
<1>5. \A t \in {"groups", "roles"} : \A n \in NamesOf[t] :
        /\ d[t] = a[t]
        /\ \A p \in d[t][n].managed : d.policies[p].there
        /\ \A j \in d[t][n].profiles : d.profiles[j].there
  <2>1. ASSUME NEW t \in {"groups", "roles"}, NEW n \in NamesOf[t], NEW j \in d[t][n].profiles
        PROVE  d.profiles[j].there
    <3>1. t \in Entities /\ d[t] = a[t]
      BY <1>2 DEF Entities
    <3>2. /\ a[t][n].profiles \subseteq Profiles /\ a.profiles[j].there
          /\ t = "groups" => a[t][n].profiles = {}
      BY <2>1, <3>1, AccountParts DEF IsEntity
    <3>3. t = "roles" => n \in Roles
      BY DEF NamesOf
    <3> QED BY <1>2, <1>4, <2>1, <3>1, <3>2, <3>3
  <2>2. ASSUME NEW t \in {"groups", "roles"}, NEW n \in NamesOf[t], NEW p \in d[t][n].managed
        PROVE  d.policies[p].there
    <3>1. t \in Entities /\ d[t] = a[t]
      BY <1>2 DEF Entities
    <3> QED BY <1>2, <3>1, AccountParts
  <2>3. \A t \in {"groups", "roles"} : d[t] = a[t]
    BY <1>2
  <2> QED BY <2>1, <2>2, <2>3
<1>6. IsAccount(d)
  BY <1>2, <1>4, <1>5 DEF IsAccount
<1> QED BY <1>6 DEF d

LEMMA PolicyReplaced ==
    ASSUME IsAccount(iam), NEW n \in Policies, NEW p, IsPolicy(p),
           iam.policies[n].there /\ ~ p.there =>
             \A t \in Entities : \A m \in NamesOf[t] : n \notin iam[t][m].managed
    PROVE  IsAccount([iam EXCEPT !.policies[n] = p])
<1> DEFINE a == [iam EXCEPT !.policies[n] = p]
<1>1. HasDomain(iam, Types \union {"profiles"}) /\ HasDomain(iam.policies, Policies)
  BY DEF IsAccount
<1>2. /\ HasDomain(a, Types \union {"profiles"}) /\ HasDomain(a.policies, Policies)
      /\ a.groups = iam.groups /\ a.roles = iam.roles /\ a.profiles = iam.profiles
      /\ \A m \in Policies : a.policies[m] = IF m = n THEN p ELSE iam.policies[m]
  BY <1>1 DEF HasDomain, Types
<1> HIDE DEF a
<1>3. \A m \in Policies : IsPolicy(a.policies[m])
  BY <1>2 DEF IsAccount
<1>4. ASSUME NEW t \in {"groups", "roles"}, NEW m \in NamesOf[t], NEW q \in a[t][m].managed
      PROVE  a.policies[q].there
  <2>1. t \in Entities /\ a[t] = iam[t]
    BY <1>2 DEF Entities
  <2>2. q \in Policies /\ iam.policies[q].there
    BY <1>4, <2>1, AccountParts DEF IsEntity
  <2> QED BY <1>2, <1>4, <2>1, <2>2
<1>5. ASSUME NEW t \in {"groups", "roles"}, NEW m \in NamesOf[t], NEW i \in a[t][m].profiles
      PROVE  a.profiles[i].there
  <2>1. t \in Entities /\ a[t] = iam[t]
    BY <1>2 DEF Entities
  <2> QED BY <1>2, <1>5, <2>1, AccountParts
<1>6. IsAccount(a)
  BY <1>2, <1>3, <1>4, <1>5 DEF IsAccount
<1> QED BY <1>6 DEF a

\* A group or role that is there, with these contents.
Shape(e, path, trust, inline, managed, profiles) ==
  /\ HasDomain(e, DOMAIN NoEntity)
  /\ e.there = TRUE /\ e.path = path /\ e.trust = trust
  /\ e.inline = inline /\ e.managed = managed /\ e.profiles = profiles

WithTrust(e, v)    == [e EXCEPT !.trust = v]
WithInline(e, v)   == [e EXCEPT !.inline = v]
WithManaged(e, v)  == [e EXCEPT !.managed = v]
WithProfiles(e, v) == [e EXCEPT !.profiles = v]

LEMMA FieldsChanged ==
    ASSUME NEW e, IsEntity(e), e.there, NEW v
    PROVE  /\ Shape(WithTrust(e, v), e.path, v, e.inline, e.managed, e.profiles)
           /\ Shape(WithInline(e, v), e.path, e.trust, v, e.managed, e.profiles)
           /\ Shape(WithManaged(e, v), e.path, e.trust, e.inline, v, e.profiles)
           /\ Shape(WithProfiles(e, v), e.path, e.trust, e.inline, e.managed, v)
<1>1. DOMAIN NoEntity = {"there", "path", "trust", "inline", "managed", "profiles"}
  BY DEF NoEntity
<1>2. HasDomain(e, DOMAIN NoEntity) /\ e.there = TRUE
  BY DEF IsEntity
<1> QED BY <1>1, <1>2 DEF Shape, HasDomain, WithTrust, WithInline, WithManaged, WithProfiles

\* What accepted calls make of a group or role.
LEMMA ChangedIs ==
    ASSUME NEW e, IsEntity(e), NEW c
    PROVE  LET e_ == Changed(e, c)
           IN /\ c.fn = "create" =>
                   Shape(e_, c.arg.path, c.arg.trust, << >>, {}, {})
              /\ e.there =>
                   /\ c.fn = "update_trust" =>
                        Shape(e_, e.path, c.arg, e.inline, e.managed, e.profiles)
                   /\ c.fn = "put" =>
                        Shape(e_, e.path, e.trust, With(e.inline, c.arg[1], c.arg[2]), e.managed, e.profiles)
                   /\ c.fn = "delete_inline" =>
                        Shape(e_, e.path, e.trust, Restrict(e.inline, DOMAIN e.inline \ {c.arg}),
                              e.managed, e.profiles)
                   /\ c.fn = "attach" =>
                        Shape(e_, e.path, e.trust, e.inline, e.managed \cup {c.arg}, e.profiles)
                   /\ c.fn = "detach" =>
                        Shape(e_, e.path, e.trust, e.inline, e.managed \ {c.arg}, e.profiles)
                   /\ c.fn = "add_to_profile" =>
                        Shape(e_, e.path, e.trust, e.inline, e.managed, e.profiles \cup {c.arg})
                   /\ c.fn = "remove_from_profile" =>
                        Shape(e_, e.path, e.trust, e.inline, e.managed, e.profiles \ {c.arg})
              /\ c.fn = "delete" => e_ = NoEntity
              /\ c.fn \in {"create_instance_profile", "delete_instance_profile"} => e_ = e
<1> DEFINE e_ == Changed(e, c)
<1>1. c.fn = "create" => Shape(e_, c.arg.path, c.arg.trust, << >>, {}, {})
  BY DEF Changed, Shape, NoEntity, HasDomain
<1>2. /\ c.fn = "update_trust" => e_ = WithTrust(e, c.arg)
      /\ c.fn = "put" => e_ = WithInline(e, With(e.inline, c.arg[1], c.arg[2]))
      /\ c.fn = "delete_inline" =>
           e_ = WithInline(e, Restrict(e.inline, DOMAIN e.inline \ {c.arg}))
      /\ c.fn = "attach" => e_ = WithManaged(e, e.managed \cup {c.arg})
      /\ c.fn = "detach" => e_ = WithManaged(e, e.managed \ {c.arg})
      /\ c.fn = "add_to_profile" => e_ = WithProfiles(e, e.profiles \cup {c.arg})
      /\ c.fn = "remove_from_profile" => e_ = WithProfiles(e, e.profiles \ {c.arg})
  BY DEF Changed, WithTrust, WithInline, WithManaged, WithProfiles
<1>3. /\ c.fn = "delete" => e_ = NoEntity
      /\ c.fn \in {"create_instance_profile", "delete_instance_profile"} => e_ = e
  BY DEF Changed
<1> HIDE DEF e_
<1>4. e.there =>
        /\ c.fn = "update_trust" => Shape(e_, e.path, c.arg, e.inline, e.managed, e.profiles)
        /\ c.fn = "put" =>
             Shape(e_, e.path, e.trust, With(e.inline, c.arg[1], c.arg[2]), e.managed, e.profiles)
        /\ c.fn = "delete_inline" =>
             Shape(e_, e.path, e.trust, Restrict(e.inline, DOMAIN e.inline \ {c.arg}),
                   e.managed, e.profiles)
        /\ c.fn = "attach" =>
             Shape(e_, e.path, e.trust, e.inline, e.managed \cup {c.arg}, e.profiles)
        /\ c.fn = "detach" =>
             Shape(e_, e.path, e.trust, e.inline, e.managed \ {c.arg}, e.profiles)
        /\ c.fn = "add_to_profile" =>
             Shape(e_, e.path, e.trust, e.inline, e.managed, e.profiles \cup {c.arg})
        /\ c.fn = "remove_from_profile" =>
             Shape(e_, e.path, e.trust, e.inline, e.managed, e.profiles \ {c.arg})
  BY <1>2, FieldsChanged
<1> QED BY <1>1, <1>3, <1>4 DEF e_

\* An accepted call leaves a group or role that IAM can hold.
LEMMA EntityStep ==
    ASSUME NEW c, IsCall(c), c.type \in Entities, NEW e, IsEntity(e),
           c.fn \notin {"create", "delete", "create_instance_profile",
                       "delete_instance_profile"} => e.there,
           c.type = "groups" => e.trust = "none" /\ e.profiles = {}
    PROVE  LET e_ == Changed(e, c)
           IN /\ IsEntity(e_)
              /\ e_.managed \subseteq e.managed \cup (IF c.fn = "attach" THEN {c.arg} ELSE {})
              /\ e_.profiles \subseteq e.profiles \cup (IF c.fn = "add_to_profile" THEN {c.arg} ELSE {})
              /\ c.type = "groups" => e_.trust = "none" /\ e_.profiles = {}
<1> DEFINE e_ == Changed(e, c)
<1>1. \A path, trust, inline, managed, profiles :
        /\ Shape(e_, path, trust, inline, managed, profiles)
        /\ HasDomain(inline, DOMAIN inline) /\ IsFiniteSet(DOMAIN inline)
        /\ managed \subseteq Policies /\ profiles \subseteq Profiles
        => IsEntity(e_) /\ e_.trust = trust /\ e_.managed = managed /\ e_.profiles = profiles
  <2> HIDE DEF e_
  <2> QED BY DEF Shape, IsEntity
<1>2. /\ HasDomain(e.inline, DOMAIN e.inline) /\ IsFiniteSet(DOMAIN e.inline)
      /\ e.managed \subseteq Policies /\ e.profiles \subseteq Profiles
  BY DEF IsEntity
<1>3. CASE c.fn = "create"
  <2>1. Shape(e_, c.arg.path, c.arg.trust, << >>, {}, {})
    BY <1>3, ChangedIs
  <2>2. HasDomain(<< >>, DOMAIN << >>) /\ IsFiniteSet(DOMAIN << >>)
    BY FS_EmptySet DEF HasDomain
  <2> HIDE DEF e_
  <2>3. IsEntity(e_) /\ e_.trust = c.arg.trust /\ e_.managed = {} /\ e_.profiles = {}
    BY <1>1, <2>1, <2>2
  <2> QED BY <1>3, <2>3 DEF IsCall, e_
<1>4. CASE c.fn = "update_trust"
  <2>1. Shape(e_, e.path, c.arg, e.inline, e.managed, e.profiles) /\ c.type # "groups"
    BY <1>4, ChangedIs DEF IsCall
  <2> HIDE DEF e_
  <2> QED BY <1>1, <1>2, <2>1 DEF e_
<1>5. CASE c.fn = "put"
  <2> DEFINE inline == With(e.inline, c.arg[1], c.arg[2])
  <2>1. DOMAIN inline = DOMAIN e.inline \cup {c.arg[1]} /\ HasDomain(inline, DOMAIN inline)
    BY DEF With, HasDomain
  <2>2. IsFiniteSet(DOMAIN inline)
    BY <1>2, <2>1, FS_AddElement
  <2>3. Shape(e_, e.path, e.trust, inline, e.managed, e.profiles)
    BY <1>5, ChangedIs
  <2> HIDE DEF e_, inline
  <2> QED BY <1>1, <1>2, <2>1, <2>2, <2>3 DEF e_
<1>6. CASE c.fn = "delete_inline"
  <2> DEFINE inline == Restrict(e.inline, DOMAIN e.inline \ {c.arg})
  <2>1. DOMAIN inline = DOMAIN e.inline \ {c.arg} /\ HasDomain(inline, DOMAIN inline)
    BY DEF Restrict, HasDomain
  <2>2. IsFiniteSet(DOMAIN e.inline \ {c.arg})
    BY <1>2, FS_Difference
  <2>3. Shape(e_, e.path, e.trust, inline, e.managed, e.profiles)
    BY <1>6, ChangedIs
  <2> HIDE DEF e_, inline
  <2> QED BY <1>1, <1>2, <2>1, <2>2, <2>3 DEF e_
<1>7. CASE c.fn = "attach"
  <2>1. Shape(e_, e.path, e.trust, e.inline, e.managed \cup {c.arg}, e.profiles)
    BY <1>7, ChangedIs
  <2>2. c.arg \in Policies
    BY <1>7 DEF IsCall
  <2> HIDE DEF e_
  <2> QED BY <1>1, <1>2, <1>7, <2>1, <2>2 DEF e_
<1>8. CASE c.fn = "detach"
  <2>1. Shape(e_, e.path, e.trust, e.inline, e.managed \ {c.arg}, e.profiles)
    BY <1>8, ChangedIs
  <2> HIDE DEF e_
  <2> QED BY <1>1, <1>2, <2>1 DEF e_
<1>9. CASE c.fn = "add_to_profile"
  <2>1. Shape(e_, e.path, e.trust, e.inline, e.managed, e.profiles \cup {c.arg})
    BY <1>9, ChangedIs
  <2>2. c.arg \in Profiles /\ c.type # "groups"
    BY <1>9 DEF IsCall
  <2> HIDE DEF e_
  <2> QED BY <1>1, <1>2, <1>9, <2>1, <2>2 DEF e_
<1>10. CASE c.fn = "remove_from_profile"
  <2>1. Shape(e_, e.path, e.trust, e.inline, e.managed, e.profiles \ {c.arg})
    BY <1>10, ChangedIs
  <2> HIDE DEF e_
  <2> QED BY <1>1, <1>2, <2>1 DEF e_
<1>11. CASE c.fn = "delete"
  <2>1. e_ = NoEntity
    BY <1>11, ChangedIs
  <2>2. IsEntity(NoEntity)
    BY FS_EmptySet DEF NoEntity, IsEntity, HasDomain
  <2> QED BY <2>1, <2>2, NothingYet
<1>12. CASE c.fn \in {"create_instance_profile", "delete_instance_profile"}
  <2>1. e_ = e
    BY <1>12, ChangedIs
  <2> QED BY <2>1
<1>13. c.fn \in {"create", "put", "attach", "detach", "delete_inline", "delete",
                 "create_instance_profile", "add_to_profile", "remove_from_profile",
                 "delete_instance_profile", "update_trust"}
  BY DEF IsCall, functions, Entities
<1> QED BY <1>3, <1>4, <1>5, <1>6, <1>7, <1>8, <1>9, <1>10, <1>11, <1>12, <1>13

\* An accepted call leaves a policy that IAM can hold.
LEMMA PolicyStep ==
    ASSUME NEW c, NEW p, IsPolicy(p), c.fn \in {"create", "delete_version", "delete"},
           c.fn = "delete_version" => c.arg # p.default
    PROVE  LET p_ == ChangedPolicy(p, c)
           IN /\ IsPolicy(p_)
              /\ p.there /\ ~ p_.there => c.fn = "delete"
              /\ p_.there /\ ~ p.there => c.fn = "create"
<1> DEFINE p_ == ChangedPolicy(p, c)
           names == {"there", "path", "doc", "described", "versions", "default"}
<1>1. DOMAIN NoPolicy = names /\ IsPolicy(NoPolicy)
  <2>1. IsFiniteSet({}) /\ Cardinality({}) = 0
    BY FS_EmptySet
  <2> QED BY <2>1 DEF NoPolicy, IsPolicy, HasDomain
<1>2. CASE c.fn = "create"
  <2>1. p_ = [NoPolicy EXCEPT !.there = TRUE, !.doc = c.arg.doc, !.versions = {1}, !.default = 1]
    BY <1>2 DEF ChangedPolicy
  <2>2. IsFiniteSet({1}) /\ Cardinality({1}) = 1
    BY FS_Singleton
  <2>3. HasDomain(p_, names) /\ p_.there = TRUE /\ p_.versions = {1} /\ p_.default = 1
    BY <2>1 DEF HasDomain, NoPolicy
  <2> HIDE DEF p_
  <2>4. Cardinality(p_.versions) <= 5 /\ IsFiniteSet(p_.versions) /\ p_.default \in p_.versions
    BY <2>2, <2>3
  <2>5. IsPolicy(p_)
    BY <1>1, <2>3, <2>4 DEF IsPolicy
  <2> QED BY <1>2, <2>3, <2>5 DEF p_
<1>3. CASE c.fn = "delete_version"
  <2> DEFINE versions == p.versions \ {c.arg}
  <2>1. p_ = [p EXCEPT !.versions = versions]
    BY <1>3 DEF ChangedPolicy
  <2>2. IsFiniteSet(versions) /\ Cardinality(versions) <= 5
    <3>1. IsFiniteSet(p.versions) /\ Cardinality(p.versions) <= 5 /\ versions \in SUBSET p.versions
      BY DEF IsPolicy
    <3> HIDE DEF versions
    <3>2. IsFiniteSet(versions) /\ Cardinality(versions) <= Cardinality(p.versions)
      BY <3>1, FS_Subset
    <3>3. Cardinality(versions) \in Nat /\ Cardinality(p.versions) \in Nat
      BY <3>1, <3>2, FS_CardinalityType
    <3> QED BY <3>1, <3>2, <3>3
  <2>3. p.there => p.default \in versions
    BY <1>3 DEF IsPolicy
  <2>4. ~ p.there => versions = p.versions
    BY DEF IsPolicy, NoPolicy
  <2> HIDE DEF versions
  <2>5. HasDomain(p_, names) /\ p_.there = p.there /\ p_.versions = versions /\ p_.default = p.default
    BY <1>1, <2>1 DEF IsPolicy, HasDomain
  <2>6. ~ p.there => p_ = NoPolicy
    BY <1>1, <2>1, <2>4 DEF IsPolicy, HasDomain
  <2> HIDE DEF p_
  <2>7. IsPolicy(p_)
    BY <1>1, <2>2, <2>3, <2>5, <2>6 DEF IsPolicy
  <2> QED BY <2>5, <2>7 DEF p_
<1>4. CASE c.fn = "delete"
  BY <1>1, <1>4 DEF ChangedPolicy, NoPolicy
<1> QED BY <1>2, <1>3, <1>4

\* Every accepted call leaves an account that IAM can hold.
LEMMA CallKeepsAccount ==
    ASSUME IsAccount(iam), NEW c, IsCall(c), c.on \in NamesOf[c.type], Accepted(c)
    PROVE  IsAccount(Done(c))
<1>1. CASE c.type = "policies"
  <2> DEFINE p  == iam.policies[c.on]
             p_ == ChangedPolicy(p, c)
  <2>1. c.on \in Policies /\ IsPolicy(p)
    BY <1>1 DEF NamesOf, IsAccount
  <2>2. AcceptedOfPolicy(c) /\ c.fn \in {"create", "delete_version", "delete"}
    BY <1>1 DEF Accepted, IsCall, functions, Entities
  <2>3. c.fn = "delete_version" => c.arg # p.default
    BY <2>2 DEF AcceptedOfPolicy
  <2>4. ASSUME c.fn = "delete", NEW t \in Entities, NEW m \in NamesOf[t]
        PROVE  c.on \notin iam[t][m].managed
    BY <2>2, <2>4 DEF AcceptedOfPolicy, Entities, NamesOf
  <2>5. Done(c) = [iam EXCEPT !.policies[c.on] = p_]
    BY <1>1 DEF Done
  <2> HIDE DEF p
  <2>6. IsPolicy(p_) /\ (p.there /\ ~ p_.there => c.fn = "delete")
    BY <2>1, <2>2, <2>3, PolicyStep
  <2> HIDE DEF p_
  <2>7. IsAccount([iam EXCEPT !.policies[c.on] = p_])
    BY <2>1, <2>4, <2>6, PolicyReplaced DEF p
  <2> QED BY <2>5, <2>7
<1>2. CASE c.type \in Entities
  <2> DEFINE e  == iam[c.type][c.on]
             e_ == Changed(e, c)
             a  == [iam EXCEPT ![c.type][c.on] = e_]
  <2>1. /\ IsEntity(e)
        /\ \A p \in e.managed : iam.policies[p].there
        /\ \A i \in e.profiles : iam.profiles[i].there
        /\ c.type = "groups" => e.trust = "none" /\ e.profiles = {}
    BY <1>2, AccountParts
  <2>2. AcceptedOfEntity(c)
    BY <1>2 DEF Accepted, Entities
  <2>3. /\ c.fn \notin {"create", "delete", "create_instance_profile",
                        "delete_instance_profile"} => e.there
        /\ c.fn = "attach" => iam.policies[c.arg].there
        /\ c.fn = "add_to_profile" => iam.profiles[c.arg].there /\ ~ Held(c.arg)
        /\ c.fn = "delete_instance_profile" => ~ Held(c.arg)
    <3>1. c.fn = "detach" => e.there
      <4>1. c.fn = "detach" => c.arg \in e.managed
        BY <2>2 DEF AcceptedOfEntity
      <4> QED BY <2>1, <4>1, EntityFacts, NothingYet
    <3> HIDE DEF e
    <3> QED BY <2>2, <3>1 DEF AcceptedOfEntity, e
  <2>4. a = [iam EXCEPT ![c.type][c.on] = Changed(@, c)]
    OBVIOUS
  <2>5. Done(c) = CASE c.fn = "create_instance_profile" -> [a EXCEPT !.profiles[c.arg].there = TRUE]
                    [] c.fn = "delete_instance_profile" -> [a EXCEPT !.profiles[c.arg].there = FALSE]
                    [] OTHER -> a
    BY <1>2 DEF Done, Entities
  <2> HIDE DEF e
  <2>6. /\ IsEntity(e_)
        /\ e_.managed \subseteq e.managed \cup (IF c.fn = "attach" THEN {c.arg} ELSE {})
        /\ e_.profiles \subseteq e.profiles \cup (IF c.fn = "add_to_profile" THEN {c.arg} ELSE {})
        /\ c.type = "groups" => e_.trust = "none" /\ e_.profiles = {}
    BY <1>2, <2>1, <2>3, EntityStep
  <2> HIDE DEF e_
  <2>7. /\ \A p \in e_.managed : iam.policies[p].there
        /\ \A i \in e_.profiles : iam.profiles[i].there
    BY <2>1, <2>3, <2>6
  <2>8. ASSUME c.type = "roles", NEW s \in Roles \ {c.on}
        PROVE  e_.profiles \intersect iam.roles[s].profiles = {}
    <3>1. c.on \in Roles /\ e = iam.roles[c.on]
      BY <2>8 DEF NamesOf, e
    <3>2. e.profiles \intersect iam.roles[s].profiles = {}
      BY <3>1 DEF IsAccount
    <3>3. c.fn = "add_to_profile" => c.arg \notin iam.roles[s].profiles
      BY <2>3 DEF Held
    <3> QED BY <2>6, <3>2, <3>3
  <2> HIDE DEF a
  <2>9. IsAccount(a)
    <3>1. IsAccount([iam EXCEPT ![c.type][c.on] = e_])
      BY <1>2, <2>6, <2>7, <2>8, EntityReplaced
    <3> QED BY <3>1 DEF a
  <2>10. CASE c.fn = "create_instance_profile"
    <3>1. c.arg \in Profiles
      BY <2>10 DEF IsCall
    <3>2. IsAccount([a EXCEPT !.profiles[c.arg].there = TRUE])
      BY <2>9, <3>1, ProfileReplaced
    <3> QED BY <2>5, <2>10, <3>2
  <2>11. CASE c.fn = "delete_instance_profile"
    <3>1. c.arg \in Profiles
      BY <2>11 DEF IsCall
    <3>2. e_ = e
      BY <2>1, <2>11, ChangedIs DEF e_
    <3>3. \A r \in Roles : c.arg \notin a.roles[r].profiles
      <4>1. \A r \in Roles : a.roles[r] = iam.roles[r]
        <5>1. HasDomain(iam, Types \union {"profiles"}) /\ HasDomain(iam.roles, Roles)
          BY DEF IsAccount
        <5> QED BY <1>2, <3>2, <5>1 DEF a, e, HasDomain, Types, Entities, NamesOf
      <4> QED BY <2>3, <2>11, <4>1 DEF Held
    <3>4. IsAccount([a EXCEPT !.profiles[c.arg].there = FALSE])
      BY <2>9, <3>1, <3>3, ProfileReplaced
    <3> QED BY <2>5, <2>11, <3>4
  <2>12. CASE c.fn \notin {"create_instance_profile", "delete_instance_profile"}
    BY <2>5, <2>9, <2>12
  <2> QED BY <2>10, <2>11, <2>12
<1>3. c.type = "policies" \/ c.type \in Entities
  BY DEF IsCall, functions, Entities
<1> QED BY <1>1, <1>2, <1>3

-----------------------------------------------------------------------------
(***************************************************************************)
(* What accepted calls of an import do to what is needed.                  *)
(***************************************************************************)
LEMMA NeededCall ==
    ASSUME NEW type, NEW r, NEW e, NEW c \in Needed(type, r, e)
    PROVE  \/ c.fn = "create" /\ ~ e.there
           \/ c.fn = "update_trust" /\ c.arg \in {r.trust} \ {e.trust}
           \/ c.fn = "put" /\ c.arg \in Inline(r) \ Inline(e)
           \/ c.fn = "delete_inline" /\ c.arg \in DOMAIN e.inline \ DOMAIN r.inline
           \/ c.fn = "attach" /\ c.arg \in r.managed \ e.managed
           \/ c.fn = "detach" /\ c.arg \in e.managed \ r.managed
           \/ c.fn = "add_to_profile" /\ c.arg \in r.profiles \ e.profiles
           \/ c.fn = "remove_from_profile" /\ c.arg \in e.profiles \ r.profiles
<1>1. CASE ~ e.there /\ c \in CallSet(type, "create", r.name, {r})
  BY <1>1, CallParts
<1>2. CASE c \in CallSet(type, "update_trust", r.name, {r.trust} \ {e.trust})
  BY <1>2, CallParts
<1>3. CASE c \in CallSet(type, "put", r.name, Inline(r) \ Inline(e))
  BY <1>3, CallParts
<1>4. CASE c \in CallSet(type, "delete_inline", r.name, DOMAIN e.inline \ DOMAIN r.inline)
  BY <1>4, CallParts
<1>5. CASE c \in CallSet(type, "attach", r.name, r.managed \ e.managed)
  BY <1>5, CallParts
<1>6. CASE c \in CallSet(type, "detach", r.name, e.managed \ r.managed)
  BY <1>6, CallParts
<1>7. CASE c \in CallSet(type, "add_to_profile", r.name, r.profiles \ e.profiles)
  BY <1>7, CallParts
<1>8. CASE c \in CallSet(type, "remove_from_profile", r.name, e.profiles \ r.profiles)
  BY <1>8, CallParts
<1> QED BY <1>1, <1>2, <1>3, <1>4, <1>5, <1>6, <1>7, <1>8 DEF Needed, ContentCalls

LEMMA CallSetMonotone ==
    ASSUME NEW type, NEW fn, NEW on, NEW args, NEW args_ \in SUBSET args
    PROVE  CallSet(type, fn, on, args_) \subseteq CallSet(type, fn, on, args)
BY DEF CallSet

\* What differs less needs less.
LEMMA NeededMonotone ==
    ASSUME NEW type, NEW r, NEW e, NEW e_, e_.there,
           e.there => {r.trust} \ {e_.trust} \subseteq {r.trust} \ {e.trust},
           ~ e.there => e_.trust = r.trust,
           Inline(r) \ Inline(e_) \subseteq Inline(r) \ Inline(e),
           DOMAIN e_.inline \ DOMAIN r.inline \subseteq DOMAIN e.inline \ DOMAIN r.inline,
           r.managed \ e_.managed \subseteq r.managed \ e.managed,
           e_.managed \ r.managed \subseteq e.managed \ r.managed,
           r.profiles \ e_.profiles \subseteq r.profiles \ e.profiles,
           e_.profiles \ r.profiles \subseteq e.profiles \ r.profiles
    PROVE  Needed(type, r, e_) \subseteq Needed(type, r, e)
<1> DEFINE trust == CallSet(type, "update_trust", r.name, {r.trust} \ {e.trust})
           trust_ == CallSet(type, "update_trust", r.name, {r.trust} \ {e_.trust})
           rest(x) == CallSet(type, "add_to_profile", r.name, r.profiles \ x.profiles)
                        \cup CallSet(type, "remove_from_profile", r.name, x.profiles \ r.profiles)
<1>1. e.there => trust_ \subseteq trust
  BY CallSetMonotone
<1>2. ~ e.there => trust_ = {}
  BY DEF CallSet
<1>3. ContentCalls(type, r, e_) \subseteq ContentCalls(type, r, e)
  BY CallSetMonotone DEF ContentCalls
<1>4. rest(e_) \subseteq rest(e)
  BY CallSetMonotone
<1>5. Needed(type, r, e_) = trust_ \cup ContentCalls(type, r, e_) \cup rest(e_)
  BY DEF Needed
<1>6. /\ e.there => Needed(type, r, e) = trust \cup ContentCalls(type, r, e) \cup rest(e)
      /\ ~ e.there => ContentCalls(type, r, e) \cup rest(e) \subseteq Needed(type, r, e)
  BY DEF Needed
<1> HIDE DEF trust, trust_, rest
<1> QED BY <1>1, <1>2, <1>3, <1>4, <1>5, <1>6

\* A call that serves an entry leaves less to do for it.
LEMMA NeedShrinks ==
    ASSUME NEW c, c.type \in Entities, NEW r, HasDomain(r.inline, DOMAIN r.inline), Serves(c, r),
           NEW e, IsEntity(e),
           c.fn = "create" => ~ e.there,
           c.fn \notin {"create", "create_instance_profile", "delete_instance_profile"} => e.there
    PROVE  LET e_ == Changed(e, c)
           IN /\ Needed(c.type, r, e_) \subseteq Needed(c.type, r, e) \ {c}
              /\ e_.there = (e.there \/ c.fn = "create")
              /\ e.there => e_.path = e.path
<1> DEFINE e_ == Changed(e, c)
<1>1. e.there \in BOOLEAN
  BY DEF IsEntity
<1>2. CASE c.fn = "create"
  <2>1. c.arg = r
    BY <1>2 DEF Serves, Entities
  <2>2. Shape(e_, r.path, r.trust, << >>, {}, {})
    BY <1>2, <2>1, ChangedIs
  <2>3. e = NoEntity
    BY <1>2, EntityFacts
  <2> HIDE DEF e_
  <2>4. Inline(e_) = {} /\ Inline(e) = {} /\ DOMAIN e_.inline = {}
    BY <2>2, <2>3, NothingYet DEF Inline, Shape
  <2>5. Needed(c.type, r, e_) \subseteq Needed(c.type, r, e)
    BY <1>2, <2>2, <2>3, <2>4, NothingYet, NeededMonotone DEF Shape
  <2>6. c \notin Needed(c.type, r, e_)
    BY <1>2, <2>2, NeededCall DEF Shape
  <2> QED BY <1>2, <2>2, <2>5, <2>6 DEF Shape, e_
<1>3. CASE c.fn = "update_trust"
  <2>1. c.arg = r.trust
    BY <1>3 DEF Serves, Entities
  <2>2. Shape(e_, e.path, r.trust, e.inline, e.managed, e.profiles)
    BY <1>3, <2>1, ChangedIs
  <2> HIDE DEF e_
  <2>3. Inline(e_) = Inline(e)
    BY <2>2 DEF Inline, Shape
  <2>4. Needed(c.type, r, e_) \subseteq Needed(c.type, r, e)
    BY <1>3, <2>2, <2>3, NeededMonotone DEF Shape
  <2>5. c \notin Needed(c.type, r, e_)
    BY <1>3, <2>2, NeededCall DEF Shape
  <2> QED BY <1>1, <1>3, <2>2, <2>4, <2>5 DEF Shape, e_
<1>4. CASE c.fn = "put"
  <2>1. PICK p \in DOMAIN r.inline : c.arg = <<p, r.inline[p]>>
    BY <1>4 DEF Serves, Entities, Inline
  <2>2. c.arg[1] = p /\ c.arg[2] = r.inline[p]
    BY <2>1
  <2>3. Shape(e_, e.path, e.trust, With(e.inline, p, r.inline[p]), e.managed, e.profiles)
    BY <1>4, <2>2, ChangedIs
  <2> HIDE DEF e_
  <2>4. /\ DOMAIN e_.inline = DOMAIN e.inline \cup {p}
        /\ e_.inline[p] = r.inline[p]
        /\ \A q \in DOMAIN e.inline : q # p => e_.inline[q] = e.inline[q]
    BY <2>3 DEF Shape, With
  <2>5. c.arg \in Inline(e_)
    BY <2>1, <2>4 DEF Inline
  <2>6. ASSUME NEW q \in DOMAIN r.inline, <<q, r.inline[q]>> \in Inline(e)
        PROVE  <<q, r.inline[q]>> \in Inline(e_)
    <3>1. q \in DOMAIN e.inline /\ e.inline[q] = r.inline[q]
      BY <2>6 DEF Inline
    <3>2. q \in DOMAIN e_.inline /\ e_.inline[q] = r.inline[q]
      BY <2>4, <3>1
    <3> QED BY <3>2 DEF Inline
  <2>7. Inline(r) \ Inline(e_) \subseteq Inline(r) \ Inline(e)
    BY <2>6 DEF Inline
  <2>8. DOMAIN e_.inline \ DOMAIN r.inline \subseteq DOMAIN e.inline \ DOMAIN r.inline
    BY <2>4
  <2>9. Needed(c.type, r, e_) \subseteq Needed(c.type, r, e)
    BY <1>4, <2>3, <2>7, <2>8, NeededMonotone DEF Shape
  <2>10. c \notin Needed(c.type, r, e_)
    BY <1>4, <2>5, NeededCall
  <2> QED BY <1>1, <1>4, <2>3, <2>9, <2>10 DEF Shape, e_
<1>5. CASE c.fn = "delete_inline"
  <2> DEFINE inline == Restrict(e.inline, DOMAIN e.inline \ {c.arg})
  <2>1. c.arg \notin DOMAIN r.inline
    BY <1>5 DEF Serves, Entities
  <2>2. Shape(e_, e.path, e.trust, inline, e.managed, e.profiles)
    BY <1>5, ChangedIs
  <2>3. /\ DOMAIN inline = DOMAIN e.inline \ {c.arg}
        /\ \A q \in DOMAIN inline : inline[q] = e.inline[q]
    BY DEF Restrict
  <2> HIDE DEF e_, inline
  <2>4. e_.inline = inline
    BY <2>2 DEF Shape
  <2>5. ASSUME NEW q \in DOMAIN r.inline, <<q, r.inline[q]>> \in Inline(e)
        PROVE  <<q, r.inline[q]>> \in Inline(e_)
    <3>1. q \in DOMAIN e.inline /\ e.inline[q] = r.inline[q]
      BY <2>5 DEF Inline
    <3>2. q \in DOMAIN e_.inline /\ e_.inline[q] = r.inline[q]
      BY <2>1, <2>3, <2>4, <3>1
    <3> QED BY <3>2 DEF Inline
  <2>6. Inline(r) \ Inline(e_) \subseteq Inline(r) \ Inline(e)
    BY <2>5 DEF Inline
  <2>7. DOMAIN e_.inline \ DOMAIN r.inline \subseteq DOMAIN e.inline \ DOMAIN r.inline
    BY <2>3, <2>4
  <2>8. Needed(c.type, r, e_) \subseteq Needed(c.type, r, e)
    BY <1>5, <2>2, <2>6, <2>7, NeededMonotone DEF Shape
  <2>9. c \notin Needed(c.type, r, e_)
    BY <1>5, <2>3, <2>4, NeededCall
  <2> QED BY <1>1, <1>5, <2>2, <2>8, <2>9 DEF Shape, e_
<1>6. CASE c.fn \in {"attach", "detach"}
  <2> DEFINE managed == IF c.fn = "attach" THEN e.managed \cup {c.arg} ELSE e.managed \ {c.arg}
  <2>1. IF c.fn = "attach" THEN c.arg \in r.managed ELSE c.arg \notin r.managed
    BY <1>6 DEF Serves, Entities
  <2>2. Shape(e_, e.path, e.trust, e.inline, managed, e.profiles)
    BY <1>6, ChangedIs
  <2> HIDE DEF e_
  <2>3. Inline(e_) = Inline(e)
    BY <2>2 DEF Inline, Shape
  <2>4. /\ r.managed \ e_.managed \subseteq r.managed \ e.managed
        /\ e_.managed \ r.managed \subseteq e.managed \ r.managed
    BY <1>6, <2>1, <2>2 DEF Shape
  <2>5. Needed(c.type, r, e_) \subseteq Needed(c.type, r, e)
    BY <1>6, <2>2, <2>3, <2>4, NeededMonotone DEF Shape
  <2>6. c \notin Needed(c.type, r, e_)
    BY <1>6, <2>2, NeededCall DEF Shape
  <2> QED BY <1>1, <1>6, <2>2, <2>5, <2>6 DEF Shape, e_
<1>7. CASE c.fn \in {"add_to_profile", "remove_from_profile"}
  <2> DEFINE profiles == IF c.fn = "add_to_profile" THEN e.profiles \cup {c.arg}
                         ELSE e.profiles \ {c.arg}
  <2>1. IF c.fn = "add_to_profile" THEN c.arg \in r.profiles ELSE c.arg \notin r.profiles
    BY <1>7 DEF Serves, Entities
  <2>2. Shape(e_, e.path, e.trust, e.inline, e.managed, profiles)
    BY <1>7, ChangedIs
  <2> HIDE DEF e_
  <2>3. Inline(e_) = Inline(e)
    BY <2>2 DEF Inline, Shape
  <2>4. /\ r.profiles \ e_.profiles \subseteq r.profiles \ e.profiles
        /\ e_.profiles \ r.profiles \subseteq e.profiles \ r.profiles
    BY <1>7, <2>1, <2>2 DEF Shape
  <2>5. Needed(c.type, r, e_) \subseteq Needed(c.type, r, e)
    BY <1>7, <2>2, <2>3, <2>4, NeededMonotone DEF Shape
  <2>6. c \notin Needed(c.type, r, e_)
    BY <1>7, <2>2, NeededCall DEF Shape
  <2> QED BY <1>1, <1>7, <2>2, <2>5, <2>6 DEF Shape, e_
<1>8. CASE c.fn \in {"create_instance_profile", "delete_instance_profile"}
  <2>1. e_ = e
    BY <1>8, ChangedIs
  <2>2. c \notin Needed(c.type, r, e)
    BY <1>8, NeededCall
  <2> QED BY <1>1, <1>8, <2>1, <2>2
<1>9. c.fn \in {"create", "update_trust", "put", "delete_inline", "attach", "detach",
                "add_to_profile", "remove_from_profile",
                "create_instance_profile", "delete_instance_profile"}
  BY DEF Serves, Entities
<1> QED BY <1>2, <1>3, <1>4, <1>5, <1>6, <1>7, <1>8, <1>9

-----------------------------------------------------------------------------
(***************************************************************************)
(* The invariant: every call of an import serves an entry of the file, and *)
(* every call of a removal removes something.                              *)
(***************************************************************************)
IsCommand(k, op, dry, clean, items, plan) ==
  /\ HasDomain(k, DOMAIN Idle)
  /\ k.op = op /\ k.dry = dry /\ k.clean = clean /\ k.items = items /\ k.plan = plan

Purposeful(k) ==
  /\ HasDomain(k, DOMAIN Idle)
  /\ k.op \in {"none", "import", "remove"} /\ k.dry \in BOOLEAN /\ k.clean \in BOOLEAN
  /\ IsList(k.items) /\ IsList(k.plan)
  /\ k.op = "none" => k.items = << >> /\ k.plan = << >>
  /\ k.op = "import" =>
       /\ ToSet(k.items) \subseteq Types \X {"all"}
       /\ \A c \in ToSet(k.plan) : c.type \in Types /\ \E r \in load(c.type) : Serves(c, r)
  /\ k.op = "remove" =>
       /\ \A x \in ToSet(k.items) : \E t \in Types : \E name \in Removed[t] : x = <<t, name>>
       /\ \A c \in ToSet(k.plan) : Removes(c)

Sound == IsAccount(iam) /\ Purposeful(cmd) /\ troubles \in 0 .. MaxTroubles

\* What a step may do.
Rests == iam' = iam /\ cmd' = Idle
Imports ==
  /\ iam' = iam
  /\ \E order \in Orders, dry \in BOOLEAN :
       IsCommand(cmd', "import", dry, TRUE, ItemsToImport(order), << >>)
StartsRemoving ==
  /\ iam' = iam
  /\ \E order \in Orders, dry \in BOOLEAN :
       IsCommand(cmd', "remove", dry, TRUE, ItemsToRemove(order), << >>)
Plans ==
  /\ iam' = iam /\ cmd.plan = << >> /\ cmd.items # << >>
  /\ IsCommand(cmd', cmd.op, cmd.dry, cmd.clean, Tail(cmd.items),
               IF cmd.op = "import" THEN update_aws(cmd.items[1][1])
               ELSE remove(cmd.items[1][1], cmd.items[1][2]))
Prints ==
  /\ iam' = iam /\ cmd.plan # << >> /\ cmd.dry
  /\ IsCommand(cmd', cmd.op, cmd.dry, cmd.clean, cmd.items, Tail(cmd.plan))
Does ==
  /\ cmd.plan # << >> /\ ~ Printed(cmd.plan[1])
  /\ cmd.plan[1].on \in NamesOf[cmd.plan[1].type] /\ Accepted(cmd.plan[1])
  /\ iam' = Done(cmd.plan[1])
  /\ IsCommand(cmd', cmd.op, cmd.dry, cmd.clean, cmd.items, Tail(cmd.plan))
Catches ==
  /\ iam' = iam /\ cmd.plan # << >> /\ cmd.op = "import"
  /\ IsCommand(cmd', cmd.op, cmd.dry, FALSE, cmd.items, Tail(cmd.plan))

LEMMA CommandFields ==
    ASSUME NEW k, HasDomain(k, DOMAIN Idle), NEW items, NEW plan
    PROVE  /\ IsCommand([k EXCEPT !.plan = plan], k.op, k.dry, k.clean, k.items, plan)
           /\ IsCommand([k EXCEPT !.plan = plan, !.clean = FALSE], k.op, k.dry, FALSE, k.items, plan)
           /\ IsCommand([k EXCEPT !.items = items, !.plan = plan], k.op, k.dry, k.clean, items, plan)
BY DEF IsCommand, HasDomain, Idle

LEMMA StartedCommand ==
    ASSUME NEW op, NEW dry, NEW items
    PROVE  IsCommand([op |-> op, dry |-> dry, clean |-> TRUE, plan |-> << >>, items |-> items],
                     op, dry, TRUE, items, << >>)
BY DEF IsCommand, HasDomain, Idle

LEMMA Failing ==
    ASSUME Purposeful(cmd), cmd.plan # << >>, Failed(cmd.plan[1]), iam' = iam
    PROVE  Rests \/ Catches
<1>1. HasDomain(cmd, DOMAIN Idle)
  BY DEF Purposeful
<1>2. CASE Caught(cmd.plan[1])
  <2>1. cmd' = [cmd EXCEPT !.plan = Tail(cmd.plan), !.clean = FALSE]
    BY <1>2 DEF Failed
  <2>2. IsCommand(cmd', cmd.op, cmd.dry, FALSE, cmd.items, Tail(cmd.plan))
    BY <1>1, <2>1, CommandFields
  <2> QED BY <1>2, <2>2 DEF Catches, Caught
<1>3. CASE ~ Caught(cmd.plan[1])
  BY <1>3 DEF Failed, Rests
<1> QED BY <1>2, <1>3

LEMMA Steps ==
    ASSUME Purposeful(cmd), Next
    PROVE  Rests \/ Imports \/ StartsRemoving \/ Plans \/ Prints \/ Does \/ Catches
<1>1. HasDomain(cmd, DOMAIN Idle)
  BY DEF Purposeful
<1>2. CASE StartImport
  <2>1. PICK order \in Orders : Start("import", FALSE, ItemsToImport(order))
    BY <1>2 DEF StartImport
  <2>2. IsCommand(cmd', "import", FALSE, TRUE, ItemsToImport(order), << >>)
    BY <2>1, StartedCommand DEF Start
  <2> QED BY <2>1, <2>2 DEF Imports, Start
<1>3. CASE StartDryRun
  <2>1. PICK order \in Orders : Start("import", TRUE, ItemsToImport(order))
    BY <1>3 DEF StartDryRun
  <2>2. IsCommand(cmd', "import", TRUE, TRUE, ItemsToImport(order), << >>)
    BY <2>1, StartedCommand DEF Start
  <2> QED BY <2>1, <2>2 DEF Imports, Start
<1>4. CASE StartRemove
  <2>1. PICK order \in Orders, dry \in BOOLEAN : Start("remove", dry, ItemsToRemove(order))
    BY <1>4 DEF StartRemove
  <2>2. IsCommand(cmd', "remove", dry, TRUE, ItemsToRemove(order), << >>)
    BY <2>1, StartedCommand DEF Start
  <2> QED BY <2>1, <2>2 DEF StartsRemoving, Start
<1>5. CASE NextItem
  <2> DEFINE plan == IF cmd.op = "import" THEN update_aws(cmd.items[1][1])
                     ELSE remove(cmd.items[1][1], cmd.items[1][2])
  <2>1. iam' = iam /\ cmd.plan = << >> /\ cmd.items # << >>
    BY <1>5 DEF NextItem
  <2>2. cmd' = Idle \/ cmd' = [cmd EXCEPT !.items = Tail(cmd.items), !.plan = plan]
    BY <1>5 DEF NextItem
  <2> HIDE DEF plan
  <2>3. cmd' = [cmd EXCEPT !.items = Tail(cmd.items), !.plan = plan] =>
          IsCommand(cmd', cmd.op, cmd.dry, cmd.clean, Tail(cmd.items), plan)
    BY <1>1, CommandFields
  <2> QED BY <2>1, <2>2, <2>3 DEF Plans, Rests, plan
<1>6. CASE Call
  <2> DEFINE c == cmd.plan[1]
             onwards == [cmd EXCEPT !.plan = Tail(cmd.plan)]
  <2>1. /\ cmd.plan # << >>
        /\ IF Printed(c) THEN iam' = iam /\ cmd' = onwards
           ELSE IF c.on \in NamesOf[c.type] /\ Accepted(c) THEN iam' = Done(c) /\ cmd' = onwards
           ELSE iam' = iam /\ Failed(c)
    BY <1>6 DEF Call
  <2>2. IsCommand(onwards, cmd.op, cmd.dry, cmd.clean, cmd.items, Tail(cmd.plan))
    BY <1>1, CommandFields
  <2> HIDE DEF onwards
  <2>3. CASE Printed(c)
    <3>1. cmd.dry
      BY <2>3 DEF Printed
    <3> QED BY <2>1, <2>2, <2>3, <3>1 DEF Prints
  <2>4. CASE ~ Printed(c) /\ c.on \in NamesOf[c.type] /\ Accepted(c)
    BY <2>1, <2>2, <2>4 DEF Does
  <2>5. CASE ~ Printed(c) /\ ~ (c.on \in NamesOf[c.type] /\ Accepted(c))
    BY <2>1, <2>5, Failing
  <2> QED BY <2>3, <2>4, <2>5
<1>7. CASE CallFails
  BY <1>7, Failing DEF CallFails
<1>8. CASE Interrupted
  BY <1>8 DEF Interrupted, Rests
<1> QED BY <1>2, <1>3, <1>4, <1>5, <1>6, <1>7, <1>8 DEF Next

LEMMA IdleIsPurposeful == Purposeful(Idle)
<1>1. IsList(<< >>)
  BY DEF IsList
<1> QED BY <1>1 DEF Purposeful, Idle, HasDomain

\* The calls of a command can be told of the account.
LEMMA PlannedCalls ==
    ASSUME Purposeful(cmd), NEW c \in ToSet(cmd.plan)
    PROVE  /\ IsCall(c) /\ c.type \in Types /\ c.on \in NamesOf[c.type] \union {GroupId}
           /\ cmd.op = "import" => c.on \in Whitelist[c.type] /\ c.fn # "delete"
           /\ cmd.op = "remove" => c.fn # "create"
<1>1. CASE cmd.op = "import"
  <2>1. c.type \in Types /\ \E r \in load(c.type) : Serves(c, r)
    BY <1>1 DEF Purposeful
  <2> QED BY <1>1, <2>1, ServingIsCall
<1>2. CASE cmd.op = "remove"
  <2>1. Removes(c)
    BY <1>2 DEF Purposeful
  <2> QED BY <1>2, <2>1, RemovingIsCall DEF Removes
<1>3. CASE cmd.op = "none"
  BY <1>3 DEF Purposeful, ToSet
<1> QED BY <1>1, <1>2, <1>3 DEF Purposeful

LEMMA FirstCall ==
    ASSUME Purposeful(cmd), cmd.plan # << >>
    PROVE  /\ IsList(Tail(cmd.plan)) /\ cmd.plan[1] \in ToSet(cmd.plan)
           /\ ToSet(cmd.plan) = ToSet(Tail(cmd.plan)) \cup {cmd.plan[1]}
BY ListSplits DEF Purposeful

LEMMA FirstItem ==
    ASSUME Purposeful(cmd), cmd.items # << >>
    PROVE  /\ IsList(Tail(cmd.items)) /\ cmd.items[1] \in ToSet(cmd.items)
           /\ ToSet(cmd.items) = ToSet(Tail(cmd.items)) \cup {cmd.items[1]}
BY ListSplits DEF Purposeful

LEMMA PurposefulNext ==
    ASSUME Sound, Next
    PROVE  Purposeful(cmd')
<1>1. Purposeful(cmd) /\ IsAccount(iam)
  BY DEF Sound
<1>2. \A k, op, dry, clean, items, plan :
        /\ IsCommand(k, op, dry, clean, items, plan)
        /\ op \in {"none", "import", "remove"} /\ dry \in BOOLEAN /\ clean \in BOOLEAN
        /\ IsList(items) /\ IsList(plan)
        /\ op = "none" => items = << >> /\ plan = << >>
        /\ op = "import" =>
             /\ ToSet(items) \subseteq Types \X {"all"}
             /\ \A c \in ToSet(plan) : c.type \in Types /\ \E r \in load(c.type) : Serves(c, r)
        /\ op = "remove" =>
             /\ \A x \in ToSet(items) : \E t \in Types : \E name \in Removed[t] : x = <<t, name>>
             /\ \A c \in ToSet(plan) : Removes(c)
        => Purposeful(k)
  BY DEF IsCommand, Purposeful
<1>3. IsList(<< >>) /\ ToSet(<< >>) = {}
  BY DEF IsList, ToSet
<1>4. CASE Rests
  BY <1>4, IdleIsPurposeful DEF Rests
<1>5. CASE Imports
  <2>1. PICK order \in Orders, dry \in BOOLEAN :
          IsCommand(cmd', "import", dry, TRUE, ItemsToImport(order), << >>)
    BY <1>5 DEF Imports
  <2>2. IsList(ItemsToImport(order)) /\ ToSet(ItemsToImport(order)) \subseteq Types \X {"all"}
    BY ItemsOfImport
  <2> QED BY <1>2, <1>3, <2>1, <2>2
<1>6. CASE StartsRemoving
  <2>1. PICK order \in Orders, dry \in BOOLEAN :
          IsCommand(cmd', "remove", dry, TRUE, ItemsToRemove(order), << >>)
    BY <1>6 DEF StartsRemoving
  <2>2. /\ IsList(ItemsToRemove(order))
        /\ \A x \in ToSet(ItemsToRemove(order)) :
             \E t \in Types : \E name \in Removed[t] : x = <<t, name>>
    BY ItemsOfRemove
  <2> QED BY <1>2, <1>3, <2>1, <2>2
<1>7. CASE Plans
  <2> DEFINE type == cmd.items[1][1]
             name == cmd.items[1][2]
  <2>1. cmd.items # << >>
    BY <1>7 DEF Plans
  <2>2. /\ IsList(Tail(cmd.items)) /\ cmd.items[1] \in ToSet(cmd.items)
        /\ ToSet(Tail(cmd.items)) \subseteq ToSet(cmd.items)
    BY <1>1, <2>1, FirstItem
  <2>3. CASE cmd.op = "import"
    <3>1. type \in Types
      BY <1>1, <2>2, <2>3 DEF Purposeful
    <3>2. IsCommand(cmd', "import", cmd.dry, cmd.clean, Tail(cmd.items), update_aws(type))
      BY <1>7, <2>3 DEF Plans
    <3> HIDE DEF type
    <3>3. /\ IsList(update_aws(type))
          /\ \A c \in ToSet(update_aws(type)) :
               c.type \in Types /\ \E r \in load(c.type) : Serves(c, r)
      BY <1>1, <3>1, ImportPlan
    <3>4. /\ cmd.dry \in BOOLEAN /\ cmd.clean \in BOOLEAN
          /\ ToSet(Tail(cmd.items)) \subseteq Types \X {"all"}
      BY <1>1, <2>2, <2>3 DEF Purposeful
    <3> QED BY <1>2, <2>2, <3>2, <3>3, <3>4
  <2>4. CASE cmd.op = "remove"
    <3>1. PICK t \in Types : \E n \in Removed[t] : cmd.items[1] = <<t, n>>
      BY <1>1, <2>2, <2>4 DEF Purposeful
    <3>2. type \in Types /\ name \in NamesOf[type]
      BY <3>1, IamAssumption
    <3>3. IsCommand(cmd', "remove", cmd.dry, cmd.clean, Tail(cmd.items), remove(type, name))
      BY <1>7, <2>4 DEF Plans
    <3> HIDE DEF type, name
    <3>4. IsList(remove(type, name)) /\ \A c \in ToSet(remove(type, name)) : Removes(c)
      BY <1>1, <3>2, RemovalPlan
    <3>5. /\ cmd.dry \in BOOLEAN /\ cmd.clean \in BOOLEAN
          /\ \A x \in ToSet(Tail(cmd.items)) : \E u \in Types : \E n \in Removed[u] : x = <<u, n>>
      BY <1>1, <2>2, <2>4 DEF Purposeful
    <3> QED BY <1>2, <2>2, <3>3, <3>4, <3>5
  <2>5. cmd.op # "none"
    BY <1>1, <2>1 DEF Purposeful
  <2> QED BY <1>1, <2>3, <2>4, <2>5 DEF Purposeful
<1>8. CASE Prints \/ Does \/ Catches
  <2>1. PICK clean \in BOOLEAN :
          IsCommand(cmd', cmd.op, cmd.dry, clean, cmd.items, Tail(cmd.plan))
    BY <1>1, <1>8 DEF Prints, Does, Catches, Purposeful
  <2>2. cmd.plan # << >>
    BY <1>8 DEF Prints, Does, Catches
  <2>3. /\ IsList(Tail(cmd.plan)) /\ ToSet(Tail(cmd.plan)) \subseteq ToSet(cmd.plan)
        /\ cmd.op # "none"
    BY <1>1, <2>2, FirstCall DEF Purposeful
  <2>4. /\ cmd.op \in {"none", "import", "remove"} /\ cmd.dry \in BOOLEAN /\ IsList(cmd.items)
        /\ cmd.op = "import" =>
             /\ ToSet(cmd.items) \subseteq Types \X {"all"}
             /\ \A c \in ToSet(Tail(cmd.plan)) :
                  c.type \in Types /\ \E r \in load(c.type) : Serves(c, r)
        /\ cmd.op = "remove" =>
             /\ \A x \in ToSet(cmd.items) : \E t \in Types : \E n \in Removed[t] : x = <<t, n>>
             /\ \A c \in ToSet(Tail(cmd.plan)) : Removes(c)
    BY <1>1, <2>3 DEF Purposeful
  <2> QED BY <1>2, <2>1, <2>3, <2>4
<1> QED BY <1>1, <1>4, <1>5, <1>6, <1>7, <1>8, Steps

LEMMA SoundInit == Init => Sound
<1> SUFFICES ASSUME Init PROVE Sound
  OBVIOUS
<1>1. IsAccount(iam)
  BY IamAssumption DEF Init
<1>2. troubles \in 0 .. MaxTroubles
  BY IamAssumption DEF Init
<1> QED BY <1>1, <1>2, IdleIsPurposeful DEF Init, Sound

LEMMA SoundNext == Sound /\ [Next]_vars => Sound'
<1> SUFFICES ASSUME Sound, [Next]_vars PROVE Sound'
  OBVIOUS
<1>1. CASE UNCHANGED vars
  BY <1>1 DEF vars, Sound
<1>2. CASE Next
  <2>1. Purposeful(cmd')
    BY <1>2, PurposefulNext
  <2>2. troubles' \in 0 .. MaxTroubles
    <3>1. Trouble \/ troubles' = troubles
      BY <1>2 DEF Next, StartImport, StartDryRun, StartRemove, NextItem, Call, CallFails, Interrupted
    <3>2. troubles \in 0 .. MaxTroubles /\ MaxTroubles \in Nat
      BY IamAssumption DEF Sound
    <3> QED BY ONLY <3>1, <3>2 DEF Trouble
  <2>3. IsAccount(iam')
    <3>1. CASE Does
      <4>1. IsCall(cmd.plan[1])
        <5>1. cmd.plan # << >> /\ Purposeful(cmd)
          BY <3>1 DEF Does, Sound
        <5> QED BY <5>1, FirstCall, PlannedCalls
      <4>2. IsAccount(Done(cmd.plan[1]))
        BY <3>1, <4>1, CallKeepsAccount DEF Does, Sound
      <4> QED BY <3>1, <4>2 DEF Does
    <3>2. CASE ~ Does
      <4>1. iam' = iam
        BY <1>2, <3>2, Steps DEF Sound, Rests, Imports, StartsRemoving, Plans, Prints, Catches
      <4> QED BY <4>1 DEF Sound
    <3> QED BY <3>1, <3>2
  <2> QED BY <2>1, <2>2, <2>3 DEF Sound
<1> QED BY <1>1, <1>2

\* In every reachable state the account is one that IAM can hold, and the calls
\* still to be made are for what the command is for.
THEOREM SoundInvariant == Spec => []Sound
BY SoundInit, SoundNext, PTL DEF Spec

\* The account stays one that IAM can hold, with no reference to a policy or
\* profile that does not exist, whichever calls fail and wherever commands are
\* interrupted; and calls name things of the account.
THEOREM TypeCorrect == Spec => []TypeOK
<1>1. Sound => TypeOK
  <2> SUFFICES ASSUME Sound PROVE TypeOK
    OBVIOUS
  <2>1. Purposeful(cmd)
    BY DEF Sound
  <2>2. ASSUME NEW i \in DOMAIN cmd.plan
        PROVE  cmd.plan[i].on \in NamesOf[cmd.plan[i].type] \union {GroupId}
    <3>1. cmd.plan[i] \in ToSet(cmd.plan)
      BY DEF ToSet
    <3> QED BY <2>1, <3>1, PlannedCalls
  <2> QED BY <2>1, <2>2 DEF TypeOK, Sound, Purposeful
<1> QED BY <1>1, SoundInvariant, PTL

\* An accepted call changes nothing but what it names.
LEMMA DoneIs ==
    ASSUME IsAccount(iam), NEW c, c.type \in Types, c.on \in NamesOf[c.type],
           NEW t \in Types, NEW n \in NamesOf[t]
    PROVE  Done(c)[t][n] = IF t # c.type \/ n # c.on THEN iam[t][n]
                           ELSE IF t = "policies" THEN ChangedPolicy(iam[t][n], c)
                           ELSE Changed(iam[t][n], c)
<1>1. /\ HasDomain(iam, Types \union {"profiles"}) /\ HasDomain(iam.groups, Groups)
      /\ HasDomain(iam.roles, Roles) /\ HasDomain(iam.policies, Policies)
  BY DEF IsAccount
<1>2. HasDomain(iam[t], NamesOf[t]) /\ HasDomain(iam[c.type], NamesOf[c.type])
  BY <1>1 DEF Types, NamesOf
<1>3. CASE c.type = "policies"
  BY <1>1, <1>2, <1>3 DEF Done, HasDomain, Types
<1>4. CASE c.type # "policies"
  <2> DEFINE done == [iam EXCEPT ![c.type][c.on] = Changed(@, c)]
  <2>1. HasDomain(done, Types \union {"profiles"})
    BY <1>1 DEF HasDomain
  <2>2. done[t][n] = IF t # c.type \/ n # c.on THEN iam[t][n] ELSE Changed(iam[t][n], c)
    <3>1. DOMAIN iam = Types \union {"profiles"} /\ DOMAIN iam[c.type] = NamesOf[c.type]
      BY <1>1, <1>2 DEF HasDomain
    <3> QED BY <3>1
  <2>3. t # "profiles"
    BY DEF Types
  <2>4. \/ Done(c) = done
        \/ Done(c) = [done EXCEPT !.profiles[c.arg].there = TRUE]
        \/ Done(c) = [done EXCEPT !.profiles[c.arg].there = FALSE]
    BY <1>4 DEF Done
  <2> HIDE DEF done
  <2>5. Done(c)[t] = done[t]
    BY <2>1, <2>3, <2>4 DEF HasDomain
  <2> QED BY <1>4, <2>2, <2>5
<1> QED BY <1>3, <1>4

\* An import changes nothing whose name is not on the list, and a dry run
\* changes nothing at all: every call that a command makes is one that the
\* wrapper of dry runs knows.
THEOREM OnlyTheListed == Spec => NothingElseChanges
<1> DEFINE Step == /\ cmd.dry => UNCHANGED iam
                   /\ cmd.op = "import" =>
                        \A t \in Types : \A n \in NamesOf[t] \ Whitelist[t] : iam'[t][n] = iam[t][n]
<1>1. Sound /\ [Next]_vars => [Step]_vars
  <2> SUFFICES ASSUME Sound, Next PROVE Step
    OBVIOUS
  <2>1. Purposeful(cmd) /\ IsAccount(iam)
    BY DEF Sound
  <2>2. CASE Does
    <3> DEFINE c == cmd.plan[1]
    <3>1. c \in ToSet(cmd.plan)
      BY <2>1, <2>2, FirstCall DEF Does
    <3>2. /\ IsCall(c) /\ c.type \in Types
          /\ cmd.op = "import" => c.on \in Whitelist[c.type]
      BY <2>1, <3>1, PlannedCalls
    <3>3. ~ Printed(c) /\ c.on \in NamesOf[c.type] /\ iam' = Done(c)
      BY <2>2 DEF Does
    <3> HIDE DEF c
    <3>4. ~ cmd.dry
      BY <3>2, <3>3 DEF Printed, IsCall
    <3>5. ASSUME cmd.op = "import", NEW t \in Types, NEW n \in NamesOf[t] \ Whitelist[t]
          PROVE  iam'[t][n] = iam[t][n]
      <4>1. t # c.type \/ n # c.on
        BY <3>2, <3>5
      <4> QED BY <2>1, <3>2, <3>3, <4>1, DoneIs
    <3> QED BY <3>4, <3>5
  <2>3. CASE ~ Does
    <3>1. iam' = iam
      BY <2>1, <2>3, Steps DEF Rests, Imports, StartsRemoving, Plans, Prints, Catches
    <3> QED BY <3>1
  <2> QED BY <2>2, <2>3
<1> QED BY <1>1, SoundInvariant, PTL DEF Spec, NothingElseChanges

-----------------------------------------------------------------------------
(***************************************************************************)
(* A command that ends without an error has done what it was asked.        *)
(***************************************************************************)
\* Commands name all types; no two entries of a file have one name.
AllTypesGiven == \A order \in Orders : ToSet(order) = Types
EntriesDiffer == \A t \in Entities : \A r, s \in File[t] : r.name = s.name => r = s

\* What is needed, or to be deleted, and has not been done is still planned.
Kept(a, k) ==
  /\ k.op = "import" /\ k.clean /\ ~ k.dry =>
       \A t \in Entities :
         \/ <<t, "all">> \in ToSet(k.items)
         \/ \A r \in load(t) : \/ Elsewhere(r, a[t][r.name])
                               \/ Needed(t, r, a[t][r.name]) \subseteq ToSet(k.plan)
  /\ k.op = "remove" /\ ~ k.dry =>
       \A t \in Types : \A n \in Removed[t] :
         \/ <<t, n>> \in ToSet(k.items)
         \/ ~ a[t][n].there
         \/ Deletion(t, n) \subseteq ToSet(k.plan)

LEMMA NeededNames ==
    ASSUME NEW type, NEW r, NEW e, NEW c \in Needed(type, r, e)
    PROVE  c.type = type /\ c.on = r.name
BY CallParts DEF Needed, ContentCalls

LEMMA NothingNeeded ==
    ASSUME NEW type, NEW r, HasDomain(r.inline, DOMAIN r.inline), NEW e, IsEntity(e),
           Needed(type, r, e) = {}
    PROVE  /\ e.there /\ e.trust = r.trust /\ e.inline = r.inline
           /\ e.managed = r.managed /\ e.profiles = r.profiles
<1>1. \A fn, args : CallSet(type, fn, r.name, args) = {} => args = {}
  BY DEF CallSet
<1>2. e.there
  <2>1. CallSet(type, "create", r.name, {r}) # {}
    BY <1>1
  <2> QED BY <2>1 DEF Needed
<1>3. /\ CallSet(type, "update_trust", r.name, {r.trust} \ {e.trust}) = {}
      /\ CallSet(type, "put", r.name, Inline(r) \ Inline(e)) = {}
      /\ CallSet(type, "delete_inline", r.name, DOMAIN e.inline \ DOMAIN r.inline) = {}
      /\ CallSet(type, "attach", r.name, r.managed \ e.managed) = {}
      /\ CallSet(type, "detach", r.name, e.managed \ r.managed) = {}
      /\ CallSet(type, "add_to_profile", r.name, r.profiles \ e.profiles) = {}
      /\ CallSet(type, "remove_from_profile", r.name, e.profiles \ r.profiles) = {}
  <2> DEFINE A == CallSet(type, "update_trust", r.name, {r.trust} \ {e.trust})
             B == CallSet(type, "put", r.name, Inline(r) \ Inline(e))
             C == CallSet(type, "delete_inline", r.name, DOMAIN e.inline \ DOMAIN r.inline)
             D == CallSet(type, "attach", r.name, r.managed \ e.managed)
             E == CallSet(type, "detach", r.name, e.managed \ r.managed)
             F == CallSet(type, "add_to_profile", r.name, r.profiles \ e.profiles)
             G == CallSet(type, "remove_from_profile", r.name, e.profiles \ r.profiles)
  <2>1. A \cup (B \cup C \cup D \cup E) \cup F \cup G = {}
    BY <1>2 DEF Needed, ContentCalls
  <2> HIDE DEF A, B, C, D, E, F, G
  <2>2. A = {} /\ B = {} /\ C = {} /\ D = {} /\ E = {} /\ F = {} /\ G = {}
    BY <2>1
  <2> QED BY <2>2 DEF A, B, C, D, E, F, G
<1>4. /\ {r.trust} \ {e.trust} = {} /\ Inline(r) \ Inline(e) = {}
      /\ DOMAIN e.inline \ DOMAIN r.inline = {}
      /\ r.managed \ e.managed = {} /\ e.managed \ r.managed = {}
      /\ r.profiles \ e.profiles = {} /\ e.profiles \ r.profiles = {}
  BY <1>1, <1>3
<1>5. e.inline = r.inline
  <2>1. ASSUME NEW p \in DOMAIN r.inline
        PROVE  p \in DOMAIN e.inline /\ e.inline[p] = r.inline[p]
    <3>1. <<p, r.inline[p]>> \in Inline(e)
      BY <1>4 DEF Inline
    <3> QED BY <3>1 DEF Inline
  <2>2. DOMAIN e.inline = DOMAIN r.inline
    BY <1>4, <2>1
  <2>3. HasDomain(e.inline, DOMAIN e.inline)
    BY DEF IsEntity
  <2> QED BY <2>1, <2>2, <2>3 DEF HasDomain
<1> QED BY <1>2, <1>4, <1>5

LEMMA KeptIsEnough ==
    ASSUME Sound, Kept(iam, cmd)
    PROVE  CommandsKeepTheirWord
<1> SUFFICES ASSUME Ended, cmd.clean, ~ cmd.dry
             PROVE  CASE cmd.op = "import" -> AllAsInFile
                      [] cmd.op = "remove" ->
                           \A t \in Types : \A n \in Removed[t] : ~ iam[t][n].there
                      [] OTHER -> TRUE
  BY DEF CommandsKeepTheirWord
<1>1. ToSet(cmd.items) = {} /\ ToSet(cmd.plan) = {}
  BY DEF Ended, ToSet
<1>2. ASSUME cmd.op = "import", NEW t \in Entities, NEW r \in load(t)
      PROVE  AsInFile(t, r)
  <2> DEFINE e == iam[t][r.name]
  <2>1. Elsewhere(r, e) \/ Needed(t, r, e) \subseteq {}
    BY <1>1, <1>2 DEF Kept
  <2>2. IsEntity(e) /\ HasDomain(r.inline, DOMAIN r.inline)
    BY EntryFacts, AccountParts DEF Sound, IsEntry
  <2> HIDE DEF e
  <2>3. CASE Elsewhere(r, e)
    BY <2>3 DEF Elsewhere, AsInFile, e
  <2>4. CASE Needed(t, r, e) = {}
    BY <2>2, <2>4, NothingNeeded DEF AsInFile, e
  <2> QED BY <2>1, <2>3, <2>4
<1>3. ASSUME cmd.op = "remove", NEW t \in Types, NEW n \in Removed[t]
      PROVE  ~ iam[t][n].there
  <2>1. Deletion(t, n) # {}
    BY DEF Deletion, CallSet
  <2> QED BY <1>1, <1>3, <2>1 DEF Kept
<1> QED BY <1>2, <1>3 DEF AllAsInFile, Entities

\* What an accepted call of an import is accepted for.
LEMMA AcceptedServing ==
    ASSUME IsAccount(iam), NEW c, c.type \in Entities, c.on \in NamesOf[c.type], IsCall(c), Accepted(c)
    PROVE  LET e == iam[c.type][c.on]
           IN /\ c.fn = "create" => ~ e.there
              /\ c.fn \notin {"create", "delete", "create_instance_profile",
                              "delete_instance_profile"} => e.there
<1> DEFINE e == iam[c.type][c.on]
<1>1. AcceptedOfEntity(c)
  BY DEF Accepted, Entities
<1>2. c.fn = "detach" => e.there
  <2>1. c.fn = "detach" => c.arg \in e.managed
    BY <1>1 DEF AcceptedOfEntity
  <2>2. IsEntity(e)
    BY AccountParts
  <2> QED BY <2>1, <2>2, EntityFacts, NothingYet
<1> HIDE DEF e
<1> QED BY <1>1, <1>2 DEF AcceptedOfEntity, e

\* A call of an import keeps what is planned for every entry.
LEMMA ImportKeepsPlan ==
    ASSUME EntriesDiffer, Sound, Does, cmd.op = "import",
           NEW t \in Entities, NEW r \in load(t),
           \/ Elsewhere(r, iam[t][r.name])
           \/ Needed(t, r, iam[t][r.name]) \subseteq ToSet(cmd.plan)
    PROVE  \/ Elsewhere(r, iam'[t][r.name])
           \/ Needed(t, r, iam'[t][r.name]) \subseteq ToSet(Tail(cmd.plan))
<1> DEFINE c  == cmd.plan[1]
           e  == iam[t][r.name]
           e_ == iam'[t][r.name]
           L  == ToSet(Tail(cmd.plan))
<1>1. /\ IsAccount(iam) /\ Purposeful(cmd)
      /\ c.on \in NamesOf[c.type] /\ Accepted(c) /\ iam' = Done(c)
  BY DEF Sound, Does
<1>2. c \in ToSet(cmd.plan) /\ ToSet(cmd.plan) = L \cup {c}
  BY <1>1, FirstCall DEF Does
<1>3. IsCall(c) /\ c.type \in Types /\ c.fn # "delete"
  BY <1>1, <1>2, PlannedCalls
<1>4. PICK s \in load(c.type) : Serves(c, s)
  BY <1>1, <1>2 DEF Purposeful
<1>5. IsEntity(e) /\ IsEntry(r) /\ r.name \in NamesOf[t] /\ t \in Types
  BY <1>1, EntryFacts, AccountParts DEF Entities, Types
<1> HIDE DEF c, L
<1>6. CASE t # c.type \/ r.name # c.on
  <2>1. e_ = e
    BY <1>1, <1>3, <1>5, <1>6, DoneIs
  <2> HIDE DEF e, e_
  <2>2. c \notin Needed(t, r, e)
    BY <1>6, NeededNames
  <2> QED BY <1>2, <2>1, <2>2 DEF L, e, e_
<1>7. CASE t = c.type /\ r.name = c.on
  <2>1. s = r
    BY <1>4, <1>7 DEF Serves, load, EntriesDiffer
  <2>2. t # "policies"
    BY DEF Entities
  <2>3. e_ = Changed(e, c)
    BY <1>1, <1>3, <1>5, <1>7, <2>2, DoneIs
  <2>4. /\ c.fn = "create" => ~ e.there
        /\ c.fn \notin {"create", "create_instance_profile", "delete_instance_profile"} => e.there
    BY <1>1, <1>3, <1>7, AcceptedServing
  <2> HIDE DEF e, e_
  <2>5. /\ Needed(t, r, e_) \subseteq Needed(t, r, e) \ {c}
        /\ e_.there = (e.there \/ c.fn = "create")
        /\ e.there => e_.path = e.path
    BY <1>4, <1>5, <1>7, <2>1, <2>3, <2>4, NeedShrinks DEF IsEntry
  <2>6. Elsewhere(r, e) => Elsewhere(r, e_)
    BY <1>5, <2>5 DEF Elsewhere, IsEntity
  <2> QED BY <1>2, <2>5, <2>6 DEF L, e, e_
<1> QED BY <1>6, <1>7

\* A call of a removal deletes what it names, or leaves it to be deleted.
LEMMA RemovalKeepsPlan ==
    ASSUME Sound, Does, cmd.op = "remove", NEW t \in Types, NEW n \in Removed[t],
           ~ iam[t][n].there \/ Deletion(t, n) \subseteq ToSet(cmd.plan)
    PROVE  ~ iam'[t][n].there \/ Deletion(t, n) \subseteq ToSet(Tail(cmd.plan))
<1> DEFINE c  == cmd.plan[1]
           e  == iam[t][n]
           e_ == iam'[t][n]
           L  == ToSet(Tail(cmd.plan))
<1>1. /\ IsAccount(iam) /\ Purposeful(cmd)
      /\ c.on \in NamesOf[c.type] /\ Accepted(c) /\ iam' = Done(c)
  BY DEF Sound, Does
<1>2. c \in ToSet(cmd.plan) /\ ToSet(cmd.plan) = L \cup {c}
  BY <1>1, FirstCall DEF Does
<1>3. IsCall(c) /\ c.type \in Types /\ Removes(c)
  BY <1>1, <1>2, PlannedCalls DEF Purposeful
<1>4. n \in NamesOf[t]
  BY IamAssumption
<1> HIDE DEF c, L
<1>5. CASE t # c.type \/ n # c.on
  <2>1. e_ = e
    BY <1>1, <1>3, <1>4, <1>5, DoneIs
  <2>2. c \notin Deletion(t, n)
    BY <1>5, CallParts DEF Deletion
  <2> QED BY <1>2, <2>1, <2>2 DEF L
<1>6. CASE t = c.type /\ n = c.on /\ c.fn = "delete"
  <2>1. e_ = IF t = "policies" THEN ChangedPolicy(e, c) ELSE Changed(e, c)
    BY <1>1, <1>3, <1>4, <1>6, DoneIs
  <2>2. ~ e_.there
    BY <1>6, <2>1 DEF ChangedPolicy, Changed, NoPolicy, NoEntity
  <2> QED BY <2>2
<1>7. CASE t = c.type /\ n = c.on /\ c.fn # "delete"
  <2>1. c \notin Deletion(t, n)
    BY <1>7, CallParts DEF Deletion
  <2>2. CASE e.there
    BY <1>2, <2>1, <2>2 DEF L
  <2>3. CASE ~ e.there /\ t = "policies"
    <3>1. c.fn = "delete_version" /\ AcceptedOfPolicy(c)
      BY <1>1, <1>3, <1>7, <2>3 DEF Removes, functions, Entities, Accepted
    <3>2. e_ = ChangedPolicy(e, c)
      BY <1>1, <1>3, <1>4, <1>7, <2>3, DoneIs
    <3>3. IsPolicy(e) /\ c.arg # e.default
      BY <1>1, <1>4, <1>7, <2>3, <3>1 DEF IsAccount, NamesOf, AcceptedOfPolicy
    <3> HIDE DEF e, e_
    <3>4. ~ e_.there
      BY <2>3, <3>1, <3>2, <3>3, PolicyStep
    <3> QED BY <3>4 DEF e_
  <2>4. CASE ~ e.there /\ t \in Entities
    <3>1. c.fn = "delete_instance_profile"
      BY <1>1, <1>3, <1>7, <2>4, AcceptedServing DEF Removes
    <3>2. e_ = Changed(e, c) /\ IsEntity(e)
      <4>1. t # "policies"
        BY <2>4 DEF Entities
      <4>2. IsEntity(e)
        BY <1>1, <1>4, <2>4, AccountParts
      <4>3. e_ = Changed(e, c)
        BY <1>1, <1>3, <1>4, <1>7, <4>1, DoneIs
      <4> QED BY <4>2, <4>3
    <3> HIDE DEF e, e_
    <3>3. e_ = e
      BY <3>1, <3>2, ChangedIs
    <3> QED BY <2>4, <3>3 DEF e, e_
  <2> QED BY <2>2, <2>3, <2>4 DEF Types, Entities
<1> QED BY <1>5, <1>6, <1>7

LEMMA KeptNext ==
    ASSUME AllTypesGiven, EntriesDiffer
    PROVE  Sound /\ Kept(iam, cmd) /\ [Next]_vars => Kept(iam, cmd)'
<1> SUFFICES ASSUME Sound, Kept(iam, cmd), [Next]_vars PROVE Kept(iam', cmd')
  OBVIOUS
<1>1. Purposeful(cmd) /\ IsAccount(iam)
  BY DEF Sound
<1>2. CASE UNCHANGED vars
  BY <1>2 DEF vars
<1>3. CASE Rests
  BY <1>3 DEF Rests, Kept, Idle
<1>4. CASE Imports
  <2>1. PICK order \in Orders, dry \in BOOLEAN :
          IsCommand(cmd', "import", dry, TRUE, ItemsToImport(order), << >>)
    BY <1>4 DEF Imports
  <2>2. ToSet(ItemsToImport(order)) = Types \X {"all"}
    BY ItemsOfImport DEF AllTypesGiven
  <2>3. Entities \subseteq Types
    BY DEF Entities, Types
  <2> QED BY <2>1, <2>2, <2>3 DEF Kept, IsCommand
<1>5. CASE StartsRemoving
  <2>1. PICK order \in Orders, dry \in BOOLEAN :
          IsCommand(cmd', "remove", dry, TRUE, ItemsToRemove(order), << >>)
    BY <1>5 DEF StartsRemoving
  <2>2. \A t \in Types : \A n \in Removed[t] : <<t, n>> \in ToSet(ItemsToRemove(order))
    BY ItemsOfRemove DEF AllTypesGiven
  <2> QED BY <2>1, <2>2 DEF Kept, IsCommand
<1>6. CASE Plans
  <2> DEFINE item == cmd.items[1]
             plan == IF cmd.op = "import" THEN update_aws(item[1]) ELSE remove(item[1], item[2])
  <2>1. /\ iam' = iam /\ cmd.plan = << >> /\ cmd.items # << >>
        /\ IsCommand(cmd', cmd.op, cmd.dry, cmd.clean, Tail(cmd.items), plan)
    BY <1>6 DEF Plans
  <2>2. ToSet(cmd.items) = ToSet(Tail(cmd.items)) \cup {item}
    BY <1>1, <2>1, FirstItem
  <2>3. ToSet(cmd.plan) = {}
    BY <2>1 DEF ToSet
  <2>4. /\ cmd'.op = cmd.op /\ cmd'.dry = cmd.dry /\ cmd'.clean = cmd.clean
        /\ cmd'.items = Tail(cmd.items) /\ cmd'.plan = plan
    BY <2>1 DEF IsCommand
  <2>5. ASSUME cmd.op = "import", cmd.clean, ~ cmd.dry, NEW t \in Entities,
               <<t, "all">> \notin ToSet(Tail(cmd.items)), NEW r \in load(t)
        PROVE  \/ Elsewhere(r, iam[t][r.name])
               \/ Needed(t, r, iam[t][r.name]) \subseteq ToSet(plan)
    <3>1. CASE item = <<t, "all">>
      <4>1. plan = update_aws(t) /\ t \in Types
        BY <2>5, <3>1 DEF Entities, Types
      <4> HIDE DEF plan
      <4> QED BY <1>1, <4>1, ImportPlan
    <3>2. CASE item # <<t, "all">>
      <4>1. <<t, "all">> \notin ToSet(cmd.items)
        BY <2>2, <2>5, <3>2
      <4> HIDE DEF plan
      <4>2. Elsewhere(r, iam[t][r.name]) \/ Needed(t, r, iam[t][r.name]) \subseteq ToSet(cmd.plan)
        BY <2>5, <4>1 DEF Kept
      <4> QED BY <2>3, <4>2
    <3> QED BY <3>1, <3>2
  <2>6. ASSUME cmd.op = "remove", ~ cmd.dry, NEW t \in Types, NEW n \in Removed[t],
               <<t, n>> \notin ToSet(Tail(cmd.items))
        PROVE  ~ iam[t][n].there \/ Deletion(t, n) \subseteq ToSet(plan)
    <3>1. CASE item = <<t, n>>
      <4>1. plan = remove(t, n)
        BY <2>6, <3>1
      <4>2. n \in NamesOf[t]
        BY IamAssumption
      <4> HIDE DEF plan
      <4> QED BY <1>1, <4>1, <4>2, RemovalPlan
    <3>2. CASE item # <<t, n>>
      <4>1. <<t, n>> \notin ToSet(cmd.items)
        BY <2>2, <2>6, <3>2
      <4> HIDE DEF plan
      <4>2. ~ iam[t][n].there \/ Deletion(t, n) \subseteq ToSet(cmd.plan)
        BY <2>6, <4>1 DEF Kept
      <4> QED BY <2>3, <4>2
    <3> QED BY <3>1, <3>2
  <2> HIDE DEF item, plan
  <2> QED BY <2>1, <2>4, <2>5, <2>6 DEF Kept
<1>7. CASE Prints
  BY <1>7 DEF Prints, Kept, IsCommand
<1>8. CASE Catches
  BY <1>8 DEF Catches, Kept, IsCommand
<1>9. CASE Does
  <2>1. /\ cmd'.op = cmd.op /\ cmd'.dry = cmd.dry /\ cmd'.clean = cmd.clean
        /\ cmd'.items = cmd.items /\ cmd'.plan = Tail(cmd.plan)
    BY <1>9 DEF Does, IsCommand
  <2>2. ASSUME cmd.op = "import", cmd.clean, ~ cmd.dry, NEW t \in Entities,
               <<t, "all">> \notin ToSet(cmd.items), NEW r \in load(t)
        PROVE  \/ Elsewhere(r, iam'[t][r.name])
               \/ Needed(t, r, iam'[t][r.name]) \subseteq ToSet(Tail(cmd.plan))
    <3>1. Elsewhere(r, iam[t][r.name]) \/ Needed(t, r, iam[t][r.name]) \subseteq ToSet(cmd.plan)
      BY <2>2 DEF Kept
    <3> QED BY <1>9, <2>2, <3>1, ImportKeepsPlan
  <2>3. ASSUME cmd.op = "remove", ~ cmd.dry, NEW t \in Types, NEW n \in Removed[t],
               <<t, n>> \notin ToSet(cmd.items)
        PROVE  ~ iam'[t][n].there \/ Deletion(t, n) \subseteq ToSet(Tail(cmd.plan))
    <3>1. ~ iam[t][n].there \/ Deletion(t, n) \subseteq ToSet(cmd.plan)
      BY <2>3 DEF Kept
    <3> QED BY <1>9, <2>3, <3>1, RemovalKeepsPlan
  <2> QED BY <2>1, <2>2, <2>3 DEF Kept
<1> QED BY <1>1, <1>2, <1>3, <1>4, <1>5, <1>6, <1>7, <1>8, <1>9, Steps

\* A command that ends without having printed an error has done what it was
\* asked, whatever was done or left half done by the commands before it: groups
\* and roles of the list are as in the file, or what was to be removed is gone.
THEOREM WordsAreKept ==
    ASSUME AllTypesGiven, EntriesDiffer
    PROVE  Spec => []CommandsKeepTheirWord
<1>1. Init => Kept(iam, cmd)
  BY DEF Init, Kept, Idle
<1>2. Sound /\ Kept(iam, cmd) /\ [Next]_vars => Kept(iam, cmd)'
  BY KeptNext
<1>3. Sound /\ Kept(iam, cmd) => CommandsKeepTheirWord
  BY KeptIsEnough
<1> QED BY <1>1, <1>2, <1>3, SoundInvariant, PTL DEF Spec

================================================================================
