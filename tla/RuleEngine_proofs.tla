-------------------------- MODULE RuleEngine_proofs --------------------------
(***************************************************************************)
(* What the operators of RuleEngine keep.                                  *)
(*                                                                         *)
(* A rule is evaluated one condition after the other.  G says what holds   *)
(* after each of them: if no condition leads out of G, neither does the    *)
(* evaluation.  As G is a function, not an operator, this is a fact of     *)
(* first-order logic, and proved by taking the least place where it fails. *)
(***************************************************************************)
EXTENDS RuleEngine, FiniteSetTheorems, SequenceTheorems, WellFoundedInduction, TLAPS

\* A set of numbers has a least one.
LEMMA LeastExists ==
    ASSUME NEW T \in SUBSET Nat, T # {}
    PROVE  \E m \in T : \A k \in T : m <= k
<1>1. PICK x \in T : \A y \in T : ~(<<y, x>> \in OpToRel(<, Nat))
  BY NatLessThanWellFounded, WFMin, Zenon
<1>2. \A y \in T : x <= y
  <2> TAKE y \in T
  <2>1. x \in Nat /\ y \in Nat
    OBVIOUS
  <2>2. ~(y < x)
    BY <1>1, <2>1 DEF OpToRel
  <2> QED BY <2>1, <2>2
<1> QED BY <1>2

\* Induction from 0 to n.
LEMMA UpTo ==
    ASSUME NEW n \in Nat, NEW T, 0 \in T, \A i \in 1 .. n : i - 1 \in T => i \in T
    PROVE  0 .. n \subseteq T
<1> DEFINE rest == (0 .. n) \ T
<1> SUFFICES ASSUME rest # {} PROVE FALSE
  OBVIOUS
<1>1. rest \in SUBSET Nat
  OBVIOUS
<1>2. PICK m \in rest : \A k \in rest : m <= k
  <2> HIDE DEF rest
  <2> QED BY <1>1, LeastExists
<1>3. m \in 1 .. n /\ m - 1 \in 0 .. n
  BY <1>2
<1>4. m - 1 \in T
  <2>1. ~(m <= m - 1)
    BY <1>3
  <2> QED BY <1>2, <1>3, <2>1
<1> QED BY <1>2, <1>3, <1>4

\* f is the recursion that starts at s0 and takes n steps.
IsChain(f, n, s0, step) ==
    f = [i \in 0 .. n |-> IF i = 0 THEN s0 ELSE step[<<i, f[i - 1]>>]]

\* A recursion that goes from each G[i - 1] to G[i] has a solution ...
LEMMA ChainExists ==
    ASSUME NEW n \in Nat, NEW G, NEW step, NEW s0 \in G[0],
           \A i \in 1 .. n : \A s \in G[i - 1] : step[<<i, s>>] \in G[i]
    PROVE  \E f : IsChain(f, n, s0, step) /\ \A i \in 0 .. n : f[i] \in G[i]
<1> USE DEF IsChain
<1> DEFINE Solves(f, k) ==
             /\ f = [i \in 0 .. k |-> IF i = 0 THEN s0 ELSE step[<<i, f[i - 1]>>]]
             /\ \A i \in 0 .. k : f[i] \in G[i]
           T == {k \in 0 .. n : \E f : Solves(f, k)}
<1>1. 0 \in T
  <2> DEFINE f == [i \in 0 .. 0 |-> s0]
  <2>1. f = [i \in 0 .. 0 |-> IF i = 0 THEN s0 ELSE step[<<i, f[i - 1]>>]]
    OBVIOUS
  <2>2. \A i \in 0 .. 0 : f[i] \in G[i]
    OBVIOUS
  <2>3. Solves(f, 0)
    BY <2>1, <2>2
  <2> HIDE DEF f, Solves
  <2> QED BY <2>3
<1>2. ASSUME NEW i \in 1 .. n, i - 1 \in T PROVE i \in T
  <2>1. PICK f : Solves(f, i - 1)
    BY <1>2
  <2> DEFINE g == [j \in 0 .. i |-> IF j = i THEN step[<<i, f[i - 1]>>] ELSE f[j]]
  <2>2. ASSUME NEW j \in 0 .. i
        PROVE  /\ g[j] = IF j = 0 THEN s0 ELSE step[<<j, g[j - 1]>>]
               /\ g[j] \in G[j]
    <3>1. CASE j = i
      <4>1. i - 1 \in 0 .. i - 1 /\ i # 0 /\ i - 1 # i /\ i - 1 \in 0 .. i
        OBVIOUS
      <4>2. g[i - 1] = f[i - 1] /\ f[i - 1] \in G[i - 1]
        BY <2>1, <4>1
      <4> QED BY <3>1, <4>1, <4>2
    <3>2. CASE j # i
      <4>1. j \in 0 .. i - 1 /\ j - 1 # i /\ (j # 0 => j - 1 \in 0 .. i)
        BY <3>2
      <4>2. g[j] = f[j] /\ (j # 0 => g[j - 1] = f[j - 1])
        BY <3>2, <4>1
      <4>3. f[j] = IF j = 0 THEN s0 ELSE step[<<j, f[j - 1]>>]
        BY <2>1, <4>1
      <4> QED BY <2>1, <4>1, <4>2, <4>3
    <3> QED BY <3>1, <3>2
  <2>3. g = [j \in 0 .. i |-> IF j = 0 THEN s0 ELSE step[<<j, g[j - 1]>>]]
    <3>1. g = [j \in 0 .. i |-> g[j]]
      OBVIOUS
    <3> HIDE DEF g
    <3> QED BY <2>2, <3>1
  <2>4. Solves(g, i)
    <3> HIDE DEF g
    <3> QED BY <2>2, <2>3
  <2> HIDE DEF g, Solves
  <2> QED BY <2>4
<1> HIDE DEF T
<1>3. 0 .. n \subseteq T
  BY <1>1, <1>2, UpTo
<1> QED BY <1>3 DEF T

\* ... and each of its solutions stays in G.
LEMMA ChainStays ==
    ASSUME NEW n \in Nat, NEW G, NEW f, f[0] \in G[0],
           \A i \in 1 .. n : f[i - 1] \in G[i - 1] => f[i] \in G[i]
    PROVE  \A i \in 0 .. n : f[i] \in G[i]
<1> DEFINE T == {i \in 0 .. n : f[i] \in G[i]}
<1>1. 0 \in T /\ \A i \in 1 .. n : i - 1 \in T => i \in T
  OBVIOUS
<1> HIDE DEF T
<1>2. 0 .. n \subseteq T
  BY <1>1, UpTo
<1> QED BY <1>2 DEF T

-----------------------------------------------------------------------------
LEMMA EvalAllStays ==
    ASSUME NEW conditions, Len(conditions) \in Nat, NEW event, NEW now, NEW so, NEW G,
           Holding(so, TRUE) \in G[0],
           \A i \in 1 .. Len(conditions) : \A s \in G[i - 1] :
              EvalNext(conditions[i], event, now, s) \in G[i]
    PROVE  EvalAll(conditions, event, now, so) \in G[Len(conditions)]
<1> DEFINE n == Len(conditions)
           s0 == Holding(so, TRUE)
           F(f) == [i \in 0 .. n |-> IF i = 0 THEN s0 ELSE EvalNext(conditions[i], event, now, f[i - 1])]
           after == CHOOSE f : f = F(f)
           U == UNION {G[i] : i \in 0 .. n}
           step == [p \in (1 .. n) \X U |-> EvalNext(conditions[p[1]], event, now, p[2])]
<1>1. \A i \in 1 .. n : \A s \in G[i - 1] :
        step[<<i, s>>] = EvalNext(conditions[i], event, now, s) /\ step[<<i, s>>] \in G[i]
  <2> TAKE i \in 1 .. n
  <2> TAKE s \in G[i - 1]
  <2>1. s \in U
    <3>1. i - 1 \in 0 .. n
      OBVIOUS
    <3> QED BY <3>1
  <2> HIDE DEF U
  <2>2. step[<<i, s>>] = EvalNext(conditions[i], event, now, s)
    BY <2>1
  <2> QED BY <2>2
<1>2. PICK f : IsChain(f, n, s0, step) /\ \A i \in 0 .. n : f[i] \in G[i]
  <2> HIDE DEF step, s0, n
  <2>1. n \in Nat /\ s0 \in G[0]
    BY DEF n, s0
  <2>2. \A i \in 1 .. n : \A s \in G[i - 1] : step[<<i, s>>] \in G[i]
    BY <1>1
  <2> QED BY <2>1, <2>2, ChainExists
<1>3. f = F(f)
  <2>1. ASSUME NEW i \in 0 .. n, i # 0
        PROVE  step[<<i, f[i - 1]>>] = EvalNext(conditions[i], event, now, f[i - 1])
    <3>1. i \in 1 .. n /\ i - 1 \in 0 .. n
      BY <2>1
    <3> HIDE DEF step
    <3> QED BY <1>1, <1>2, <3>1
  <2> HIDE DEF step, s0, n
  <2> QED BY <1>2, <2>1 DEF IsChain
<1>4. after = F(after)
  <2> HIDE DEF F
  <2> QED BY <1>3
<1>5. after[0] = s0 /\ \A i \in 1 .. n : after[i] = EvalNext(conditions[i], event, now, after[i - 1])
  <2>1. n \in Nat
    OBVIOUS
  <2> HIDE DEF after, s0, n
  <2>2. after[0] = s0
    BY <1>4, <2>1
  <2>3. ASSUME NEW i \in 1 .. n
        PROVE  after[i] = EvalNext(conditions[i], event, now, after[i - 1])
    <3>1. i \in 0 .. n /\ i # 0
      BY <2>1
    <3> QED BY <1>4, <3>1
  <2> QED BY <2>2, <2>3
<1>6. \A i \in 0 .. n : after[i] \in G[i]
  <2> HIDE DEF after, s0, n
  <2>1. n \in Nat /\ s0 \in G[0]
    BY DEF n, s0
  <2>2. \A i \in 1 .. n : after[i - 1] \in G[i - 1] => after[i] \in G[i]
    BY <1>5 DEF n
  <2> QED BY <1>5, <2>1, <2>2, ChainStays
<1>7. EvalAll(conditions, event, now, so) = after[n]
  BY DEF EvalAll
<1>8. after[n] \in G[n]
  <2> HIDE DEF after
  <2> QED BY <1>6
<1> QED
  <2> HIDE DEF after
  <2> QED BY <1>7, <1>8

LEMMA EvalGroupStays ==
    ASSUME NEW group, Len(group.conditions) \in Nat, NEW event, NEW now, NEW so, NEW G,
           Holding(so, group.logic # "or") \in G[0],
           \A i \in 1 .. Len(group.conditions) : \A s \in G[i - 1] :
              EvalJoined(group.conditions[i], group.logic, event, now, s) \in G[i]
    PROVE  EvalGroup(group, event, now, so) \in G[Len(group.conditions)]
<1> DEFINE n == Len(group.conditions)
           s0 == Holding(so, group.logic # "or")
           F(f) == [i \in 0 .. n |-> IF i = 0 THEN s0 ELSE EvalJoined(group.conditions[i], group.logic, event, now, f[i - 1])]
           after == CHOOSE f : f = F(f)
           U == UNION {G[i] : i \in 0 .. n}
           step == [p \in (1 .. n) \X U |-> EvalJoined(group.conditions[p[1]], group.logic, event, now, p[2])]
<1>1. \A i \in 1 .. n : \A s \in G[i - 1] :
        step[<<i, s>>] = EvalJoined(group.conditions[i], group.logic, event, now, s) /\ step[<<i, s>>] \in G[i]
  <2> TAKE i \in 1 .. n
  <2> TAKE s \in G[i - 1]
  <2>1. s \in U
    <3>1. i - 1 \in 0 .. n
      OBVIOUS
    <3> QED BY <3>1
  <2> HIDE DEF U
  <2>2. step[<<i, s>>] = EvalJoined(group.conditions[i], group.logic, event, now, s)
    BY <2>1
  <2> QED BY <2>2
<1>2. PICK f : IsChain(f, n, s0, step) /\ \A i \in 0 .. n : f[i] \in G[i]
  <2> HIDE DEF step, s0, n
  <2>1. n \in Nat /\ s0 \in G[0]
    BY DEF n, s0
  <2>2. \A i \in 1 .. n : \A s \in G[i - 1] : step[<<i, s>>] \in G[i]
    BY <1>1
  <2> QED BY <2>1, <2>2, ChainExists
<1>3. f = F(f)
  <2>1. ASSUME NEW i \in 0 .. n, i # 0
        PROVE  step[<<i, f[i - 1]>>] = EvalJoined(group.conditions[i], group.logic, event, now, f[i - 1])
    <3>1. i \in 1 .. n /\ i - 1 \in 0 .. n
      BY <2>1
    <3> HIDE DEF step
    <3> QED BY <1>1, <1>2, <3>1
  <2> HIDE DEF step, s0, n
  <2> QED BY <1>2, <2>1 DEF IsChain
<1>4. after = F(after)
  <2> HIDE DEF F
  <2> QED BY <1>3
<1>5. after[0] = s0 /\ \A i \in 1 .. n : after[i] = EvalJoined(group.conditions[i], group.logic, event, now, after[i - 1])
  <2>1. n \in Nat
    OBVIOUS
  <2> HIDE DEF after, s0, n
  <2>2. after[0] = s0
    BY <1>4, <2>1
  <2>3. ASSUME NEW i \in 1 .. n
        PROVE  after[i] = EvalJoined(group.conditions[i], group.logic, event, now, after[i - 1])
    <3>1. i \in 0 .. n /\ i # 0
      BY <2>1
    <3> QED BY <1>4, <3>1
  <2> QED BY <2>2, <2>3
<1>6. \A i \in 0 .. n : after[i] \in G[i]
  <2> HIDE DEF after, s0, n
  <2>1. n \in Nat /\ s0 \in G[0]
    BY DEF n, s0
  <2>2. \A i \in 1 .. n : after[i - 1] \in G[i - 1] => after[i] \in G[i]
    BY <1>5 DEF n
  <2> QED BY <1>5, <2>1, <2>2, ChainStays
<1>7. EvalGroup(group, event, now, so) = after[n]
  BY DEF EvalGroup
<1>8. after[n] \in G[n]
  <2> HIDE DEF after
  <2> QED BY <1>6
<1> QED
  <2> HIDE DEF after
  <2> QED BY <1>7, <1>8

LEMMA EvalGroupsStays ==
    ASSUME NEW groups, Len(groups) \in Nat, NEW event, NEW now, NEW so, NEW G,
           so \in G[0],
           \A i \in 1 .. Len(groups) : \A s \in G[i - 1] :
              EvalNextGroup(groups[i], event, now, s) \in G[i]
    PROVE  EvalGroups(groups, event, now, so) \in G[Len(groups)]
<1> DEFINE n == Len(groups)
           s0 == so
           F(f) == [i \in 0 .. n |-> IF i = 0 THEN s0 ELSE EvalNextGroup(groups[i], event, now, f[i - 1])]
           after == CHOOSE f : f = F(f)
           U == UNION {G[i] : i \in 0 .. n}
           step == [p \in (1 .. n) \X U |-> EvalNextGroup(groups[p[1]], event, now, p[2])]
<1>1. \A i \in 1 .. n : \A s \in G[i - 1] :
        step[<<i, s>>] = EvalNextGroup(groups[i], event, now, s) /\ step[<<i, s>>] \in G[i]
  <2> TAKE i \in 1 .. n
  <2> TAKE s \in G[i - 1]
  <2>1. s \in U
    <3>1. i - 1 \in 0 .. n
      OBVIOUS
    <3> QED BY <3>1
  <2> HIDE DEF U
  <2>2. step[<<i, s>>] = EvalNextGroup(groups[i], event, now, s)
    BY <2>1
  <2> QED BY <2>2
<1>2. PICK f : IsChain(f, n, s0, step) /\ \A i \in 0 .. n : f[i] \in G[i]
  <2> HIDE DEF step, s0, n
  <2>1. n \in Nat /\ s0 \in G[0]
    BY DEF n, s0
  <2>2. \A i \in 1 .. n : \A s \in G[i - 1] : step[<<i, s>>] \in G[i]
    BY <1>1
  <2> QED BY <2>1, <2>2, ChainExists
<1>3. f = F(f)
  <2>1. ASSUME NEW i \in 0 .. n, i # 0
        PROVE  step[<<i, f[i - 1]>>] = EvalNextGroup(groups[i], event, now, f[i - 1])
    <3>1. i \in 1 .. n /\ i - 1 \in 0 .. n
      BY <2>1
    <3> HIDE DEF step
    <3> QED BY <1>1, <1>2, <3>1
  <2> HIDE DEF step, s0, n
  <2> QED BY <1>2, <2>1 DEF IsChain
<1>4. after = F(after)
  <2> HIDE DEF F
  <2> QED BY <1>3
<1>5. after[0] = s0 /\ \A i \in 1 .. n : after[i] = EvalNextGroup(groups[i], event, now, after[i - 1])
  <2>1. n \in Nat
    OBVIOUS
  <2> HIDE DEF after, s0, n
  <2>2. after[0] = s0
    BY <1>4, <2>1
  <2>3. ASSUME NEW i \in 1 .. n
        PROVE  after[i] = EvalNextGroup(groups[i], event, now, after[i - 1])
    <3>1. i \in 0 .. n /\ i # 0
      BY <2>1
    <3> QED BY <1>4, <3>1
  <2> QED BY <2>2, <2>3
<1>6. \A i \in 0 .. n : after[i] \in G[i]
  <2> HIDE DEF after, s0, n
  <2>1. n \in Nat /\ s0 \in G[0]
    BY DEF n, s0
  <2>2. \A i \in 1 .. n : after[i - 1] \in G[i - 1] => after[i] \in G[i]
    BY <1>5 DEF n
  <2> QED BY <1>5, <2>1, <2>2, ChainStays
<1>7. EvalGroups(groups, event, now, so) = after[n]
  BY DEF EvalGroups
<1>8. after[n] \in G[n]
  <2> HIDE DEF after
  <2> QED BY <1>6
<1> QED
  <2> HIDE DEF after
  <2> QED BY <1>7, <1>8

-----------------------------------------------------------------------------
(* Q maps the places that were passed to what may hold after them.  It      *)
(* bears a change of the truth value, more places, and a new place.         *)
IsInvariant(rule, event, now, Q) ==
    /\ \A A \in SUBSET PlacesOf(rule) : \A s \in Q[A], h \in BOOLEAN : Holding(s, h) \in Q[A]
    /\ \A A, B \in SUBSET PlacesOf(rule) : A \subseteq B => Q[A] \subseteq Q[B]
    /\ \A A \in SUBSET PlacesOf(rule), p \in PlacesOf(rule) : p \notin A =>
         \A s \in Q[A] : EvalCondition(ListOf(rule, p[1])[p[2]], event, now, s) \in Q[A \cup {p}]

LEMMA SequenceFacts ==
    ASSUME NEW s, IsSequence(s)
    PROVE  Len(s) \in Nat /\ DOMAIN s = 1 .. Len(s)
  BY DEF IsSequence

LEMMA PlaceFacts ==
    ASSUME NEW rule, IsRule(rule), NEW g \in 0 .. Len(rule.condition_groups)
    PROVE  /\ Len(ListOf(rule, g)) \in Nat
           /\ \A k \in 1 .. Len(ListOf(rule, g)) : <<g, k>> \in PlacesOf(rule)
           /\ \A k : <<g, k>> \in PlacesOf(rule) => k \in 1 .. Len(ListOf(rule, g))
<1>1. Len(rule.condition_groups) \in Nat /\ DOMAIN rule.condition_groups = 1 .. Len(rule.condition_groups)
  BY SequenceFacts DEF IsRule
<1>2. IsSequence(ListOf(rule, g))
  <2>1. CASE g = 0
    BY <2>1 DEF ListOf, IsRule
  <2>2. CASE g # 0
    <3>1. g \in DOMAIN rule.condition_groups
      BY <1>1, <2>2
    <3> QED BY <2>2, <3>1 DEF ListOf, IsRule
  <2> QED BY <2>1, <2>2
<1>3. Len(ListOf(rule, g)) \in Nat /\ DOMAIN ListOf(rule, g) = 1 .. Len(ListOf(rule, g))
  BY <1>2, SequenceFacts
<1> QED BY <1>3 DEF PlacesOf

\* From before one place to after it, in a list that stops where it fails ...
LEMMA NextStays ==
    ASSUME NEW rule, NEW event, NEW now, NEW Q, IsInvariant(rule, event, now, Q),
           NEW A \in SUBSET PlacesOf(rule), NEW p \in PlacesOf(rule), p \notin A, NEW s \in Q[A]
    PROVE  EvalNext(ListOf(rule, p[1])[p[2]], event, now, s) \in Q[A \cup {p}]
<1> DEFINE c == ListOf(rule, p[1])[p[2]]
<1>1. EvalCondition(c, event, now, s) \in Q[A \cup {p}]
  BY DEF IsInvariant
<1>2. A \cup {p} \in SUBSET PlacesOf(rule) /\ A \subseteq A \cup {p}
  OBVIOUS
<1>3. s \in Q[A \cup {p}]
  BY <1>2 DEF IsInvariant
<1> HIDE DEF c
<1> QED BY <1>1, <1>3 DEF EvalNext, c

\* ... and in a group.
LEMMA JoinedStays ==
    ASSUME NEW rule, NEW event, NEW now, NEW Q, IsInvariant(rule, event, now, Q),
           NEW A \in SUBSET PlacesOf(rule), NEW p \in PlacesOf(rule), p \notin A, NEW s \in Q[A],
           NEW logic
    PROVE  EvalJoined(ListOf(rule, p[1])[p[2]], logic, event, now, s) \in Q[A \cup {p}]
<1> DEFINE c == ListOf(rule, p[1])[p[2]]
           result == EvalCondition(c, event, now, s)
           h == IF logic = "or" THEN s.holds \/ result.holds ELSE s.holds /\ result.holds
<1>1. result \in Q[A \cup {p}]
  BY DEF IsInvariant
<1>2. A \cup {p} \in SUBSET PlacesOf(rule) /\ A \subseteq A \cup {p}
  OBVIOUS
<1>3. s \in Q[A \cup {p}]
  BY <1>2 DEF IsInvariant
<1>4. h \in BOOLEAN
  OBVIOUS
<1>5. Holding(result, h) \in Q[A \cup {p}]
  <2> HIDE DEF result, h
  <2> QED BY <1>1, <1>2, <1>4 DEF IsInvariant
<1>6. EvalJoined(c, logic, event, now, s) = IF s.raised THEN s ELSE Holding(result, h)
  BY DEF EvalJoined
<1> HIDE DEF c, result, h
<1> QED BY <1>3, <1>5, <1>6 DEF c

LEMMA AllStays ==
    ASSUME NEW rule, IsRule(rule), NEW event, NEW now, NEW Q, IsInvariant(rule, event, now, Q),
           NEW s \in Q[{}]
    PROVE  EvalAll(rule.when, event, now, s) \in Q[PlacesOf(rule)]
<1> DEFINE n == Len(rule.when)
           passed(k) == {<<0, j>> : j \in 1 .. k}
           G == [k \in 0 .. n |-> Q[passed(k)]]
<1>1. n \in Nat /\ ListOf(rule, 0) = rule.when /\ 0 \in 0 .. Len(rule.condition_groups)
  BY SequenceFacts DEF IsRule, ListOf
<1>2. \A k \in 0 .. n : passed(k) \in SUBSET PlacesOf(rule)
  BY <1>1, PlaceFacts
<1>3. Holding(s, TRUE) \in G[0]
  <2>1. passed(0) = {}
    OBVIOUS
  <2>2. G[0] = Q[{}]
    BY <1>1, <2>1
  <2>3. {} \in SUBSET PlacesOf(rule)
    OBVIOUS
  <2> QED BY <2>2, <2>3 DEF IsInvariant
<1>4. ASSUME NEW k \in 1 .. n, NEW t \in G[k - 1]
      PROVE  EvalNext(rule.when[k], event, now, t) \in G[k]
  <2>1. k - 1 \in 0 .. n /\ k \in 0 .. n
    BY <1>1
  <2>2. t \in Q[passed(k - 1)]
    BY <1>4, <2>1
  <2>3. <<0, k>> \in PlacesOf(rule)
    BY <1>1, PlaceFacts
  <2>4. <<0, k>> \notin passed(k - 1) /\ passed(k - 1) \cup {<<0, k>>} = passed(k)
    BY <1>1
  <2>5. passed(k - 1) \in SUBSET PlacesOf(rule)
    BY <1>2, <2>1
  <2>6. G[k] = Q[passed(k)]
    BY <2>1
  <2> HIDE DEF passed, G
  <2>7. EvalNext(ListOf(rule, <<0, k>>[1])[<<0, k>>[2]], event, now, t) \in Q[passed(k - 1) \cup {<<0, k>>}]
    BY <2>2, <2>3, <2>4, <2>5, NextStays
  <2> QED BY <1>1, <2>4, <2>6, <2>7
<1>5. EvalAll(rule.when, event, now, s) \in G[n]
  <2> HIDE DEF G
  <2> QED BY <1>1, <1>3, <1>4, EvalAllStays
<1>6. G[n] = Q[passed(n)] /\ passed(n) \in SUBSET PlacesOf(rule)
  BY <1>1, <1>2
<1> HIDE DEF G, n, passed
<1> QED BY <1>5, <1>6 DEF IsInvariant

\* The places of a list.
Row(rule, g) == {<<g, j>> : j \in 1 .. Len(ListOf(rule, g))}

LEMMA GroupStays ==
    ASSUME NEW rule, IsRule(rule), NEW event, NEW now, NEW Q, IsInvariant(rule, event, now, Q),
           NEW g \in 1 .. Len(rule.condition_groups),
           NEW A \in SUBSET PlacesOf(rule), \A p \in A : p[1] < g, NEW s \in Q[A]
    PROVE  EvalGroup(rule.condition_groups[g], event, now, s)
             \in Q[A \cup Row(rule, g)]
<1> DEFINE group == rule.condition_groups[g]
           n == Len(group.conditions)
           passed(k) == A \cup {<<g, j>> : j \in 1 .. k}
           G == [k \in 0 .. n |-> Q[passed(k)]]
<1>1. Len(rule.condition_groups) \in Nat
  BY SequenceFacts DEF IsRule
<1>2. ListOf(rule, g) = group.conditions /\ g \in 0 .. Len(rule.condition_groups)
  BY <1>1 DEF ListOf
<1>3. n \in Nat
  BY <1>2, PlaceFacts
<1>4. \A k \in 0 .. n : passed(k) \in SUBSET PlacesOf(rule)
  <2>1. \A j \in 1 .. n : <<g, j>> \in PlacesOf(rule)
    BY <1>2, PlaceFacts
  <2> HIDE DEF n
  <2> QED BY <1>3, <2>1
<1>5. Holding(s, group.logic # "or") \in G[0]
  <2>1. passed(0) = A
    OBVIOUS
  <2>2. G[0] = Q[passed(0)]
    <3>1. 0 \in 0 .. n
      BY <1>3
    <3> QED BY <3>1
  <2>3. Holding(s, group.logic # "or") \in Q[A]
    <3> HIDE DEF group
    <3> QED BY DEF IsInvariant
  <2> HIDE DEF passed, group, G
  <2> QED BY <2>1, <2>2, <2>3
<1>6. ASSUME NEW k \in 1 .. n, NEW t \in G[k - 1]
      PROVE  EvalJoined(group.conditions[k], group.logic, event, now, t) \in G[k]
  <2>1. k - 1 \in 0 .. n /\ k \in 0 .. n
    BY <1>3
  <2>2. t \in Q[passed(k - 1)]
    BY <1>6, <2>1
  <2>3. <<g, k>> \in PlacesOf(rule)
    BY <1>2, PlaceFacts
  <2>4. <<g, k>> \notin passed(k - 1) /\ passed(k - 1) \cup {<<g, k>>} = passed(k)
    <3>1. <<g, k>> \notin A
      <4>1. <<g, k>> \in A => <<g, k>>[1] < g
        OBVIOUS
      <4> QED BY <4>1, <1>1
    <3> QED BY <1>3, <3>1
  <2>5. passed(k - 1) \in SUBSET PlacesOf(rule)
    BY <1>4, <2>1
  <2>6. G[k] = Q[passed(k)]
    BY <2>1
  <2> HIDE DEF passed, G
  <2>7. EvalJoined(ListOf(rule, <<g, k>>[1])[<<g, k>>[2]], group.logic, event, now, t)
          \in Q[passed(k - 1) \cup {<<g, k>>}]
    BY <2>2, <2>3, <2>4, <2>5, JoinedStays
  <2> QED BY <1>2, <2>4, <2>6, <2>7
<1>7. EvalGroup(group, event, now, s) \in G[n]
  <2> HIDE DEF G, group
  <2> QED BY <1>3, <1>5, <1>6, EvalGroupStays
<1>8. G[n] = Q[passed(n)]
  BY <1>3
<1>9. passed(n) = A \cup Row(rule, g)
  BY <1>2 DEF Row
<1> HIDE DEF G, n, passed
<1> QED BY <1>7, <1>8, <1>9

\* The whole of a rule: G is kept from an empty log to all its places.
LEMMA MatchStays ==
    ASSUME NEW rule, IsRule(rule), NEW event, NEW now, NEW windows,
           NEW Q, IsInvariant(rule, event, now, Q), Fresh(windows) \in Q[{}]
    PROVE  Match(rule, event, now, windows) \in Q[PlacesOf(rule)]
<1> DEFINE groups == rule.condition_groups
           n == Len(groups)
           passed(g) == {p \in PlacesOf(rule) : p[1] \in 1 .. g}
           G == [g \in 0 .. n |-> Q[passed(g)]]
           fresh == Fresh(windows)
<1>1. n \in Nat
  BY SequenceFacts DEF IsRule
<1>2. fresh \in G[0]
  <2>1. passed(0) = {}
    OBVIOUS
  <2> QED BY <1>1, <2>1
<1>3. ASSUME NEW g \in 1 .. n, NEW t \in G[g - 1]
      PROVE  EvalNextGroup(groups[g], event, now, t) \in G[g]
  <2> DEFINE A == passed(g - 1)
             B == A \cup Row(rule, g)
  <2>1. g - 1 \in 0 .. n /\ g \in 0 .. n
    BY <1>1
  <2>2. t \in Q[A]
    BY <1>3, <2>1
  <2>3. A \in SUBSET PlacesOf(rule) /\ (\A p \in A : p[1] < g) /\ A \subseteq passed(g)
    BY <1>1
  <2>4. EvalGroup(groups[g], event, now, t) \in Q[B]
    <3>1. g \in 1 .. Len(rule.condition_groups)
      OBVIOUS
    <3>2. A \in SUBSET PlacesOf(rule) /\ \A p \in A : p[1] < g
      BY <2>3
    <3> HIDE DEF A
    <3>3. EvalGroup(rule.condition_groups[g], event, now, t)
            \in Q[A \cup Row(rule, g)]
      BY <2>2, <3>1, <3>2, GroupStays, Zenon
    <3> QED BY <3>3
  <2>5. B \subseteq passed(g) /\ passed(g) \in SUBSET PlacesOf(rule)
    <3>1. \A j \in 1 .. Len(ListOf(rule, g)) : <<g, j>> \in PlacesOf(rule)
      BY <2>1, PlaceFacts
    <3> QED BY <1>1, <2>3, <3>1 DEF Row
  <2>6. G[g] = Q[passed(g)]
    BY <2>1
  <2>7. Q[B] \subseteq Q[passed(g)] /\ Q[A] \subseteq Q[passed(g)]
    <3> HIDE DEF A, B, passed
    <3>1. B \in SUBSET PlacesOf(rule)
      BY <2>5
    <3> QED BY <2>3, <2>5, <3>1 DEF IsInvariant
  <2> HIDE DEF A, B, G, passed
  <2> QED BY <2>2, <2>4, <2>6, <2>7 DEF EvalNextGroup
<1>4. EvalGroups(groups, event, now, fresh) \in G[n]
  <2> HIDE DEF G, groups, fresh
  <2> QED BY <1>1, <1>2, <1>3, EvalGroupsStays
<1>5. G[n] = Q[passed(n)] /\ passed(n) \in SUBSET PlacesOf(rule)
  BY <1>1
<1>6. Q[passed(n)] \subseteq Q[PlacesOf(rule)]
  <2> HIDE DEF passed
  <2> QED BY <1>5 DEF IsInvariant
<1>7. EvalAll(rule.when, event, now, fresh) \in Q[PlacesOf(rule)]
  <2> HIDE DEF fresh
  <2>1. fresh \in Q[{}]
    BY DEF fresh
  <2> QED BY <2>1, AllStays
<1> HIDE DEF G, passed
<1> QED BY <1>4, <1>5, <1>6, <1>7 DEF Match
-----------------------------------------------------------------------------
(* The times of a key are sorted, so what _WindowCounter pops are the times *)
(* before the cutoff, and all of them.                                      *)
IsSorted(times) == \A i, j \in DOMAIN times : i <= j => times[i] <= times[j]

Since(times, x) == {i \in DOMAIN times : times[i] >= x}

LEMMA SequenceOfNumbers ==
    ASSUME NEW T \in SUBSET Int, NEW times \in Seq(T)
    PROVE  /\ Len(times) \in Nat /\ DOMAIN times = 1 .. Len(times)
           /\ \A i \in 1 .. Len(times) : times[i] \in T /\ times[i] \in Int
<1>1. Len(times) \in Nat /\ times \in [1 .. Len(times) -> T] /\ DOMAIN times = 1 .. Len(times)
  BY LenProperties
<1>2. \A i \in 1 .. Len(times) : times[i] \in T
  BY <1>1
<1> QED BY <1>1, <1>2

\* The upper end of an interval is as long as it has elements.
LEMMA UpperEnd ==
    ASSUME NEW n \in Nat, NEW S \in SUBSET (1 .. n),
           \A i \in S, j \in 1 .. n : i <= j => j \in S
    PROVE  Cardinality(S) \in 0 .. n /\ S = n - Cardinality(S) + 1 .. n
<1>1. CASE S = {}
  <2>1. Cardinality(S) = 0
    BY <1>1, FS_EmptySet
  <2> QED BY <1>1, <2>1
<1>2. CASE S # {}
  <2>1. S \in SUBSET Nat
    OBVIOUS
  <2>2. PICK m \in S : \A k \in S : m <= k
    BY <1>2, <2>1, LeastExists
  <2>3. m \in 1 .. n /\ S = m .. n
    <3>1. m \in 1 .. n /\ m \in Nat
      OBVIOUS
    <3>2. \A k \in m .. n : k \in 1 .. n /\ m <= k
      BY <3>1
    <3>3. m .. n \subseteq S
      BY <3>2
    <3>4. S \subseteq m .. n
      BY <2>2, <3>1
    <3> QED BY <3>1, <3>3, <3>4
  <2>4. Cardinality(m .. n) = n - m + 1
    BY <2>3, FS_Interval
  <2>5. Cardinality(S) = n - m + 1
    BY <2>3, <2>4
  <2> QED BY <2>3, <2>5
<1> QED BY <1>1, <1>2

LEMMA SinceIsEnd ==
    ASSUME NEW T \in SUBSET Int, NEW times \in Seq(T), IsSorted(times), NEW x \in Int
    PROVE  LET c == Cardinality(Since(times, x))
           IN  c \in 0 .. Len(times) /\ Since(times, x) = Len(times) - c + 1 .. Len(times)
<1>1. Len(times) \in Nat /\ DOMAIN times = 1 .. Len(times) /\ \A i \in 1 .. Len(times) : times[i] \in Int
  BY SequenceOfNumbers
<1>2. Since(times, x) \in SUBSET (1 .. Len(times))
  BY <1>1 DEF Since
<1>3. \A i \in Since(times, x), j \in 1 .. Len(times) : i <= j => j \in Since(times, x)
  BY <1>1 DEF Since, IsSorted
<1> QED BY <1>1, <1>2, <1>3, UpperEnd

LEMMA PopOlderKeeps ==
    ASSUME NEW T \in SUBSET Int, NEW times \in Seq(T), IsSorted(times), NEW cutoff \in Int
    PROVE  LET new == PopOlder(times, cutoff)
           IN  /\ new \in Seq(T)
               /\ IsSorted(new)
               /\ Len(new) = Cardinality(Since(times, cutoff))
               /\ \A x \in Int : x >= cutoff =>
                    Cardinality(Since(new, x)) = Cardinality(Since(times, x))
<1> DEFINE n == Len(times)
           new == PopOlder(times, cutoff)
           kept == {i \in DOMAIN times : \E j \in 1 .. i : times[j] >= cutoff}
           c == Cardinality(Since(times, cutoff))
<1>1. n \in Nat /\ DOMAIN times = 1 .. n /\ \A i \in 1 .. n : times[i] \in T /\ times[i] \in Int
  BY SequenceOfNumbers
<1>2. kept = Since(times, cutoff)
  <2>1. ASSUME NEW i \in DOMAIN times, NEW j \in 1 .. i, times[j] >= cutoff
        PROVE  times[i] >= cutoff
    <3>1. i \in 1 .. n /\ j \in 1 .. n /\ j <= i
      BY <1>1
    <3>2. times[j] <= times[i]
      BY <1>1, <3>1 DEF IsSorted
    <3> QED BY <1>1, <2>1, <3>1, <3>2
  <2>2. \A i \in DOMAIN times : i \in 1 .. i
    BY <1>1
  <2> QED BY <2>1, <2>2 DEF Since
<1>3. c \in 0 .. n /\ Since(times, cutoff) = n - c + 1 .. n
  BY SinceIsEnd
<1>4. new = SubSeq(times, n - c + 1, n)
  <2>1. new = SubSeq(times, n - Cardinality(kept) + 1, n)
    BY DEF PopOlder
  <2> QED BY <1>2, <2>1
<1> HIDE DEF n, c, kept, new
<1>5. new \in Seq(T) /\ Len(new) = c /\ \A i \in 1 .. c : new[i] = times[n - c + i]
  <2>1. \A i \in n - c + 1 .. n : times[i] \in T
    BY <1>1, <1>3
  <2>2. /\ SubSeq(times, n - c + 1, n) \in Seq(T)
        /\ Len(SubSeq(times, n - c + 1, n)) = IF n - c + 1 <= n THEN n - (n - c + 1) + 1 ELSE 0
        /\ \A i \in 1 .. n - (n - c + 1) + 1 : SubSeq(times, n - c + 1, n)[i] = times[n - c + 1 + i - 1]
    BY <1>1, <1>3, <2>1, SubSeqProperties
  <2>3. n - (n - c + 1) + 1 = c /\ \A i \in 1 .. c : n - c + 1 + i - 1 = n - c + i
    BY <1>1, <1>3
  <2> QED BY <1>1, <1>3, <1>4, <2>2, <2>3
<1>6. DOMAIN new = 1 .. c
  BY <1>5
<1>7. IsSorted(new)
  <2> SUFFICES ASSUME NEW i \in 1 .. c, NEW j \in 1 .. c, i <= j
               PROVE  new[i] <= new[j]
    BY <1>6 DEF IsSorted
  <2>1. n - c + i \in 1 .. n /\ n - c + j \in 1 .. n /\ n - c + i <= n - c + j
    BY <1>1, <1>3
  <2>2. times[n - c + i] <= times[n - c + j]
    BY <1>1, <2>1 DEF IsSorted
  <2> QED BY <1>5, <2>2
<1>8. ASSUME NEW x \in Int, x >= cutoff
      PROVE  Cardinality(Since(new, x)) = Cardinality(Since(times, x))
  <2> DEFINE h == Cardinality(Since(times, x))
  <2>1. h \in 0 .. n /\ Since(times, x) = n - h + 1 .. n
    BY SinceIsEnd DEF n
  <2> HIDE DEF h
  <2>2. h <= c
    <3>1. Since(times, x) \subseteq Since(times, cutoff)
      BY <1>1, <1>8 DEF Since
    <3>2. h = 0 \/ n - h + 1 \in n - c + 1 .. n
      <4>1. h = 0 \/ n - h + 1 \in n - h + 1 .. n
        BY <1>1, <2>1
      <4> QED BY <1>3, <2>1, <3>1, <4>1
    <3> QED BY <1>1, <1>3, <2>1, <3>2
  <2>3. \A i \in 1 .. c : new[i] >= x <=> i >= c - h + 1
    <3> TAKE i \in 1 .. c
    <3>1. n - c + i \in 1 .. n
      BY <1>1, <1>3
    <3>2. times[n - c + i] >= x <=> n - c + i \in n - h + 1 .. n
      BY <1>1, <2>1, <3>1 DEF Since
    <3>3. n - c + i \in n - h + 1 .. n <=> i >= c - h + 1
      BY <1>1, <1>3, <2>1
    <3> QED BY <1>5, <3>2, <3>3
  <2>4. Since(new, x) = c - h + 1 .. c
    BY <1>3, <1>6, <2>1, <2>2, <2>3 DEF Since
  <2>5. Cardinality(c - h + 1 .. c) = h
    <3>1. c - h + 1 \in Int /\ c \in Int
      BY <1>3, <2>1
    <3>2. Cardinality(c - h + 1 .. c) = IF c - h + 1 > c THEN 0 ELSE c - (c - h + 1) + 1
      BY <3>1, FS_Interval
    <3> QED BY <1>3, <2>1, <3>2
  <2> QED BY <2>4, <2>5 DEF h
<1> QED BY <1>5, <1>7, <1>8 DEF new, c

LEMMA AppendKeeps ==
    ASSUME NEW T \in SUBSET Int, NEW times \in Seq(T), IsSorted(times),
           NEW now \in T, \A i \in DOMAIN times : times[i] <= now
    PROVE  LET new == Append(times, now)
           IN  /\ new \in Seq(T)
               /\ IsSorted(new)
               /\ \A x \in Int : Cardinality(Since(new, x)) =
                    Cardinality(Since(times, x)) + (IF now >= x THEN 1 ELSE 0)
<1> DEFINE n == Len(times)
           new == Append(times, now)
<1>1. n \in Nat /\ DOMAIN times = 1 .. n /\ \A i \in 1 .. n : times[i] \in Int
  BY SequenceOfNumbers
<1>2. /\ new \in Seq(T) /\ Len(new) = n + 1 /\ DOMAIN new = 1 .. n + 1
      /\ new[n + 1] = now /\ \A i \in 1 .. n : new[i] = times[i]
  OBVIOUS
<1> HIDE DEF n, new
<1>3. IsSorted(new)
  BY <1>1, <1>2 DEF IsSorted
<1>4. ASSUME NEW x \in Int
      PROVE  Cardinality(Since(new, x)) = Cardinality(Since(times, x)) + (IF now >= x THEN 1 ELSE 0)
  <2>1. Cardinality(Since(times, x)) \in Nat
    <3>1. Cardinality(Since(times, x)) \in 0 .. Len(times)
      BY SinceIsEnd
    <3> QED BY <1>1, <3>1 DEF n
  <2>2. IsFiniteSet(Since(times, x)) /\ n + 1 \notin Since(times, x)
    <3>1. IsFiniteSet(1 .. n)
      BY <1>1, FS_Interval
    <3>2. Since(times, x) \in SUBSET (1 .. n)
      BY <1>1 DEF Since
    <3> QED BY <1>1, <3>1, <3>2, FS_Subset
  <2>3. CASE now >= x
    <3>1. Since(new, x) = Since(times, x) \cup {n + 1}
      BY <1>1, <1>2, <2>3 DEF Since
    <3>2. Cardinality(Since(times, x) \cup {n + 1}) = Cardinality(Since(times, x)) + 1
      BY <2>2, FS_AddElement
    <3> QED BY <2>3, <3>1, <3>2
  <2>4. CASE ~(now >= x)
    <3>1. Since(new, x) = Since(times, x)
      BY <1>1, <1>2, <2>4 DEF Since
    <3> QED BY <2>1, <2>4, <3>1
  <2> QED BY <2>3, <2>4
<1> QED BY <1>2, <1>3, <1>4 DEF new

\* What record() and count_in_window() make of the times of a key: the length
\* is what is counted, and whatever is in the window is left.
Newer(now, x) == IF now >= x THEN 1 ELSE 0

CountsWindow(new, times, now, window) ==
    /\ Len(new) = Cardinality(Since(times, now - window)) + Newer(now, now - window)
    /\ \A x \in Int : x >= now - window =>
         Cardinality(Since(new, x)) = Cardinality(Since(times, x)) + Newer(now, x)

LEMMA RecordedKeeps ==
    ASSUME NEW T \in SUBSET Int, NEW times \in Seq(T), IsSorted(times),
           NEW now \in T, \A i \in DOMAIN times : times[i] <= now, NEW window \in Int
    PROVE  /\ Recorded(times, now, window) \in Seq(T)
           /\ IsSorted(Recorded(times, now, window))
           /\ CountsWindow(Recorded(times, now, window), times, now, window)
<1> DEFINE mid == Append(times, now)
           new == PopOlder(mid, now - window)
<1>1. /\ mid \in Seq(T) /\ IsSorted(mid)
      /\ \A x \in Int : Cardinality(Since(mid, x)) =
           Cardinality(Since(times, x)) + (IF now >= x THEN 1 ELSE 0)
  BY AppendKeeps
<1>2. now - window \in Int
  OBVIOUS
<1> HIDE DEF mid
<1>3. /\ new \in Seq(T) /\ IsSorted(new) /\ Len(new) = Cardinality(Since(mid, now - window))
      /\ \A x \in Int : x >= now - window => Cardinality(Since(new, x)) = Cardinality(Since(mid, x))
  BY <1>1, <1>2, PopOlderKeeps
<1>4. Recorded(times, now, window) = new
  BY DEF Recorded, mid
<1> HIDE DEF new
<1> QED BY <1>1, <1>2, <1>3, <1>4 DEF CountsWindow, Newer
=============================================================================
