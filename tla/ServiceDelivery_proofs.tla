----------------------- MODULE ServiceDelivery_proofs -----------------------
(***************************************************************************)
(* What leaves the system: what an alert says, its emission to the SIEM    *)
(* targets, the forwarder of captures, and the SOAR playbooks.  They share *)
(* no state, and neither do the four parts of this module.                 *)
(***************************************************************************)
EXTENDS AlertContent, AlertDelivery, PcapForwarder, SoarPlaybooks, SequenceTheorems,
        WellFoundedInduction, TLAPS

-----------------------------------------------------------------------------
(***************************************************************************)
(* AlertIsFaithful for any rules, scalars, depth and event data.           *)
(*                                                                         *)
(* Redact and Leaves are recursive functions over values.  That they are   *)
(* what their definitions say is proved from one depth to the next, as     *)
(* the parts of a value nest less deep; and so is that the redaction is    *)
(* exact, as it is for the parts of a value one step below.                *)
(***************************************************************************)
LEMMA IsSeqOver ==
    ASSUME NEW S, NEW n \in Nat, NEW s, s = [i \in 1 .. n |-> s[i]], \A i \in 1 .. n : s[i] \in S
    PROVE  s \in Seq(S)
<1>1. s \in [1 .. n -> S]
  OBVIOUS
<1> QED BY <1>1, SeqDef

\* Induction from 0 to m, and over the depth of values.
LEMMA UpTo ==
    ASSUME NEW m \in Nat, NEW T, 0 \in T, \A n \in 1 .. m : n - 1 \in T => n \in T
    PROVE  0 .. m \subseteq T
<1> DEFINE rest == (0 .. m) \ T
<1> SUFFICES ASSUME rest # {} PROVE FALSE
  OBVIOUS
<1>1. PICK n \in rest : \A k \in rest : ~(<<k, n>> \in OpToRel(<, Nat))
  <2>1. rest \in SUBSET Nat
    OBVIOUS
  <2> HIDE DEF rest
  <2> QED BY <2>1, NatLessThanWellFounded, WFMin, Zenon
<1>2. n \in 1 .. m /\ n - 1 \in 0 .. m /\ n - 1 < n
  OBVIOUS
<1>3. <<n - 1, n>> \in OpToRel(<, Nat)
  <2>1. n - 1 \in Nat /\ n \in Nat
    BY <1>2
  <2> QED BY <1>2, <2>1 DEF OpToRel
<1>4. n - 1 \notin rest
  <2> HIDE DEF rest
  <2> QED BY <1>1, <1>3
<1> QED BY <1>2, <1>4

LEMMA DepthInduction ==
    ASSUME NEW T, 0 \in T, \A n \in 1 .. MaxDepth : n - 1 \in T => n \in T
    PROVE  0 .. MaxDepth \subseteq T
  BY UpTo, ContentAssumption

\* DataTo is what its definition says.
LEMMA DataToLevels ==
    /\ DataTo[0] = Scalars
    /\ \A n \in 1 .. MaxDepth : DataTo[n] = Scalars \cup Containers(DataTo[n - 1])
<1> DEFINE Level(f, n) == IF n = 0 THEN Scalars ELSE Scalars \cup Containers(f[n - 1])
           Solves(f, k) == f = [n \in 0 .. k |-> Level(f, n)]
           T == {k \in 0 .. MaxDepth : \E f : Solves(f, k)}
<1>1. 0 \in T
  <2> DEFINE f == [n \in 0 .. 0 |-> Scalars]
  <2>1. Solves(f, 0)
    OBVIOUS
  <2> HIDE DEF f, Solves
  <2> QED BY <2>1, ContentAssumption
<1>2. ASSUME NEW k \in 1 .. MaxDepth, k - 1 \in T PROVE k \in T
  <2>1. PICK f : Solves(f, k - 1)
    BY <1>2
  <2> DEFINE g == [n \in 0 .. k |-> Level(f, n)]
  <2>2. ASSUME NEW n \in 0 .. k PROVE Level(f, n) = Level(g, n)
    <3>1. CASE n # 0
      <4>1. n - 1 \in 0 .. k - 1 /\ n - 1 \in 0 .. k
        BY <3>1, ContentAssumption
      <4>2. g[n - 1] = f[n - 1]
        BY <2>1, <4>1
      <4> QED BY <4>2
    <3> QED BY <3>1
  <2>3. Solves(g, k)
    BY <2>2
  <2> HIDE DEF g, Solves
  <2> QED BY <2>3
<1>3. \E f : Solves(f, MaxDepth)
  <2>1. 0 .. MaxDepth \subseteq T
    <3> HIDE DEF T
    <3> QED BY <1>1, <1>2, DepthInduction
  <2> HIDE DEF Solves
  <2> QED BY <2>1, ContentAssumption
<1>4. Solves(DataTo, MaxDepth)
  BY <1>3 DEF DataTo
<1> QED
  <2>1. DataTo[0] = Scalars
    BY <1>4, ContentAssumption
  <2>2. ASSUME NEW n \in 1 .. MaxDepth PROVE DataTo[n] = Scalars \cup Containers(DataTo[n - 1])
    <3>1. n \in 0 .. MaxDepth /\ n # 0
      BY ContentAssumption
    <3> QED BY <1>4, <3>1
  <2> QED BY <2>1, <2>2

LEMMA ContainersGrow ==
    ASSUME NEW S, NEW T, S \subseteq T
    PROVE  Containers(S) \subseteq Containers(T)
  BY DEF Containers

\* What nests n - 1 deep at most nests n deep at most.
LEMMA DataToGrows == \A n \in 1 .. MaxDepth : DataTo[n - 1] \subseteq DataTo[n]
<1> DEFINE T == {n \in 0 .. MaxDepth : n = 0 \/ DataTo[n - 1] \subseteq DataTo[n]}
<1>1. 0 \in T
  BY ContentAssumption
<1>2. ASSUME NEW n \in 1 .. MaxDepth, n - 1 \in T PROVE n \in T
  <2>1. CASE n = 1
    BY <2>1, DataToLevels
  <2>2. CASE n # 1
    <3>1. n - 1 \in 1 .. MaxDepth /\ n - 1 # 0
      BY <2>2, ContentAssumption
    <3>2. DataTo[(n - 1) - 1] \subseteq DataTo[n - 1]
      BY <1>2, <3>1
    <3>3. DataTo[n - 1] = Scalars \cup Containers(DataTo[(n - 1) - 1])
      BY <3>1, DataToLevels
    <3>4. DataTo[n] = Scalars \cup Containers(DataTo[n - 1])
      BY DataToLevels
    <3>5. DataTo[n - 1] \subseteq DataTo[n]
      BY <3>2, <3>3, <3>4, ContainersGrow
    <3>6. n \in 0 .. MaxDepth
      BY ContentAssumption
    <3> QED BY <3>5, <3>6
  <2> QED BY <2>1, <2>2
<1>3. 0 .. MaxDepth \subseteq T
  <2> HIDE DEF T
  <2> QED BY <1>1, <1>2, DepthInduction
<1> QED
  <2> TAKE n \in 1 .. MaxDepth
  <2>1. n \in 0 .. MaxDepth /\ n # 0
    BY ContentAssumption
  <2> QED BY <1>3, <2>1

\* Scalars are of every depth.
LEMMA ScalarsAreData == \A n \in 0 .. MaxDepth : Scalars \subseteq DataTo[n]
<1> TAKE n \in 0 .. MaxDepth
<1>1. n = 0 \/ n \in 1 .. MaxDepth
  BY ContentAssumption
<1> QED BY <1>1, DataToLevels

\* And so are the values of every depth up to MaxDepth.
LEMMA DataToIsData == \A n \in 0 .. MaxDepth : DataTo[n] \subseteq Data
<1> DEFINE T == {k \in 0 .. MaxDepth : DataTo[MaxDepth - k] \subseteq Data}
<1>1. 0 \in T
  BY ContentAssumption DEF Data
<1>2. ASSUME NEW k \in 1 .. MaxDepth, k - 1 \in T PROVE k \in T
  <2>1. /\ MaxDepth - (k - 1) \in 1 .. MaxDepth
        /\ (MaxDepth - (k - 1)) - 1 = MaxDepth - k
        /\ k \in 0 .. MaxDepth
    BY ContentAssumption
  <2> QED BY <1>2, <2>1, DataToGrows
<1>3. 0 .. MaxDepth \subseteq T
  <2> HIDE DEF T
  <2> QED BY <1>1, <1>2, DepthInduction
<1> QED
  <2> TAKE n \in 0 .. MaxDepth
  <2>1. MaxDepth - n \in 0 .. MaxDepth /\ MaxDepth - (MaxDepth - n) = n
    BY ContentAssumption
  <2> QED BY <1>3, <2>1

\* A scalar has no parts; those of anything else nest less deep.
LEMMA PartsAreData ==
    ASSUME NEW n \in 0 .. MaxDepth, NEW v \in DataTo[n], v \notin Scalars
    PROVE  /\ n \in 1 .. MaxDepth
           /\ \/ v.kind = "dict" /\ v.items \in Seq(STRING \X DataTo[n - 1])
              \/ v.kind = "list" /\ v.items \in Seq(DataTo[n - 1])
           /\ v = [kind |-> v.kind, items |-> v.items]
           /\ \A i \in 1 .. Len(v.items) : Part(v, i) \in DataTo[n - 1]
<1>1. n \in 1 .. MaxDepth
  BY DataToLevels, ContentAssumption
<1>2. v \in Containers(DataTo[n - 1])
  BY <1>1, DataToLevels
<1> QED BY <1>1, <1>2 DEF Containers, Part

-----------------------------------------------------------------------------
\* The two branches of _redact that take a value apart, with f for the
\* recursive calls.
RedactWith(f, value) ==
    CASE value.kind = "dict" ->
           [value EXCEPT !.items = [i \in DOMAIN @ |->
              <<@[i][1], IF Sensitive(@[i][1]) THEN Redacted ELSE f[@[i][2]]>>]]
      [] value.kind = "list" ->
           [value EXCEPT !.items = [i \in DOMAIN @ |-> f[@[i]]]]
      [] value.kind = "text" /\ value.secret -> Redacted
      [] OTHER -> value

LEMMA RedactWithParts ==
    ASSUME NEW n \in 1 .. MaxDepth, NEW v \in DataTo[n], NEW f, NEW g,
           \A w \in DataTo[n - 1] : f[w] = g[w]
    PROVE  RedactWith(f, v) = RedactWith(g, v)
<1>1. CASE v \in Scalars
  BY <1>1, ScalarsAssumption DEF RedactWith
<1>2. CASE v \notin Scalars
  <2>0. n \in 0 .. MaxDepth
    OBVIOUS
  <2>1. CASE v.kind = "dict"
    <3>1. v.items \in Seq(STRING \X DataTo[n - 1])
      BY <1>2, <2>0, <2>1, PartsAreData
    <3>2. \A i \in DOMAIN v.items : f[v.items[i][2]] = g[v.items[i][2]]
      BY <3>1
    <3> QED BY <2>1, <3>2 DEF RedactWith
  <2>2. CASE v.kind = "list"
    <3>1. v.items \in Seq(DataTo[n - 1])
      BY <1>2, <2>0, <2>2, PartsAreData
    <3>2. \A i \in DOMAIN v.items : f[v.items[i]] = g[v.items[i]]
      BY <3>1
    <3> QED BY <2>2, <3>2 DEF RedactWith
  <2> QED BY <1>2, <2>0, <2>1, <2>2, PartsAreData
<1> QED BY <1>1, <1>2

\* Redact is what its definition says.
LEMMA RedactUnfolds == \A v \in Data : Redact[v] = RedactWith(Redact, v)
<1> DEFINE Solves(f, k) == f = [v \in DataTo[k] |-> RedactWith(f, v)]
           T == {k \in 0 .. MaxDepth : \E f : Solves(f, k)}
<1>1. 0 \in T
  <2> DEFINE f == [v \in DataTo[0] |-> RedactWith(<<>>, v)]
  <2>1. ASSUME NEW v \in DataTo[0] PROVE RedactWith(<<>>, v) = RedactWith(f, v)
    <3>1. v \in Scalars
      BY DataToLevels
    <3> QED BY <3>1, ScalarsAssumption DEF RedactWith
  <2>2. Solves(f, 0)
    BY <2>1
  <2> HIDE DEF f, Solves
  <2> QED BY <2>2, ContentAssumption
<1>2. ASSUME NEW k \in 1 .. MaxDepth, k - 1 \in T PROVE k \in T
  <2>1. PICK f : Solves(f, k - 1)
    BY <1>2
  <2> DEFINE g == [v \in DataTo[k] |-> RedactWith(f, v)]
  <2>2. \A w \in DataTo[k - 1] : f[w] = g[w]
    <3>1. DataTo[k - 1] \subseteq DataTo[k]
      BY DataToGrows
    <3> QED BY <2>1, <3>1
  <2>3. \A v \in DataTo[k] : RedactWith(f, v) = RedactWith(g, v)
    <3> HIDE DEF g
    <3> QED BY <2>2, RedactWithParts
  <2>4. Solves(g, k)
    BY <2>3
  <2>5. k \in 0 .. MaxDepth
    OBVIOUS
  <2> HIDE DEF g, Solves
  <2> QED BY <2>4, <2>5
<1>3. \E f : Solves(f, MaxDepth)
  <2>1. 0 .. MaxDepth \subseteq T
    <3> HIDE DEF T
    <3> QED BY <1>1, <1>2, DepthInduction
  <2> HIDE DEF Solves
  <2> QED BY <2>1, ContentAssumption
<1>4. Solves(Redact, MaxDepth)
  BY <1>3 DEF Redact, RedactWith, Data
<1> QED BY <1>4 DEF Data

\* What the redaction makes of a scalar, and of the parts of anything else.
Hides(v, i) == v.kind = "dict" /\ Sensitive(v.items[i][1])

LEMMA RedactScalar ==
    ASSUME NEW v \in Scalars
    PROVE  Redact[v] = IF v.kind = "text" /\ v.secret THEN Redacted ELSE v
<1>1. v \in Data
  BY ScalarsAreData, ContentAssumption DEF Data
<1>2. Redact[v] = RedactWith(Redact, v)
  BY <1>1, RedactUnfolds
<1>3. v.kind \in {"text", "number"}
  BY ScalarsAssumption
<1> QED BY <1>2, <1>3 DEF RedactWith

LEMMA RedactParts ==
    ASSUME NEW n \in 0 .. MaxDepth, NEW v \in DataTo[n], v \notin Scalars
    PROVE  /\ Redact[v].kind = v.kind
           /\ Redact[v] = [kind |-> v.kind, items |-> Redact[v].items]
           /\ Redact[v].items = [i \in 1 .. Len(v.items) |-> Redact[v].items[i]]
           /\ v.kind = "dict" => \A i \in 1 .. Len(v.items) : Redact[v].items[i]
                = <<v.items[i][1], IF Sensitive(v.items[i][1]) THEN Redacted ELSE Redact[v.items[i][2]]>>
           /\ v.kind = "list" => \A i \in 1 .. Len(v.items) : Redact[v].items[i] = Redact[v.items[i]]
<1>1. v \in Data /\ Redact[v] = RedactWith(Redact, v)
  BY DataToIsData, RedactUnfolds
<1>2. v = [kind |-> v.kind, items |-> v.items]
  BY PartsAreData
<1>3. CASE v.kind = "dict"
  <2>1. v.items \in Seq(STRING \X DataTo[n - 1])
    BY <1>3, PartsAreData
  <2> DEFINE items == [i \in DOMAIN v.items |->
                <<v.items[i][1], IF Sensitive(v.items[i][1]) THEN Redacted ELSE Redact[v.items[i][2]]>>]
  <2>2. Redact[v] = [v EXCEPT !.items = items]
    BY <1>1, <1>3 DEF RedactWith
  <2>3. Redact[v] = [kind |-> v.kind, items |-> items]
    <3> HIDE DEF items
    <3> QED BY <1>2, <2>2
  <2>4. DOMAIN v.items = 1 .. Len(v.items)
    BY <2>1
  <2> QED BY <1>3, <2>3, <2>4
<1>4. CASE v.kind = "list"
  <2>1. v.items \in Seq(DataTo[n - 1])
    BY <1>4, PartsAreData
  <2> DEFINE items == [i \in DOMAIN v.items |-> Redact[v.items[i]]]
  <2>2. Redact[v] = [v EXCEPT !.items = items]
    BY <1>1, <1>4 DEF RedactWith
  <2>3. Redact[v] = [kind |-> v.kind, items |-> items]
    <3> HIDE DEF items
    <3> QED BY <1>2, <2>2
  <2>4. DOMAIN v.items = 1 .. Len(v.items)
    BY <2>1
  <2> QED BY <1>4, <2>3, <2>4
<1> QED BY <1>3, <1>4, PartsAreData

\* The redaction nests nothing deeper.
LEMMA RedactIsData == \A n \in 0 .. MaxDepth : \A v \in DataTo[n] : Redact[v] \in DataTo[n]
<1> DEFINE T == {n \in 0 .. MaxDepth : \A v \in DataTo[n] : Redact[v] \in DataTo[n]}
<1>1. ASSUME NEW n \in 0 .. MaxDepth, NEW v \in Scalars PROVE Redact[v] \in DataTo[n]
  <2>1. Redact[v] \in Scalars
    BY RedactScalar, ScalarsAssumption
  <2> QED BY <2>1, ScalarsAreData
<1>2. 0 \in T
  BY <1>1, DataToLevels, ContentAssumption
<1>3. ASSUME NEW n \in 1 .. MaxDepth, n - 1 \in T PROVE n \in T
  <2>1. n \in 0 .. MaxDepth /\ n - 1 \in 0 .. MaxDepth
    BY ContentAssumption
  <2>2. ASSUME NEW v \in DataTo[n], v \notin Scalars PROVE Redact[v] \in DataTo[n]
    <3>1. Redacted \in DataTo[n - 1]
      BY <2>1, ScalarsAreData, ScalarsAssumption
    <3>2. \A w \in DataTo[n - 1] : Redact[w] \in DataTo[n - 1]
      BY <1>3
    <3>3. DataTo[n] = Scalars \cup Containers(DataTo[n - 1])
      BY DataToLevels
    <3>4. CASE v.kind = "dict"
      <4>1. v.items \in Seq(STRING \X DataTo[n - 1])
        BY <2>1, <2>2, <3>4, PartsAreData
      <4>2. \A i \in 1 .. Len(v.items) : Redact[v].items[i] \in STRING \X DataTo[n - 1]
        <5> TAKE i \in 1 .. Len(v.items)
        <5>1. v.items[i][1] \in STRING /\ v.items[i][2] \in DataTo[n - 1]
          BY <4>1
        <5>2. Redact[v].items[i] = <<v.items[i][1],
                IF Sensitive(v.items[i][1]) THEN Redacted ELSE Redact[v.items[i][2]]>>
          BY <2>1, <2>2, <3>4, RedactParts
        <5> QED BY <3>1, <3>2, <5>1, <5>2
      <4>3. /\ Redact[v] = [kind |-> "dict", items |-> Redact[v].items]
            /\ Redact[v].items = [i \in 1 .. Len(v.items) |-> Redact[v].items[i]]
        BY <2>1, <2>2, <3>4, RedactParts
      <4>4. Redact[v].items \in Seq(STRING \X DataTo[n - 1])
        <5> DEFINE items == Redact[v].items
        <5>1. Len(v.items) \in Nat
          BY <4>1
        <5>2. items = [i \in 1 .. Len(v.items) |-> items[i]]
          BY <4>3
        <5>3. \A i \in 1 .. Len(v.items) : items[i] \in STRING \X DataTo[n - 1]
          BY <4>2
        <5> HIDE DEF items
        <5>4. items \in Seq(STRING \X DataTo[n - 1])
          BY <5>1, <5>2, <5>3, IsSeqOver
        <5> QED BY <5>4 DEF items
      <4>5. Redact[v] \in Containers(DataTo[n - 1])
        BY <4>3, <4>4 DEF Containers
      <4> QED BY <3>3, <4>5
    <3>5. CASE v.kind = "list"
      <4>1. v.items \in Seq(DataTo[n - 1])
        BY <2>1, <2>2, <3>5, PartsAreData
      <4>2. \A i \in 1 .. Len(v.items) : Redact[v].items[i] \in DataTo[n - 1]
        <5> TAKE i \in 1 .. Len(v.items)
        <5>1. v.items[i] \in DataTo[n - 1]
          BY <4>1
        <5>2. \A j \in 1 .. Len(v.items) : Redact[v].items[j] = Redact[v.items[j]]
          BY <2>1, <2>2, <3>5, RedactParts
        <5> QED BY <3>2, <5>1, <5>2
      <4>3. /\ Redact[v] = [kind |-> "list", items |-> Redact[v].items]
            /\ Redact[v].items = [i \in 1 .. Len(v.items) |-> Redact[v].items[i]]
        BY <2>1, <2>2, <3>5, RedactParts
      <4>4. Redact[v].items \in Seq(DataTo[n - 1])
        <5> DEFINE items == Redact[v].items
        <5>1. Len(v.items) \in Nat
          BY <4>1
        <5>2. items = [i \in 1 .. Len(v.items) |-> items[i]]
          BY <4>3
        <5>3. \A i \in 1 .. Len(v.items) : items[i] \in DataTo[n - 1]
          BY <4>2
        <5> HIDE DEF items
        <5>4. items \in Seq(DataTo[n - 1])
          BY <5>1, <5>2, <5>3, IsSeqOver
        <5> QED BY <5>4 DEF items
      <4>5. Redact[v] \in Containers(DataTo[n - 1])
        BY <4>3, <4>4 DEF Containers
      <4> QED BY <3>3, <4>5
    <3> QED BY <2>1, <2>2, <3>4, <3>5, PartsAreData
  <2> QED BY <1>1, <2>1, <2>2
<1>4. 0 .. MaxDepth \subseteq T
  <2> HIDE DEF T
  <2> QED BY <1>2, <1>3, DepthInduction
<1> QED BY <1>4

-----------------------------------------------------------------------------
\* The definition of Leaves, with f for the recursive call.
LeavesWith(f, v) ==
    IF v \in Scalars \/ v.items = <<>>
      THEN {<<<<>>, v>>}
      ELSE UNION {{Below(StepTo(v, i), leaf) : leaf \in f[Part(v, i)]} : i \in DOMAIN v.items}

LEMMA LeavesWithParts ==
    ASSUME NEW n \in 1 .. MaxDepth, NEW v \in DataTo[n], NEW f, NEW g,
           \A w \in DataTo[n - 1] : f[w] = g[w]
    PROVE  LeavesWith(f, v) = LeavesWith(g, v)
<1>1. CASE v \in Scalars
  BY <1>1 DEF LeavesWith
<1>2. CASE v \notin Scalars
  <2>1. n \in 0 .. MaxDepth
    OBVIOUS
  <2>2. \A i \in 1 .. Len(v.items) : Part(v, i) \in DataTo[n - 1]
    BY <1>2, <2>1, PartsAreData
  <2>3. DOMAIN v.items = 1 .. Len(v.items)
    BY <1>2, <2>1, PartsAreData
  <2>4. \A i \in DOMAIN v.items : f[Part(v, i)] = g[Part(v, i)]
    BY <2>2, <2>3
  <2> DEFINE Lifted(i, leaves) == {Below(StepTo(v, i), leaf) : leaf \in leaves}
  <2>5. \A i \in DOMAIN v.items : Lifted(i, f[Part(v, i)]) = Lifted(i, g[Part(v, i)])
    BY <2>4
  <2>6. {Lifted(i, f[Part(v, i)]) : i \in DOMAIN v.items}
          = {Lifted(i, g[Part(v, i)]) : i \in DOMAIN v.items}
    <3> HIDE DEF Lifted
    <3> QED BY <2>5
  <2> QED BY <1>2, <2>6 DEF LeavesWith
<1> QED BY <1>1, <1>2

\* Leaves is what its definition says.
LEMMA LeavesUnfolds == \A v \in Data : Leaves[v] = LeavesWith(Leaves, v)
<1> DEFINE Solves(f, k) == f = [v \in DataTo[k] |-> LeavesWith(f, v)]
           T == {k \in 0 .. MaxDepth : \E f : Solves(f, k)}
<1>1. 0 \in T
  <2> DEFINE f == [v \in DataTo[0] |-> LeavesWith(<<>>, v)]
  <2>1. ASSUME NEW v \in DataTo[0] PROVE LeavesWith(<<>>, v) = LeavesWith(f, v)
    <3>1. v \in Scalars
      BY DataToLevels
    <3> QED BY <3>1 DEF LeavesWith
  <2>2. Solves(f, 0)
    BY <2>1
  <2> HIDE DEF f, Solves
  <2> QED BY <2>2, ContentAssumption
<1>2. ASSUME NEW k \in 1 .. MaxDepth, k - 1 \in T PROVE k \in T
  <2>1. PICK f : Solves(f, k - 1)
    BY <1>2
  <2> DEFINE g == [v \in DataTo[k] |-> LeavesWith(f, v)]
  <2>2. \A w \in DataTo[k - 1] : f[w] = g[w]
    <3>1. DataTo[k - 1] \subseteq DataTo[k]
      BY DataToGrows
    <3> QED BY <2>1, <3>1
  <2>3. \A v \in DataTo[k] : LeavesWith(f, v) = LeavesWith(g, v)
    <3> HIDE DEF g
    <3> QED BY <2>2, LeavesWithParts
  <2>4. Solves(g, k)
    BY <2>3
  <2>5. k \in 0 .. MaxDepth
    OBVIOUS
  <2> HIDE DEF g, Solves
  <2> QED BY <2>4, <2>5
<1>3. \E f : Solves(f, MaxDepth)
  <2>1. 0 .. MaxDepth \subseteq T
    <3> HIDE DEF T
    <3> QED BY <1>1, <1>2, DepthInduction
  <2> HIDE DEF Solves
  <2> QED BY <2>1, ContentAssumption
<1>4. Solves(Leaves, MaxDepth)
  BY <1>3 DEF Leaves, LeavesWith, Data
<1> QED BY <1>4 DEF Data

\* The leaves of a dict or a list are those of its parts, one step below.
LEMMA LeavesOfParts ==
    ASSUME NEW n \in 0 .. MaxDepth, NEW v \in DataTo[n]
    PROVE  IF v \in Scalars \/ v.items = <<>>
             THEN Leaves[v] = {<<<<>>, v>>}
             ELSE \A leaf : leaf \in Leaves[v] <=>
                    \E i \in 1 .. Len(v.items) : \E l \in Leaves[Part(v, i)] : leaf = Below(StepTo(v, i), l)
<1>1. Leaves[v] = LeavesWith(Leaves, v)
  BY DataToIsData, LeavesUnfolds
<1>2. CASE v \in Scalars \/ v.items = <<>>
  BY <1>1, <1>2 DEF LeavesWith
<1>3. CASE ~(v \in Scalars \/ v.items = <<>>)
  <2>1. DOMAIN v.items = 1 .. Len(v.items)
    BY <1>3, PartsAreData
  <2> QED BY <1>1, <1>3, <2>1 DEF LeavesWith
<1> QED BY <1>2, <1>3

PathSteps == ({"name"} \X STRING) \cup ({"place"} \X Nat)
LeafSet == Seq(PathSteps) \X Data

LEMMA StepIsStep ==
    ASSUME NEW n \in 0 .. MaxDepth, NEW v \in DataTo[n], v \notin Scalars, NEW i \in 1 .. Len(v.items)
    PROVE  /\ StepTo(v, i) \in PathSteps
           /\ StepTo(v, i)[1] = "name" /\ Sensitive(StepTo(v, i)[2]) <=> Hides(v, i)
<1>1. CASE v.kind = "dict"
  <2>1. v.items \in Seq(STRING \X DataTo[n - 1])
    BY <1>1, PartsAreData
  <2>2. v.items[i][1] \in STRING
    BY <2>1
  <2> QED BY <1>1, <2>2 DEF StepTo, PathSteps, Hides
<1>2. CASE v.kind = "list"
  <2>1. Len(v.items) \in Nat
    BY <1>2, PartsAreData
  <2>2. i \in Nat
    BY <2>1
  <2> QED BY <1>2, <2>2 DEF StepTo, PathSteps, Hides
<1> QED BY <1>1, <1>2, PartsAreData

\* The path of a leaf below a step.
LEMMA BelowPath ==
    ASSUME NEW step \in PathSteps, NEW leaf \in LeafSet
    PROVE  /\ Below(step, leaf) \in LeafSet
           /\ Below(step, leaf)[2] = leaf[2]
           /\ Len(leaf[1]) \in Nat /\ DOMAIN leaf[1] = 1 .. Len(leaf[1])
           /\ Len(Below(step, leaf)[1]) = Len(leaf[1]) + 1
           /\ DOMAIN Below(step, leaf)[1] = 1 .. Len(leaf[1]) + 1
           /\ \A i \in 1 .. Len(leaf[1]) + 1 :
                Below(step, leaf)[1][i] = IF i = 1 THEN step ELSE leaf[1][i - 1]
<1> DEFINE path == leaf[1]
<1>1. path \in Seq(PathSteps) /\ leaf[2] \in Data
  BY DEF LeafSet
<1>2. Below(step, leaf) = <<<<step>> \o path, leaf[2]>>
  BY DEF Below
<1> HIDE DEF path
<1>3. /\ <<step>> \o path \in Seq(PathSteps)
      /\ Len(path) \in Nat /\ DOMAIN path = 1 .. Len(path)
      /\ Len(<<step>> \o path) = Len(path) + 1
      /\ \A i \in 1 .. Len(path) + 1 : (<<step>> \o path)[i] = IF i = 1 THEN step ELSE path[i - 1]
  BY <1>1
<1>4. DOMAIN (<<step>> \o path) = 1 .. Len(path) + 1
  BY <1>3
<1>5. Below(step, leaf) \in LeafSet
  <2>1. <<<<step>> \o path, leaf[2]>> \in Seq(PathSteps) \X Data
    <3> DEFINE whole == <<step>> \o path
               value == leaf[2]
    <3>1. whole \in Seq(PathSteps) /\ value \in Data
      BY <1>1, <1>3
    <3> HIDE DEF whole, value
    <3>2. <<whole, value>> \in Seq(PathSteps) \X Data
      BY <3>1
    <3> QED BY <3>2 DEF whole, value
  <2> QED BY <1>2, <2>1 DEF LeafSet
<1>6. Below(step, leaf)[1] = <<step>> \o path /\ Below(step, leaf)[2] = leaf[2]
  BY <1>2
<1> QED BY <1>3, <1>4, <1>5, <1>6 DEF path

LEMMA LeavesAre ==
    \A n \in 0 .. MaxDepth : \A v \in DataTo[n] : Leaves[v] \subseteq LeafSet /\ Leaves[v] # {}
<1> DEFINE T == {n \in 0 .. MaxDepth : \A v \in DataTo[n] : Leaves[v] \subseteq LeafSet /\ Leaves[v] # {}}
<1>1. ASSUME NEW n \in 0 .. MaxDepth, NEW v \in DataTo[n], v \in Scalars \/ v.items = <<>>
      PROVE  Leaves[v] \subseteq LeafSet /\ Leaves[v] # {}
  <2>1. Leaves[v] = {<<<<>>, v>>}
    BY <1>1, LeavesOfParts
  <2>2. v \in Data
    BY DataToIsData
  <2>3. <<>> \in Seq(PathSteps)
    OBVIOUS
  <2>4. <<<<>>, v>> \in LeafSet
    BY <2>2, <2>3 DEF LeafSet
  <2> QED BY <2>1, <2>4
<1>2. 0 \in T
  BY <1>1, DataToLevels, ContentAssumption
<1>3. ASSUME NEW n \in 1 .. MaxDepth, n - 1 \in T PROVE n \in T
  <2>1. n \in 0 .. MaxDepth
    BY ContentAssumption
  <2>2. ASSUME NEW v \in DataTo[n], ~(v \in Scalars \/ v.items = <<>>)
        PROVE  Leaves[v] \subseteq LeafSet /\ Leaves[v] # {}
    <3>1. \A leaf : leaf \in Leaves[v] <=>
            \E i \in 1 .. Len(v.items) : \E l \in Leaves[Part(v, i)] : leaf = Below(StepTo(v, i), l)
      BY <2>1, <2>2, LeavesOfParts
    <3>2. \A i \in 1 .. Len(v.items) : Leaves[Part(v, i)] \subseteq LeafSet /\ Leaves[Part(v, i)] # {}
      BY <1>3, <2>1, <2>2, PartsAreData
    <3>3. Leaves[v] \subseteq LeafSet
      BY <2>1, <2>2, <3>1, <3>2, StepIsStep, BelowPath
    <3>4. 1 \in 1 .. Len(v.items)
      BY <2>1, <2>2, PartsAreData
    <3>5. Leaves[v] # {}
      BY <3>1, <3>2, <3>4
    <3> QED BY <3>3, <3>5
  <2> QED BY <1>1, <2>1, <2>2
<1>4. 0 .. MaxDepth \subseteq T
  <2> HIDE DEF T
  <2> QED BY <1>2, <1>3, DepthInduction
<1> QED BY <1>4

\* A leaf one step down is hidden if the step has a sensitive name, or if it
\* was; what covers it there still does.
LEMMA BelowHidden ==
    ASSUME NEW step \in PathSteps, NEW leaf \in LeafSet
    PROVE  Hidden(Below(step, leaf)) <=> (step[1] = "name" /\ Sensitive(step[2])) \/ Hidden(leaf)
<1> DEFINE below == Below(step, leaf)
           n == Len(leaf[1])
<1>1. /\ below[2] = leaf[2] /\ n \in Nat
      /\ DOMAIN leaf[1] = 1 .. n /\ DOMAIN below[1] = 1 .. n + 1
      /\ \A i \in 1 .. n + 1 : below[1][i] = IF i = 1 THEN step ELSE leaf[1][i - 1]
  BY BelowPath
<1> HIDE DEF below, n
<1>2. UnderSensitive(below[1]) <=> (step[1] = "name" /\ Sensitive(step[2])) \/ UnderSensitive(leaf[1])
  <2>1. ASSUME UnderSensitive(below[1])
        PROVE  (step[1] = "name" /\ Sensitive(step[2])) \/ UnderSensitive(leaf[1])
    <3>1. PICK i \in 1 .. n + 1 : below[1][i][1] = "name" /\ Sensitive(below[1][i][2])
      BY <1>1, <2>1 DEF UnderSensitive
    <3>2. CASE i = 1
      BY <1>1, <3>1, <3>2
    <3>3. CASE i # 1
      <4>1. i - 1 \in 1 .. n /\ below[1][i] = leaf[1][i - 1]
        BY <1>1, <3>3
      <4> QED BY <1>1, <3>1, <4>1 DEF UnderSensitive
    <3> QED BY <3>2, <3>3
  <2>2. ASSUME step[1] = "name" /\ Sensitive(step[2]) PROVE UnderSensitive(below[1])
    <3>1. 1 \in 1 .. n + 1 /\ below[1][1] = step
      BY <1>1
    <3> QED BY <1>1, <2>2, <3>1 DEF UnderSensitive
  <2>3. ASSUME UnderSensitive(leaf[1]) PROVE UnderSensitive(below[1])
    <3>1. PICK i \in 1 .. n : leaf[1][i][1] = "name" /\ Sensitive(leaf[1][i][2])
      BY <1>1, <2>3 DEF UnderSensitive
    <3>2. i + 1 \in 1 .. n + 1 /\ i + 1 # 1 /\ (i + 1) - 1 = i
      BY <1>1
    <3>3. below[1][i + 1] = leaf[1][i]
      BY <1>1, <3>2
    <3> QED BY <1>1, <3>1, <3>2, <3>3 DEF UnderSensitive
  <2> QED BY <2>1, <2>2, <2>3
<1> QED BY <1>1, <1>2 DEF Hidden, below

LEMMA BelowCovers ==
    ASSUME NEW step \in PathSteps, NEW leaf \in LeafSet, NEW h \in LeafSet, Covers(leaf, h)
    PROVE  Covers(Below(step, leaf), Below(step, h))
<1> DEFINE a == Below(step, leaf)
           b == Below(step, h)
           n == Len(leaf[1])
           m == Len(h[1])
<1>1. /\ a[2] = leaf[2] /\ n \in Nat /\ Len(a[1]) = n + 1
      /\ DOMAIN leaf[1] = 1 .. n /\ DOMAIN a[1] = 1 .. n + 1
      /\ \A i \in 1 .. n + 1 : a[1][i] = IF i = 1 THEN step ELSE leaf[1][i - 1]
  BY BelowPath
<1>2. /\ b[2] = h[2] /\ m \in Nat /\ Len(b[1]) = m + 1
      /\ \A i \in 1 .. m + 1 : b[1][i] = IF i = 1 THEN step ELSE h[1][i - 1]
  BY BelowPath
<1>3. leaf[2] = Redacted /\ n <= m /\ \A i \in 1 .. n : leaf[1][i] = h[1][i]
  BY <1>1 DEF Covers
<1> HIDE DEF a, b, n, m
<1>4. \A i \in 1 .. n + 1 : a[1][i] = b[1][i]
  <2> TAKE i \in 1 .. n + 1
  <2>1. i \in 1 .. m + 1 /\ (i # 1 => i - 1 \in 1 .. n)
    BY <1>1, <1>2, <1>3
  <2> QED BY <1>1, <1>2, <1>3, <2>1
<1>5. n + 1 <= m + 1
  BY <1>1, <1>2, <1>3
<1> QED BY <1>1, <1>2, <1>3, <1>4, <1>5 DEF Covers, a, b

\* What stands in the place of a part whose name is sensitive covers all that
\* was below.
LEMMA StepCovers ==
    ASSUME NEW step \in PathSteps, NEW h \in LeafSet
    PROVE  Covers(Below(step, <<<<>>, Redacted>>), Below(step, h))
<1>1. <<<<>>, Redacted>> \in LeafSet
  <2>1. Redacted \in Data
    BY ScalarsAssumption, ScalarsAreData, ContentAssumption DEF Data
  <2>2. <<>> \in Seq(PathSteps)
    OBVIOUS
  <2> QED BY <2>1, <2>2 DEF LeafSet
<1>2. Covers(<<<<>>, Redacted>>, h)
  <2>1. Len(h[1]) \in Nat
    BY DEF LeafSet
  <2> QED BY <2>1 DEF Covers
<1> QED BY <1>1, <1>2, BelowCovers

-----------------------------------------------------------------------------
\* What is in the place of part i once v is redacted.
PartAfter(v, i) == IF Hides(v, i) THEN Redacted ELSE Redact[Part(v, i)]

LEMMA RedactedParts ==
    ASSUME NEW n \in 0 .. MaxDepth, NEW v \in DataTo[n], v \notin Scalars
    PROVE  /\ Redact[v] \notin Scalars
           /\ Len(Redact[v].items) = Len(v.items)
           /\ v.items = <<>> => Redact[v] = v
           /\ v.items # <<>> => Redact[v].items # <<>>
           /\ \A i \in 1 .. Len(v.items) :
                Part(Redact[v], i) = PartAfter(v, i) /\ StepTo(Redact[v], i) = StepTo(v, i)
<1>1. Redact[v].kind = v.kind /\ v.kind \in {"dict", "list"}
  BY RedactParts, PartsAreData
<1>2. Redact[v] \notin Scalars
  BY <1>1, ScalarsAssumption
<1>3. Len(v.items) \in Nat /\ DOMAIN v.items = 1 .. Len(v.items)
  BY PartsAreData
<1>4. /\ Redact[v] = [kind |-> v.kind, items |-> Redact[v].items]
      /\ Redact[v].items = [i \in 1 .. Len(v.items) |-> Redact[v].items[i]]
  BY RedactParts
<1>5. Len(Redact[v].items) = Len(v.items) /\ DOMAIN Redact[v].items = 1 .. Len(v.items)
  BY <1>3, <1>4
<1>6. v.items = <<>> => Redact[v] = v
  <2> SUFFICES ASSUME v.items = <<>> PROVE Redact[v] = v
    OBVIOUS
  <2>1. Len(v.items) = 0
    OBVIOUS
  <2>2. Redact[v].items = <<>>
    BY <1>4, <2>1
  <2>3. v = [kind |-> v.kind, items |-> v.items]
    BY PartsAreData
  <2> QED BY <1>4, <2>2, <2>3
<1>7. v.items # <<>> => Redact[v].items # <<>>
  <2> SUFFICES ASSUME v.items # <<>> PROVE Redact[v].items # <<>>
    OBVIOUS
  <2>1. 1 \in 1 .. Len(v.items)
    BY PartsAreData
  <2> QED BY <1>5, <2>1
<1>8. ASSUME NEW i \in 1 .. Len(v.items)
      PROVE  Part(Redact[v], i) = PartAfter(v, i) /\ StepTo(Redact[v], i) = StepTo(v, i)
  <2>1. CASE v.kind = "dict"
    <3>1. \A j \in 1 .. Len(v.items) : Redact[v].items[j] = <<v.items[j][1],
            IF Sensitive(v.items[j][1]) THEN Redacted ELSE Redact[v.items[j][2]]>>
      BY <2>1, RedactParts
    <3> QED BY <1>1, <2>1, <3>1 DEF Part, PartAfter, StepTo, Hides
  <2>2. CASE v.kind = "list"
    <3>1. \A j \in 1 .. Len(v.items) : Redact[v].items[j] = Redact[v.items[j]]
      BY <2>2, RedactParts
    <3> QED BY <1>1, <2>2, <3>1 DEF Part, PartAfter, StepTo, Hides
  <2> QED BY <1>1, <2>1, <2>2
<1> QED BY <1>2, <1>5, <1>6, <1>7, <1>8

LEMMA ExactnessIs ==
    ASSUME NEW v, NEW w
    PROVE  RedactionIsExact(v, w) <=>
             /\ \A l \in Leaves[v] : ~Hidden(l) => l \in Leaves[w]
             /\ \A h \in Leaves[v] : Hidden(h) => \E l \in Leaves[w] : Covers(l, h)
             /\ \A l \in Leaves[w] :
                  (l \in Leaves[v] /\ ~Hidden(l)) \/ \E h \in Leaves[v] : Hidden(h) /\ Covers(l, h)
  BY DEF RedactionIsExact

\* A scalar, an empty dict and an empty list are a leaf, and so is what becomes
\* of them.
LEMMA ExactForLeaf ==
    ASSUME NEW n \in 0 .. MaxDepth, NEW v \in DataTo[n], v \in Scalars \/ v.items = <<>>
    PROVE  RedactionIsExact(v, Redact[v])
<1> DEFINE secret == v.kind = "text" /\ v.secret
<1>1. Leaves[v] = {<<<<>>, v>>}
  BY LeavesOfParts
<1>2. Hidden(<<<<>>, v>>) <=> secret
  BY DEF Hidden, UnderSensitive
<1>3. CASE secret
  <2>1. v \in Scalars
    BY <1>3, PartsAreData
  <2>2. Redact[v] = Redacted
    BY <1>3, <2>1, RedactScalar
  <2>3. Leaves[Redact[v]] = {<<<<>>, Redacted>>}
    BY <2>2, LeavesOfParts, ScalarsAreData, ScalarsAssumption
  <2>4. Covers(<<<<>>, Redacted>>, <<<<>>, v>>)
    BY DEF Covers
  <2> HIDE DEF secret
  <2> QED BY <1>1, <1>2, <1>3, <2>3, <2>4, ExactnessIs
<1>4. CASE ~secret
  <2>1. Redact[v] = v
    BY <1>4, RedactScalar, RedactedParts
  <2> HIDE DEF secret
  <2> QED BY <1>1, <1>2, <1>4, <2>1, ExactnessIs
<1> QED BY <1>3, <1>4

\* If the redaction is exact for the parts of a value it is for the value.
LEMMA ExactForParts ==
    ASSUME NEW n \in 1 .. MaxDepth, NEW v \in DataTo[n], v \notin Scalars, v.items # <<>>,
           \A u \in DataTo[n - 1] : RedactionIsExact(u, Redact[u])
    PROVE  RedactionIsExact(v, Redact[v])
<1> DEFINE w == Redact[v]
           Places == 1 .. Len(v.items)
<1>1. n \in 0 .. MaxDepth /\ n - 1 \in 0 .. MaxDepth
  BY ContentAssumption
<1>2. \A l : l \in Leaves[v] <=> \E i \in Places : \E m \in Leaves[Part(v, i)] : l = Below(StepTo(v, i), m)
  BY <1>1, LeavesOfParts
<1>3. \A l : l \in Leaves[w] <=> \E i \in Places : \E m \in Leaves[PartAfter(v, i)] : l = Below(StepTo(v, i), m)
  <2>1. w \in DataTo[n] /\ w \notin Scalars /\ w.items # <<>> /\ Len(w.items) = Len(v.items)
    BY <1>1, RedactIsData, RedactedParts
  <2>2. \A l : l \in Leaves[w] <=> \E i \in Places : \E m \in Leaves[Part(w, i)] : l = Below(StepTo(w, i), m)
    <3> HIDE DEF w
    <3> QED BY <1>1, <2>1, LeavesOfParts
  <2>3. \A i \in Places : Part(w, i) = PartAfter(v, i) /\ StepTo(w, i) = StepTo(v, i)
    BY <1>1, RedactedParts
  <2> HIDE DEF w, Places
  <2> QED BY <2>2, <2>3
<1>4. ASSUME NEW i \in Places
      PROVE  /\ StepTo(v, i) \in PathSteps
             /\ StepTo(v, i)[1] = "name" /\ Sensitive(StepTo(v, i)[2]) <=> Hides(v, i)
             /\ Leaves[Part(v, i)] \subseteq LeafSet /\ Leaves[Part(v, i)] # {}
  BY <1>1, StepIsStep, PartsAreData, LeavesAre
<1>5. ASSUME NEW i \in Places, Hides(v, i)
      PROVE  Leaves[PartAfter(v, i)] = {<<<<>>, Redacted>>}
  BY <1>1, <1>5, LeavesOfParts, ScalarsAreData, ScalarsAssumption DEF PartAfter
<1>6. ASSUME NEW i \in Places, ~Hides(v, i)
      PROVE  /\ PartAfter(v, i) = Redact[Part(v, i)]
             /\ RedactionIsExact(Part(v, i), PartAfter(v, i))
             /\ Leaves[PartAfter(v, i)] \subseteq LeafSet
  <2>1. Part(v, i) \in DataTo[n - 1]
    BY <1>1, PartsAreData
  <2>2. PartAfter(v, i) = Redact[Part(v, i)]
    BY <1>6 DEF PartAfter
  <2>3. Leaves[Redact[Part(v, i)]] \subseteq LeafSet
    BY <1>1, <2>1, RedactIsData, LeavesAre
  <2> QED BY <2>1, <2>2, <2>3
<1> HIDE DEF w, Places
<1>7. ASSUME NEW l \in Leaves[v], ~Hidden(l) PROVE l \in Leaves[w]
  <2>1. PICK i \in Places : \E m \in Leaves[Part(v, i)] : l = Below(StepTo(v, i), m)
    BY <1>2
  <2>2. PICK m \in Leaves[Part(v, i)] : l = Below(StepTo(v, i), m)
    BY <2>1
  <2>3. ~Hides(v, i) /\ ~Hidden(m)
    BY <1>4, <1>7, <2>2, BelowHidden
  <2>4. m \in Leaves[PartAfter(v, i)]
    BY <1>6, <2>3, ExactnessIs
  <2> QED BY <1>3, <2>2, <2>4
<1>8. ASSUME NEW h \in Leaves[v], Hidden(h) PROVE \E l \in Leaves[w] : Covers(l, h)
  <2>1. PICK i \in Places : \E m \in Leaves[Part(v, i)] : h = Below(StepTo(v, i), m)
    BY <1>2
  <2>2. PICK m \in Leaves[Part(v, i)] : h = Below(StepTo(v, i), m)
    BY <2>1
  <2>3. CASE Hides(v, i)
    <3>1. Below(StepTo(v, i), <<<<>>, Redacted>>) \in Leaves[w]
      BY <1>3, <1>5, <2>3
    <3>2. Covers(Below(StepTo(v, i), <<<<>>, Redacted>>), h)
      BY <1>4, <2>2, StepCovers
    <3> QED BY <3>1, <3>2
  <2>4. CASE ~Hides(v, i)
    <3>1. Hidden(m)
      BY <1>4, <1>8, <2>2, <2>4, BelowHidden
    <3>2. PICK l \in Leaves[PartAfter(v, i)] : Covers(l, m)
      BY <1>6, <2>4, <3>1, ExactnessIs
    <3>3. Below(StepTo(v, i), l) \in Leaves[w]
      BY <1>3
    <3>4. l \in LeafSet /\ m \in LeafSet /\ StepTo(v, i) \in PathSteps
      BY <1>4, <1>6, <2>4
    <3> QED BY <2>2, <3>2, <3>3, <3>4, BelowCovers
  <2> QED BY <2>3, <2>4
<1>9. ASSUME NEW l \in Leaves[w]
      PROVE  (l \in Leaves[v] /\ ~Hidden(l)) \/ \E h \in Leaves[v] : Hidden(h) /\ Covers(l, h)
  <2>1. PICK i \in Places : \E m \in Leaves[PartAfter(v, i)] : l = Below(StepTo(v, i), m)
    BY <1>3
  <2>2. PICK m \in Leaves[PartAfter(v, i)] : l = Below(StepTo(v, i), m)
    BY <2>1
  <2>3. CASE Hides(v, i)
    <3>1. PICK h \in Leaves[Part(v, i)] : TRUE
      BY <1>4
    <3>2. Below(StepTo(v, i), h) \in Leaves[v] /\ Hidden(Below(StepTo(v, i), h))
      BY <1>2, <1>4, <2>3, BelowHidden
    <3>3. l = Below(StepTo(v, i), <<<<>>, Redacted>>)
      BY <1>5, <2>2, <2>3
    <3>4. Covers(l, Below(StepTo(v, i), h))
      BY <1>4, <3>3, StepCovers
    <3> QED BY <3>2, <3>4
  <2>4. CASE ~Hides(v, i)
    <3>1. m \in LeafSet /\ StepTo(v, i) \in PathSteps /\ Leaves[Part(v, i)] \subseteq LeafSet
      BY <1>4, <1>6, <2>4
    <3>2. CASE m \in Leaves[Part(v, i)] /\ ~Hidden(m)
      <4>1. l \in Leaves[v]
        BY <1>2, <2>2, <3>2
      <4>2. ~Hidden(l)
        BY <1>4, <2>2, <2>4, <3>1, <3>2, BelowHidden
      <4> QED BY <4>1, <4>2
    <3>3. ASSUME NEW h \in Leaves[Part(v, i)], Hidden(h) /\ Covers(m, h)
          PROVE  \E g \in Leaves[v] : Hidden(g) /\ Covers(l, g)
      <4>1. Below(StepTo(v, i), h) \in Leaves[v]
        BY <1>2
      <4>2. Hidden(Below(StepTo(v, i), h))
        BY <3>1, <3>3, BelowHidden
      <4>3. Covers(l, Below(StepTo(v, i), h))
        BY <2>2, <3>1, <3>3, BelowCovers
      <4> QED BY <4>1, <4>2, <4>3
    <3> QED BY <1>6, <2>4, <3>2, <3>3, ExactnessIs
  <2> QED BY <2>3, <2>4
<1> QED BY <1>7, <1>8, <1>9, ExactnessIs DEF w

LEMMA RedactIsExact == \A v \in Data : RedactionIsExact(v, Redact[v])
<1> DEFINE T == {n \in 0 .. MaxDepth : \A v \in DataTo[n] : RedactionIsExact(v, Redact[v])}
<1>1. 0 \in T
  BY ExactForLeaf, DataToLevels, ContentAssumption
<1>2. ASSUME NEW n \in 1 .. MaxDepth, n - 1 \in T PROVE n \in T
  <2>1. n \in 0 .. MaxDepth
    OBVIOUS
  <2> QED BY <1>2, <2>1, ExactForLeaf, ExactForParts
<1>3. 0 .. MaxDepth \subseteq T
  <2> HIDE DEF T
  <2> QED BY <1>1, <1>2, DepthInduction
<1> QED BY <1>3, ContentAssumption DEF Data

-----------------------------------------------------------------------------
\* The stages are all different, so each has its place.
LEMMA KillChainPlaces ==
    /\ Len(KillChainOrder) = 7 /\ DOMAIN KillChainOrder = 1 .. 7
    /\ \A n \in 1 .. 7 : KillChainOrder[n] \in KillChainStages /\ Place(KillChainOrder[n]) = n
    /\ \A stage \in KillChainStages : \E n \in 1 .. 7 : stage = KillChainOrder[n]
<1>1. Len(KillChainOrder) = 7 /\ DOMAIN KillChainOrder = 1 .. 7
  BY DEF KillChainOrder
<1>2. \A m, n \in 1 .. 7 : KillChainOrder[m] = KillChainOrder[n] => m = n
  BY DEF KillChainOrder
<1>3. ASSUME NEW n \in 1 .. 7 PROVE Place(KillChainOrder[n]) = n
  BY <1>1, <1>2 DEF Place
<1> QED BY <1>1, <1>3 DEF KillChainStages

\* s names the stages seen among the first n, in their order.
InOrderUpTo(s, n, seen) ==
    /\ s \in Seq(KillChainStages)
    /\ \A i \in 1 .. Len(s) : Place(s[i]) \in 1 .. n
    /\ \A i, j \in 1 .. Len(s) : i < j => Place(s[i]) < Place(s[j])
    /\ \A stage : (\E i \in 1 .. Len(s) : s[i] = stage)
                    <=> stage \in seen /\ \E k \in 1 .. n : stage = KillChainOrder[k]

NextInOrder(s, n, seen) ==
    IF KillChainOrder[n] \in seen THEN Append(s, KillChainOrder[n]) ELSE s

LEMMA NextStaysInOrder ==
    ASSUME NEW n \in 1 .. 7, NEW s, NEW seen, InOrderUpTo(s, n - 1, seen)
    PROVE  InOrderUpTo(NextInOrder(s, n, seen), n, seen)
<1> DEFINE stage == KillChainOrder[n]
           t == Append(s, stage)
           len == Len(s)
<1>1. /\ s \in Seq(KillChainStages) /\ len \in Nat
      /\ stage \in KillChainStages /\ Place(stage) = n
  BY KillChainPlaces DEF InOrderUpTo
<1>2. /\ \A i \in 1 .. len : Place(s[i]) \in 1 .. n - 1
      /\ \A i, j \in 1 .. len : i < j => Place(s[i]) < Place(s[j])
      /\ \A x : (\E i \in 1 .. len : s[i] = x)
                  <=> x \in seen /\ \E k \in 1 .. n - 1 : x = KillChainOrder[k]
  BY DEF InOrderUpTo
<1>3. \A x : (\E k \in 1 .. n : x = KillChainOrder[k])
               <=> x = stage \/ \E k \in 1 .. n - 1 : x = KillChainOrder[k]
  <2>1. \A k \in 1 .. n : k = n \/ k \in 1 .. n - 1
    OBVIOUS
  <2>2. n \in 1 .. n /\ \A k \in 1 .. n - 1 : k \in 1 .. n
    OBVIOUS
  <2> QED BY <2>1, <2>2
<1>4. CASE stage \in seen
  <2>1. /\ t \in Seq(KillChainStages) /\ Len(t) = len + 1
        /\ \A i \in 1 .. len : t[i] = s[i]
        /\ t[len + 1] = stage
    BY <1>1
  <2>2. \A i \in 1 .. len + 1 : i = len + 1 \/ i \in 1 .. len
    BY <1>1
  <2> HIDE DEF stage, t, len
  <2>3. \A i \in 1 .. len + 1 : Place(t[i]) \in 1 .. n
    <3> TAKE i \in 1 .. len + 1
    <3>1. CASE i = len + 1
      BY <1>1, <2>1, <3>1
    <3>2. CASE i \in 1 .. len
      BY <1>2, <2>1, <3>2
    <3> QED BY <2>2, <3>1, <3>2
  <2>4. \A i, j \in 1 .. len + 1 : i < j => Place(t[i]) < Place(t[j])
    <3> SUFFICES ASSUME NEW i \in 1 .. len + 1, NEW j \in 1 .. len + 1, i < j
                 PROVE  Place(t[i]) < Place(t[j])
      OBVIOUS
    <3>1. i \in 1 .. len
      BY <1>1
    <3>2. CASE j = len + 1
      BY <1>1, <1>2, <2>1, <3>1, <3>2
    <3>3. CASE j \in 1 .. len
      BY <1>2, <2>1, <3>1, <3>3
    <3> QED BY <2>2, <3>2, <3>3
  <2>5. \A x : (\E i \in 1 .. len + 1 : t[i] = x)
                 <=> x \in seen /\ \E k \in 1 .. n : x = KillChainOrder[k]
    <3>1. \A x : (\E i \in 1 .. len + 1 : t[i] = x) <=> x = stage \/ \E i \in 1 .. len : s[i] = x
      <4>1. len + 1 \in 1 .. len + 1 /\ \A i \in 1 .. len : i \in 1 .. len + 1
        BY <1>1
      <4> QED BY <2>1, <2>2, <4>1
    <3> QED BY <1>2, <1>3, <1>4, <3>1
  <2>6. NextInOrder(s, n, seen) = t
    BY <1>4 DEF NextInOrder, stage, t
  <2> QED BY <2>1, <2>3, <2>4, <2>5, <2>6 DEF InOrderUpTo
<1>5. CASE stage \notin seen
  <2>1. NextInOrder(s, n, seen) = s
    BY <1>5 DEF NextInOrder
  <2> HIDE DEF stage
  <2>2. \A x : (\E i \in 1 .. len : s[i] = x) <=> x \in seen /\ \E k \in 1 .. n : x = KillChainOrder[k]
    BY <1>2, <1>3, <1>5
  <2>3. \A i \in 1 .. len : Place(s[i]) \in 1 .. n
    BY <1>2
  <2> QED BY <1>1, <1>2, <2>1, <2>2, <2>3 DEF InOrderUpTo
<1> QED BY <1>4, <1>5

\* The stages that the techniques of an alert are known to be in.
StagesOf(techniques) ==
    {TechniqueMap[t] : t \in {techniques[i] : i \in DOMAIN techniques} \cap DOMAIN TechniqueMap}

LEMMA KillChainIsInOrder ==
    ASSUME NEW techniques
    PROVE  InOrderUpTo(KillChainFor(techniques), 7, StagesOf(techniques))
<1> DEFINE seen == StagesOf(techniques)
           Solves(f, m) == f = [n \in 0 .. m |-> IF n = 0 THEN <<>>
                                  ELSE IF KillChainOrder[n] \in seen
                                         THEN Append(f[n - 1], KillChainOrder[n]) ELSE f[n - 1]]
           T == {m \in 0 .. 7 : \E f : Solves(f, m)}
           upTo == CHOOSE f : Solves(f, 7)
<1> HIDE DEF seen
<1>1. 0 \in T
  <2> DEFINE f == [n \in 0 .. 0 |-> <<>>]
  <2>1. Solves(f, 0)
    OBVIOUS
  <2> HIDE DEF f, Solves
  <2> QED BY <2>1
<1>2. ASSUME NEW m \in 1 .. 7, m - 1 \in T PROVE m \in T
  <2>1. PICK f : Solves(f, m - 1)
    BY <1>2
  <2> DEFINE g == [n \in 0 .. m |-> IF n = m THEN NextInOrder(f[m - 1], m, seen) ELSE f[n]]
  <2>2. ASSUME NEW n \in 0 .. m
        PROVE  g[n] = IF n = 0 THEN <<>>
                      ELSE IF KillChainOrder[n] \in seen
                             THEN Append(g[n - 1], KillChainOrder[n]) ELSE g[n - 1]
    <3>1. CASE n = m
      <4>1. m - 1 \in 0 .. m /\ m - 1 # m /\ m # 0
        OBVIOUS
      <4>2. g[m - 1] = f[m - 1]
        BY <4>1
      <4> QED BY <3>1, <4>1, <4>2 DEF NextInOrder
    <3>2. CASE n # m
      <4>1. n \in 0 .. m - 1 /\ (n # 0 => n - 1 \in 0 .. m /\ n - 1 # m)
        BY <3>2
      <4>2. g[n] = f[n] /\ (n # 0 => g[n - 1] = f[n - 1])
        BY <3>2, <4>1
      <4> QED BY <2>1, <4>1, <4>2
    <3> QED BY <3>1, <3>2
  <2>3. g = [n \in 0 .. m |-> g[n]]
    OBVIOUS
  <2>4. Solves(g, m)
    <3> HIDE DEF g
    <3> QED BY <2>2, <2>3
  <2>5. m \in 0 .. 7
    OBVIOUS
  <2> HIDE DEF g, Solves
  <2> QED BY <2>4, <2>5
<1>3. Solves(upTo, 7)
  <2>1. 0 .. 7 \subseteq T
    <3> HIDE DEF T
    <3> QED BY <1>1, <1>2, UpTo
  <2> HIDE DEF Solves
  <2> QED BY <2>1
<1>4. KillChainFor(techniques) = upTo[7]
  BY KillChainPlaces DEF KillChainFor, StagesOf, seen
<1> HIDE DEF upTo
<1>5. upTo[0] = <<>> /\ \A n \in 1 .. 7 : upTo[n] = NextInOrder(upTo[n - 1], n, seen)
  <2>1. upTo[0] = <<>>
    BY <1>3
  <2>2. ASSUME NEW n \in 1 .. 7 PROVE upTo[n] = NextInOrder(upTo[n - 1], n, seen)
    <3>1. n \in 0 .. 7 /\ n # 0
      OBVIOUS
    <3> QED BY <1>3, <3>1 DEF NextInOrder
  <2> QED BY <2>1, <2>2
<1> DEFINE U == {n \in 0 .. 7 : InOrderUpTo(upTo[n], n, seen)}
<1>6. 0 \in U
  <2>1. InOrderUpTo(<<>>, 0, seen)
    BY DEF InOrderUpTo
  <2> QED BY <1>5, <2>1
<1>7. ASSUME NEW n \in 1 .. 7, n - 1 \in U PROVE n \in U
  <2>1. InOrderUpTo(NextInOrder(upTo[n - 1], n, seen), n, seen)
    BY <1>7, NextStaysInOrder
  <2> QED BY <1>5, <2>1
<1>8. 0 .. 7 \subseteq U
  <2> HIDE DEF U
  <2> QED BY <1>6, <1>7, UpTo
<1>9. InOrderUpTo(upTo[7], 7, seen)
  BY <1>8
<1> QED BY <1>4, <1>9 DEF seen

\* The kill chain of an alert goes forward through the stages of its techniques.
LEMMA KillChainIsRight ==
    ASSUME NEW techniques \in RuleTechniques
    PROVE  LET chain == KillChainFor(techniques)
               known == EnrichTechniques(techniques)
           IN /\ chain \in Seq(KillChainStages)
              /\ known \in Seq([technique : STRING, kill_chain : KillChainStages \cup {"unknown"}])
              /\ \A m, n \in DOMAIN chain : m < n => Place(chain[m]) < Place(chain[n])
              /\ {chain[n] : n \in DOMAIN chain}
                   = {known[i].kill_chain : i \in DOMAIN techniques} \ {"unknown"}
<1> DEFINE chain == KillChainFor(techniques)
           known == EnrichTechniques(techniques)
           stages == StagesOf(techniques)
           StageOf(i) == IF techniques[i] \in DOMAIN TechniqueMap
                           THEN TechniqueMap[techniques[i]] ELSE "unknown"
<1>1. techniques \in Seq(STRING)
  BY ContentAssumption
<1>2. /\ \A t \in DOMAIN TechniqueMap : TechniqueMap[t] \in KillChainStages
      /\ "unknown" \notin KillChainStages
  BY DEF TechniqueMap, KillChainStages, KillChainOrder
<1>3. stages \subseteq KillChainStages
  BY <1>2 DEF StagesOf
<1>4. /\ DOMAIN known = DOMAIN techniques
      /\ \A i \in DOMAIN techniques : known[i] = [technique |-> techniques[i], kill_chain |-> StageOf(i)]
  BY DEF EnrichTechniques
<1>5. \A i \in DOMAIN techniques : techniques[i] \in STRING /\ StageOf(i) \in KillChainStages \cup {"unknown"}
  BY <1>1, <1>2
<1>6. known \in Seq([technique : STRING, kill_chain : KillChainStages \cup {"unknown"}])
  <2> DEFINE len == Len(techniques)
  <2>1. len \in Nat /\ DOMAIN techniques = 1 .. len
    BY <1>1
  <2>2. known = [i \in 1 .. len |-> known[i]]
    BY <2>1 DEF EnrichTechniques
  <2>3. \A i \in 1 .. len : known[i] \in [technique : STRING, kill_chain : KillChainStages \cup {"unknown"}]
    BY <1>4, <1>5, <2>1
  <2> HIDE DEF known, len
  <2> QED BY <2>1, <2>2, <2>3, IsSeqOver
<1>7. stages = {known[i].kill_chain : i \in DOMAIN techniques} \ {"unknown"}
  <2>1. \A x : x \in stages <=> \E i \in DOMAIN techniques : techniques[i] \in DOMAIN TechniqueMap
                                                              /\ x = TechniqueMap[techniques[i]]
    BY DEF StagesOf
  <2>2. \A i \in DOMAIN techniques : known[i].kill_chain = StageOf(i)
    BY <1>4
  <2> HIDE DEF stages, known
  <2> QED BY <1>2, <2>1, <2>2
<1>8. InOrderUpTo(chain, 7, stages)
  BY KillChainIsInOrder
<1>9. chain \in Seq(KillChainStages) /\ DOMAIN chain = 1 .. Len(chain)
  BY <1>8 DEF InOrderUpTo
<1>10. {chain[n] : n \in DOMAIN chain} = stages
  <2>1. \A x : (\E i \in 1 .. Len(chain) : chain[i] = x)
                 <=> x \in stages /\ \E k \in 1 .. 7 : x = KillChainOrder[k]
    BY <1>8 DEF InOrderUpTo
  <2> HIDE DEF chain, stages
  <2> QED BY <1>3, <1>9, <2>1, KillChainPlaces
<1>11. \A m, n \in DOMAIN chain : m < n => Place(chain[m]) < Place(chain[n])
  BY <1>8, <1>9 DEF InOrderUpTo
<1> HIDE DEF chain, known, stages
<1> QED BY <1>6, <1>7, <1>9, <1>10, <1>11 DEF chain, known

-----------------------------------------------------------------------------
\* What BuildAlert makes of a rule's techniques, an event and its enrichment.
Built(techniques, event, enrichment) ==
    [event |-> [event EXCEPT !.data = Redact[event.data]], mitre |-> techniques,
     kill_chain |-> KillChainFor(techniques),
     techniques |-> EnrichTechniques(techniques), enrichment |-> enrichment]

AlertIsBuilt ==
    alert # <<>> =>
      \E techniques \in RuleTechniques, event \in Events, enrichment \in Enrichments :
        /\ alertOf = <<techniques, event, enrichment>>
        /\ alert = Built(techniques, event, enrichment)

LEMMA ContentInvariance == ContentSpec => []AlertIsBuilt
<1>1. ContentInit => AlertIsBuilt
  BY DEF ContentInit, AlertIsBuilt
<1>2. AlertIsBuilt /\ [ContentNext]_contentVars => AlertIsBuilt'
  BY DEF AlertIsBuilt, ContentNext, BuildAlert, RedactDict, Built, contentVars
<1> QED BY <1>1, <1>2, PTL DEF ContentSpec

\* ContentTypeOK for any rules and any events: the alert that build_alert returns
\* is of its type, and the redaction nests nothing deeper.
LEMMA ContentTypes == AlertIsBuilt => ContentTypeOK
<1> SUFFICES ASSUME AlertIsBuilt, alert # <<>>
             PROVE  /\ alertOf \in RuleTechniques \X Events \X Enrichments
                    /\ alert \in [event : [data : Data, rest : Data], mitre : RuleTechniques,
                                  kill_chain : Seq(KillChainStages),
                                  techniques : Seq([technique : STRING,
                                                    kill_chain : KillChainStages \cup {"unknown"}]),
                                  enrichment : Enrichments]
  BY DEF ContentTypeOK
<1>1. PICK techniques \in RuleTechniques, event \in Events, enrichment \in Enrichments :
        alertOf = <<techniques, event, enrichment>> /\ alert = Built(techniques, event, enrichment)
  BY DEF AlertIsBuilt
<1>2. event \in [data : Data, rest : Data] /\ Redact[event.data] \in Data
  BY RedactIsData, ContentAssumption DEF Data
<1>3. [event EXCEPT !.data = Redact[event.data]] \in [data : Data, rest : Data]
  BY <1>2
<1> QED BY <1>1, <1>3, KillChainIsRight DEF Built

LEMMA ContentFaithful == AlertIsBuilt => AlertIsFaithful
<1> SUFFICES ASSUME AlertIsBuilt, alert # <<>> PROVE AlertIsFaithful
  BY DEF AlertIsFaithful
<1>1. PICK techniques \in RuleTechniques, event \in Events, enrichment \in Enrichments :
        alertOf = <<techniques, event, enrichment>> /\ alert = Built(techniques, event, enrichment)
  BY DEF AlertIsBuilt
<1>2. event \in [data : Data, rest : Data]
  BY ContentAssumption
<1>3. /\ alertOf[2] = event /\ alert.mitre = techniques
      /\ alert.event = [event EXCEPT !.data = Redact[event.data]]
      /\ alert.kill_chain = KillChainFor(techniques)
      /\ alert.techniques = EnrichTechniques(techniques)
  BY <1>1 DEF Built
<1>4. alert.event.data = Redact[event.data] /\ alert.event.rest = event.rest
  BY <1>2, <1>3
<1>5. RedactionIsExact(event.data, Redact[event.data])
  BY <1>2, RedactIsExact, ContentAssumption
<1> DEFINE chain == KillChainFor(techniques)
           known == EnrichTechniques(techniques)
<1>6. /\ \A m, n \in DOMAIN chain : m < n => Place(chain[m]) < Place(chain[n])
      /\ {chain[n] : n \in DOMAIN chain}
           = {known[i].kill_chain : i \in DOMAIN techniques} \ {"unknown"}
  BY KillChainIsRight
<1>7. alert.kill_chain = chain /\ alert.techniques = known
  BY <1>3
<1> HIDE DEF chain, known
<1> QED BY <1>3, <1>4, <1>5, <1>6, <1>7 DEF AlertIsFaithful

\* The alert that build_alert (alerts.py) returns is of its type, and nests its
\* data no deeper than the event does.
THEOREM ContentTypeCorrect == ContentSpec => []ContentTypeOK
  BY ContentInvariance, ContentTypes, PTL

\* For any event data nested to any depth, the redaction (redaction.py) hides all
\* that is under a sensitive name or is a sensitive text and nothing else, and
\* for any rule the kill chain (kill_chain.py) goes forward through exactly the
\* stages of its techniques.
THEOREM AlertsAreFaithful == ContentSpec => []AlertIsFaithful
  BY ContentInvariance, ContentFaithful, PTL

-----------------------------------------------------------------------------
(***************************************************************************)
(* Type correctness of the emission, and that each of its steps is one of  *)
(* AlertFanOut or changes nothing there, for any modes, any number of      *)
(* emitters and any number of tries.  That every emission ends is left to  *)
(* TLC.                                                                    *)
(***************************************************************************)
SiemCall == [stage : Stages, tries : 1 .. MaxRetries, copies : 0 .. MaxRetries]

\* The books of one emitter: a try stores at most one copy, what is confirmed
\* was stored, and what is sent could be encoded.
BooksOf(i) ==
    LET call == siemCalls[i]
        e == siemEmitters[i]
    IN /\ call.tries <= Tries(e) /\ call.copies <= call.tries
       /\ call.stage \in {"trying", "sent"} => call.copies < call.tries
       /\ call.stage \in {"sent", "stored", "waiting", "returned"} => Encodes(e)
       /\ call.stage \in {"stored", "returned"} => call.copies > 0
       /\ call.stage = "waiting" => call.tries < Tries(e)

\* The emitters built, and one call of each once the emission is open.
EmittersBuilt ==
    /\ siemEmitters # <<>> =>
         \E n \in 1 .. MaxEmitters : DOMAIN siemEmitters = 1 .. n /\ Len(siemEmitters) = n
    /\ siemPhase = "new" => siemCalls = <<>>
    /\ siemPhase # "new" => siemEmitters # <<>> /\ siemCalls \in [DOMAIN siemEmitters -> SiemCall]

SiemIInv == SiemTypeOK /\ EmittersBuilt /\ \A i \in DOMAIN siemCalls : BooksOf(i)

-----------------------------------------------------------------------------
\* Every emitter tries once at least and MaxRetries times at most.
LEMMA TriesBounded == \A e : Tries(e) \in 1 .. MaxRetries
BY SiemAssumption DEF SiemAssumption, Tries, SentinelTries

LEMMA SiemInitInv == SiemInit => SiemIInv
BY DEF SiemInit, SiemIInv, SiemTypeOK, EmittersBuilt

\* The emitters of a mode: as many as it has parts.
LEMMA SiemBuildInv ==
    ASSUME SiemIInv, NEW m \in SiemModes, BuildEmitters(m)
    PROVE  SiemIInv'
<1>1. m \in Seq(STRING) /\ m # <<>> /\ Len(m) \in 1 .. MaxEmitters /\ DOMAIN m = 1 .. Len(m)
  BY SiemAssumption DEF SiemAssumption
<1>2. /\ siemEmitters = <<>> /\ siemEmitters' = [i \in 1 .. Len(m) |-> BuildOne(m[i])]
      /\ UNCHANGED <<siemPhase, siemCalls>>
  BY <1>1 DEF BuildEmitters
<1>3. siemPhase = "new" /\ siemCalls = <<>>
  BY <1>2 DEF SiemIInv, EmittersBuilt
<1>4. SiemTypeOK'
  BY <1>1, <1>2, <1>3 DEF SiemIInv, SiemTypeOK
<1>5. EmittersBuilt'
  <2>1. DOMAIN siemEmitters' = 1 .. Len(m)
    BY <1>2
  <2>2. Len(siemEmitters') = Len(m)
    BY <1>1, <1>2
  <2> QED BY <1>1, <1>2, <1>3, <2>1, <2>2 DEF EmittersBuilt
<1> QED BY <1>2, <1>3, <1>4, <1>5 DEF SiemIInv

LEMMA SiemStartInv == SiemIInv /\ StartEmission => SiemIInv'
<1> SUFFICES ASSUME SiemIInv, StartEmission PROVE SiemIInv'
  OBVIOUS
<1> DEFINE first == [stage |-> "trying", tries |-> 1, copies |-> 0]
<1>1. /\ siemCalls' = [i \in DOMAIN siemEmitters |-> first]
      /\ siemEmitters' = siemEmitters /\ siemEmitters # <<>> /\ siemPhase' = "open"
  BY DEF StartEmission
<1>2. first \in SiemCall
  BY SiemAssumption DEF SiemAssumption, SiemCall, Stages
<1>3. siemCalls' \in [DOMAIN siemEmitters -> SiemCall]
  BY <1>1, <1>2
<1>4. \A i \in DOMAIN siemCalls' : siemCalls'[i] = first
  BY <1>1
<1>5. SiemTypeOK'
  BY <1>1, <1>2, <1>4, TriesBounded DEF SiemIInv, SiemTypeOK, SiemCall
<1>6. EmittersBuilt'
  BY <1>1, <1>3 DEF SiemIInv, EmittersBuilt
<1>7. \A i \in DOMAIN siemCalls' : BooksOf(i)'
  BY <1>1, <1>4, TriesBounded DEF BooksOf
<1> QED BY <1>5, <1>6, <1>7 DEF SiemIInv

\* A call that changes into one with balanced books.
LEMMA SiemCallInv ==
    ASSUME SiemIInv, NEW i \in DOMAIN siemCalls, NEW call \in SiemCall,
           siemCalls' = [siemCalls EXCEPT ![i] = call], UNCHANGED <<siemEmitters, siemPhase>>,
           BooksOf(i)'
    PROVE  SiemIInv'
<1>1. /\ DOMAIN siemCalls' = DOMAIN siemCalls /\ siemCalls'[i] = call
      /\ \A j \in DOMAIN siemCalls : j # i => siemCalls'[j] = siemCalls[j]
  OBVIOUS
<1>2. siemPhase # "new"
  BY DEF SiemIInv, SiemTypeOK
<1>3. EmittersBuilt'
  BY <1>2 DEF SiemIInv, EmittersBuilt
<1>4. \A j \in DOMAIN siemCalls' : BooksOf(j)'
  BY <1>1 DEF SiemIInv, BooksOf
<1>5. SiemTypeOK'
  BY <1>1, <1>4 DEF SiemIInv, SiemTypeOK, SiemCall, BooksOf
<1> QED BY <1>3, <1>4, <1>5 DEF SiemIInv

\* A call that is under way, as a record.
LEMMA SiemCallIsRecord ==
    ASSUME SiemIInv, NEW i \in DOMAIN siemCalls
    PROVE  /\ siemCalls[i] \in SiemCall /\ Tries(siemEmitters[i]) \in 1 .. MaxRetries
           /\ siemPhase # "new" /\ siemCalls \in [DOMAIN siemEmitters -> SiemCall]
<1>1. siemPhase # "new"
  BY DEF SiemIInv, SiemTypeOK
<1> QED BY <1>1, TriesBounded DEF SiemIInv, SiemTypeOK, SiemCall, EmittersBuilt

\* Steps that only move a call to another stage.
LEMMA SiemMoveInv ==
    ASSUME SiemIInv, NEW i \in DOMAIN siemCalls,
           \/ EncodingRaises(i) \/ SendAlert(i) \/ TargetConfirms(i)
           \/ AlertIsLost(i) \/ AnswerIsLost(i)
    PROVE  /\ SiemIInv' /\ UNCHANGED <<siemEmitters, siemPhase>>
           /\ \E stage \in Stages : siemCalls' = [siemCalls EXCEPT ![i].stage = stage]
<1> DEFINE old == siemCalls[i]
<1>1. old \in SiemCall /\ Tries(siemEmitters[i]) \in 1 .. MaxRetries /\ BooksOf(i)
  BY SiemCallIsRecord DEF SiemIInv
<1>2. PICK stage \in Stages :
        /\ siemCalls' = [siemCalls EXCEPT ![i].stage = stage]
        /\ UNCHANGED <<siemEmitters, siemPhase>>
        /\ \/ old.stage = "trying" /\ stage = "raised"
           \/ old.stage = "trying" /\ stage = "sent" /\ Encodes(siemEmitters[i])
           \/ old.stage = "stored" /\ stage = "returned"
           \/ old.stage \in {"sent", "stored"} /\ stage = "raised"
           \/ /\ old.stage \in {"sent", "stored"} /\ stage = "waiting"
              /\ old.tries # Tries(siemEmitters[i])
  BY DEF EncodingRaises, SendAlert, TargetConfirms, AlertIsLost, AnswerIsLost, TryFails, Moves, At, Stages
<1>3. siemCalls'[i] = [old EXCEPT !.stage = stage] /\ [old EXCEPT !.stage = stage] \in SiemCall
  BY <1>1, <1>2 DEF SiemCall
<1>4. BooksOf(i)'
  <2>1. /\ siemCalls'[i].stage = stage /\ siemCalls'[i].tries = old.tries
        /\ siemCalls'[i].copies = old.copies /\ siemEmitters' = siemEmitters
    BY <1>1, <1>2, <1>3 DEF SiemCall
  <2>2. old.tries \in Nat /\ old.copies \in Nat /\ Tries(siemEmitters[i]) \in Nat
    BY <1>1, SiemAssumption DEF SiemCall, SiemAssumption
  <2> QED BY <1>1, <1>2, <2>1, <2>2 DEF BooksOf
<1>5. siemCalls' = [siemCalls EXCEPT ![i] = [old EXCEPT !.stage = stage]]
  BY <1>2
<1> QED BY <1>2, <1>3, <1>4, <1>5, SiemCallInv

LEMMA SiemStoreInv ==
    ASSUME SiemIInv, NEW i \in DOMAIN siemCalls, TargetStores(i)
    PROVE  SiemIInv'
<1> DEFINE old == siemCalls[i]
           new == [old EXCEPT !.stage = "stored", !.copies = @ + 1]
<1>1. old \in SiemCall /\ Tries(siemEmitters[i]) \in 1 .. MaxRetries /\ BooksOf(i) /\ old.stage = "sent"
  BY SiemCallIsRecord DEF SiemIInv, TargetStores, At
<1>2. siemCalls' = [siemCalls EXCEPT ![i] = new] /\ UNCHANGED <<siemEmitters, siemPhase>>
  BY DEF TargetStores
<1>3. new \in SiemCall /\ siemCalls'[i] = new
  <2>1. old.copies \in Nat /\ old.tries \in Nat /\ old.tries <= MaxRetries /\ MaxRetries \in Nat
    BY <1>1, SiemAssumption DEF SiemCall, SiemAssumption
  <2>2. Tries(siemEmitters[i]) \in Nat /\ Tries(siemEmitters[i]) <= MaxRetries
    BY <1>1, SiemAssumption DEF SiemAssumption
  <2>3. old.copies < old.tries
    BY <1>1 DEF BooksOf
  <2>4. old.copies + 1 \in 0 .. MaxRetries
    BY <2>1, <2>2, <2>3
  <2> QED BY <1>1, <1>2, <2>4 DEF SiemCall, Stages
<1>4. BooksOf(i)'
  <2>1. /\ siemCalls'[i].stage = "stored" /\ siemCalls'[i].tries = old.tries
        /\ siemCalls'[i].copies = old.copies + 1
    BY <1>1, <1>3 DEF SiemCall
  <2> QED BY <1>1, <1>2, <2>1, SiemAssumption DEF BooksOf, SiemCall, SiemAssumption
<1> QED BY <1>2, <1>3, <1>4, SiemCallInv

LEMMA SiemRetryInv ==
    ASSUME SiemIInv, NEW i \in DOMAIN siemCalls, RetryBegins(i)
    PROVE  SiemIInv'
<1> DEFINE old == siemCalls[i]
           new == [old EXCEPT !.stage = "trying", !.tries = @ + 1]
<1>1. old \in SiemCall /\ Tries(siemEmitters[i]) \in 1 .. MaxRetries /\ BooksOf(i) /\ old.stage = "waiting"
  BY SiemCallIsRecord DEF SiemIInv, RetryBegins, At
<1>2. siemCalls' = [siemCalls EXCEPT ![i] = new] /\ UNCHANGED <<siemEmitters, siemPhase>>
  BY DEF RetryBegins
<1>3. new \in SiemCall /\ siemCalls'[i] = new
  <2>1. old.tries \in Nat /\ old.tries \in Nat /\ old.tries <= MaxRetries /\ MaxRetries \in Nat
    BY <1>1, SiemAssumption DEF SiemCall, SiemAssumption
  <2>2. Tries(siemEmitters[i]) \in Nat /\ Tries(siemEmitters[i]) <= MaxRetries
    BY <1>1, SiemAssumption DEF SiemAssumption
  <2>3. old.tries < Tries(siemEmitters[i])
    BY <1>1 DEF BooksOf
  <2>4. old.tries + 1 \in 1 .. MaxRetries
    BY <2>1, <2>2, <2>3
  <2> QED BY <1>1, <1>2, <2>4 DEF SiemCall, Stages
<1>4. BooksOf(i)'
  <2>1. /\ siemCalls'[i].stage = "trying" /\ siemCalls'[i].tries = old.tries + 1
        /\ siemCalls'[i].copies = old.copies
    BY <1>1, <1>3 DEF SiemCall
  <2> QED BY <1>1, <1>2, <2>1, SiemAssumption DEF BooksOf, SiemCall, SiemAssumption
<1> QED BY <1>2, <1>3, <1>4, SiemCallInv

LEMMA SiemReportInv == SiemIInv /\ Report => SiemIInv'
BY DEF Report, SiemIInv, SiemTypeOK, EmittersBuilt, BooksOf

\* Every step keeps the books.
LEMMA SiemStepInv == SiemIInv /\ [SiemNext]_siemVars => SiemIInv'
<1> SUFFICES ASSUME SiemIInv, [SiemNext]_siemVars PROVE SiemIInv'
  OBVIOUS
<1>1. CASE UNCHANGED siemVars
  BY <1>1 DEF siemVars, SiemIInv, SiemTypeOK, EmittersBuilt, BooksOf
<1>2. CASE SiemNext
  BY <1>2, SiemBuildInv, SiemStartInv, SiemMoveInv, SiemStoreInv, SiemRetryInv, SiemReportInv DEF SiemNext
<1> QED BY <1>1, <1>2

\* The safety part of SiemSpec: fairness plays no role in what follows.
SiemSafe == SiemInit /\ [][SiemNext]_siemVars

LEMMA SiemTypes == SiemSafe => []SiemTypeOK
<1>1. SiemIInv => SiemTypeOK
  BY DEF SiemIInv
<1> QED BY <1>1, SiemInitInv, SiemStepInv, PTL DEF SiemSafe

\* Type correctness of the emitters and their calls; no emitter tries more
\* often than it may.
THEOREM SiemTypeCorrect == SiemSpec => []SiemTypeOK
  BY SiemTypes, PTL DEF SiemSpec, SiemSafe

-----------------------------------------------------------------------------
FanOutCopies == [i \in DOMAIN siemCalls |-> siemCalls[i].copies]

LEMMA FanOutInit == SiemInit => FanOut!Init
BY DEF SiemInit, FanOut!Init, FanOutOutcome

\* Starting the emission opens the fan-out.
LEMMA StartOpens == SiemIInv /\ StartEmission => FanOut!Open
<1> SUFFICES ASSUME SiemIInv, StartEmission PROVE FanOut!Open
  OBVIOUS
<1>1. PICK n \in 1 .. MaxEmitters : DOMAIN siemEmitters = 1 .. n
  BY DEF StartEmission, SiemIInv, EmittersBuilt
<1>2. /\ siemCalls' = [i \in 1 .. n |-> [stage |-> "trying", tries |-> 1, copies |-> 0]]
      /\ siemEmitters' = siemEmitters /\ siemPhase = "new" /\ siemPhase' = "open"
  BY <1>1 DEF StartEmission
<1>3. DOMAIN siemCalls' = 1 .. n
  BY <1>2
<1>4. FanOutCopies' = [t \in 1 .. n |-> 0]
  BY <1>2, <1>3 DEF FanOutCopies
<1>5. FanOutOutcome' = [t \in 1 .. n |-> "pending"]
  BY <1>2, <1>3 DEF FanOutOutcome, At
<1> QED BY <1>1, <1>2, <1>4, <1>5 DEF FanOut!Open, FanOutCopies

\* A stage other than the last two is pending, whichever it is.
LEMMA MoveSettles ==
    ASSUME SiemIInv, NEW i \in DOMAIN siemCalls, NEW stage \in Stages,
           siemCalls' = [siemCalls EXCEPT ![i].stage = stage], UNCHANGED <<siemEmitters, siemPhase>>,
           siemPhase = "open", FanOutOutcome[i] = "pending",
           stage = "returned" => siemCalls[i].copies > 0
    PROVE  [FanOut!Next]_(FanOut!fanOutVars)
<1>1. /\ DOMAIN siemCalls' = DOMAIN siemCalls
      /\ siemCalls'[i].stage = stage /\ siemCalls'[i].copies = siemCalls[i].copies
      /\ \A j \in DOMAIN siemCalls : j # i => siemCalls'[j] = siemCalls[j]
  BY SiemCallIsRecord DEF SiemCall
<1>2. FanOutCopies' = FanOutCopies
  BY <1>1 DEF FanOutCopies
<1>3. FanOutOutcome' = [FanOutOutcome EXCEPT ![i] =
         IF stage = "returned" THEN "served" ELSE IF stage = "raised" THEN "failed" ELSE "pending"]
  BY <1>1 DEF FanOutOutcome, At
<1>4. CASE stage \in {"returned", "raised"}
  <2> DEFINE o == IF stage = "returned" THEN "served" ELSE "failed"
  <2>1. FanOutOutcome' = [FanOutOutcome EXCEPT ![i] = o] /\ o \in {"served", "failed"}
    BY <1>3, <1>4
  <2>2. o = "served" => FanOutCopies[i] > 0
    BY DEF FanOutCopies
  <2>3. FanOut!Settle(i)
    BY <1>2, <2>1, <2>2 DEF FanOut!Settle, FanOutCopies
  <2>4. i \in DOMAIN FanOutOutcome
    BY DEF FanOutOutcome
  <2> QED BY <2>3, <2>4 DEF FanOut!Next, FanOut!SettleSome, FanOut!Targets
<1>5. CASE stage \notin {"returned", "raised"}
  <2>1. FanOutOutcome' = FanOutOutcome
    BY <1>3, <1>5 DEF FanOutOutcome
  <2> QED BY <1>2, <2>1 DEF FanOut!fanOutVars, FanOutCopies
<1> QED BY <1>4, <1>5

\* A target that stores what it was sent has not had all its copies yet.
LEMMA StoreArrives ==
    ASSUME SiemIInv, NEW i \in DOMAIN siemCalls, TargetStores(i), siemPhase = "open"
    PROVE  FanOut!Arrive(i) /\ i \in DOMAIN FanOutOutcome
<1> DEFINE old == siemCalls[i]
<1>1. /\ old \in SiemCall /\ old.stage = "sent" /\ BooksOf(i)
      /\ siemCalls' = [siemCalls EXCEPT ![i].stage = "stored", ![i].copies = @ + 1]
      /\ UNCHANGED <<siemEmitters, siemPhase>>
  BY SiemCallIsRecord DEF SiemIInv, TargetStores, At
<1>2. /\ DOMAIN siemCalls' = DOMAIN siemCalls
      /\ siemCalls'[i].stage = "stored" /\ siemCalls'[i].copies = old.copies + 1
      /\ \A j \in DOMAIN siemCalls : j # i => siemCalls'[j] = siemCalls[j]
  BY <1>1 DEF SiemCall
<1>3. FanOutCopies' = [FanOutCopies EXCEPT ![i] = @ + 1]
  BY <1>2 DEF FanOutCopies
<1>4. FanOutOutcome' = FanOutOutcome /\ FanOutOutcome[i] = "pending"
  BY <1>1, <1>2 DEF FanOutOutcome, At
<1>5. FanOutCopies[i] < MaxRetries
  <2>1. FanOutCopies[i] = old.copies
    BY DEF FanOutCopies
  <2>2. old.tries \in 1 .. MaxRetries /\ old.copies \in Nat /\ MaxRetries \in Nat
    BY <1>1, SiemAssumption DEF SiemCall, SiemAssumption
  <2> QED BY <1>1, <2>1, <2>2 DEF BooksOf
<1> QED BY <1>1, <1>3, <1>4, <1>5 DEF FanOut!Arrive, FanOutCopies, FanOutOutcome

\* The report closes the fan-out, and is a failure only if the lone target failed.
LEMMA ReportCloses == SiemIInv /\ Report => FanOut!Close
<1> SUFFICES ASSUME SiemIInv, Report PROVE FanOut!Close
  OBVIOUS
<1>1. /\ siemPhase = "open" /\ siemPhase' \in {"emitted", "failed"}
      /\ UNCHANGED <<siemEmitters, siemCalls>>
  BY DEF Report
<1>2. UNCHANGED <<FanOutCopies, FanOutOutcome>>
  BY <1>1 DEF FanOutCopies, FanOutOutcome, At
<1>3. \A t \in DOMAIN FanOutOutcome : FanOutOutcome[t] # "pending"
  BY DEF Report, FanOutOutcome
<1>4. siemPhase' = "failed" => \A t \in DOMAIN FanOutOutcome : FanOutOutcome[t] = "failed"
  <2> SUFFICES ASSUME siemPhase' = "failed" PROVE \A t \in DOMAIN FanOutOutcome : FanOutOutcome[t] = "failed"
    OBVIOUS
  <2>1. Len(siemEmitters) = 1 /\ At(1, "raised")
    BY DEF Report
  <2>2. DOMAIN siemCalls = {1}
    <3>1. siemEmitters # <<>> /\ DOMAIN siemCalls = DOMAIN siemEmitters
      BY <1>1 DEF SiemIInv, EmittersBuilt
    <3>2. PICK n \in 1 .. MaxEmitters : DOMAIN siemEmitters = 1 .. n /\ Len(siemEmitters) = n
      BY <3>1 DEF SiemIInv, EmittersBuilt
    <3> QED BY <2>1, <3>1, <3>2
  <2> QED BY <2>1, <2>2 DEF FanOutOutcome, At
<1> QED BY <1>1, <1>2, <1>3, <1>4 DEF FanOut!Close, FanOut!Targets, FanOutCopies

\* A call changes while the emission is open only: a report comes when all are over.
CallsOverAfterReport ==
    siemPhase \in {"emitted", "failed"} =>
        \A i \in DOMAIN siemCalls : At(i, "returned") \/ At(i, "raised")

LEMMA SiemOverInit == SiemInit => CallsOverAfterReport
BY DEF SiemInit, CallsOverAfterReport

LEMMA SiemOverStep == CallsOverAfterReport /\ SiemIInv /\ [SiemNext]_siemVars => CallsOverAfterReport'
<1> SUFFICES ASSUME CallsOverAfterReport, SiemIInv, [SiemNext]_siemVars PROVE CallsOverAfterReport'
  OBVIOUS
<1>1. CASE UNCHANGED siemVars
  BY <1>1 DEF siemVars, CallsOverAfterReport, At
<1>2. CASE StartEmission \/ \E m \in SiemModes : BuildEmitters(m)
  BY <1>2 DEF StartEmission, BuildEmitters, CallsOverAfterReport, At
<1>3. CASE Report
  BY <1>3 DEF Report, CallsOverAfterReport, At
<1>4. ASSUME NEW i \in DOMAIN siemCalls,
             \/ EncodingRaises(i) \/ SendAlert(i) \/ TargetStores(i) \/ TargetConfirms(i)
             \/ AlertIsLost(i) \/ AnswerIsLost(i) \/ RetryBegins(i)
      PROVE  CallsOverAfterReport'
  <2>1. siemCalls[i].stage \in {"trying", "sent", "stored", "waiting"} /\ siemPhase' = siemPhase
    BY <1>4 DEF EncodingRaises, SendAlert, TargetStores, TargetConfirms, AlertIsLost, AnswerIsLost,
       RetryBegins, TryFails, At
  <2> QED BY <2>1 DEF CallsOverAfterReport, At
<1> QED BY <1>1, <1>2, <1>3, <1>4 DEF SiemNext

\* Every step of the emitters is a step of the fan-out or none.
LEMMA SiemStepRefines ==
    SiemIInv /\ CallsOverAfterReport /\ [SiemNext]_siemVars => [FanOut!Next]_(FanOut!fanOutVars)
<1> SUFFICES ASSUME SiemIInv, CallsOverAfterReport, [SiemNext]_siemVars
             PROVE  [FanOut!Next]_(FanOut!fanOutVars)
  OBVIOUS
<1>1. CASE UNCHANGED siemVars
  BY <1>1 DEF siemVars, FanOut!fanOutVars, FanOutOutcome, At
<1>2. ASSUME NEW m \in SiemModes, BuildEmitters(m)
      PROVE  UNCHANGED FanOut!fanOutVars
  <2>1. siemCalls = <<>> /\ siemCalls' = <<>> /\ siemPhase' = siemPhase
    BY <1>2 DEF BuildEmitters, SiemIInv, EmittersBuilt
  <2> QED BY <2>1 DEF FanOut!fanOutVars, FanOutOutcome, At
<1>3. CASE StartEmission
  BY <1>3, StartOpens DEF FanOut!Next
<1>4. ASSUME NEW i \in DOMAIN siemCalls,
             \/ EncodingRaises(i) \/ SendAlert(i) \/ TargetConfirms(i)
             \/ AlertIsLost(i) \/ AnswerIsLost(i)
      PROVE  [FanOut!Next]_(FanOut!fanOutVars)
  <2>1. /\ siemCalls[i].stage \in {"trying", "sent", "stored"}
        /\ BooksOf(i) /\ siemPhase = "open"
    BY <1>4, SiemCallIsRecord DEF EncodingRaises, SendAlert, TargetConfirms, AlertIsLost, AnswerIsLost,
       At, SiemIInv, SiemTypeOK, CallsOverAfterReport
  <2>2. PICK stage \in Stages :
          siemCalls' = [siemCalls EXCEPT ![i].stage = stage] /\ UNCHANGED <<siemEmitters, siemPhase>>
    BY <1>4, SiemMoveInv
  <2>3. stage = "returned" => siemCalls[i].stage = "stored"
    <3>1. siemCalls'[i].stage = stage
      BY <2>2, SiemCallIsRecord DEF SiemCall
    <3> QED BY <1>4, <2>1, <3>1, SiemCallIsRecord DEF EncodingRaises, SendAlert, TargetConfirms, AlertIsLost,
            AnswerIsLost, TryFails, Moves, At, SiemCall
  <2>4. FanOutOutcome[i] = "pending" /\ (stage = "returned" => siemCalls[i].copies > 0)
    BY <2>1, <2>3 DEF FanOutOutcome, At, BooksOf
  <2> QED BY <2>1, <2>2, <2>4, MoveSettles
<1>5. ASSUME NEW i \in DOMAIN siemCalls, TargetStores(i)
      PROVE  FanOut!Next
  <2>1. siemPhase = "open"
    BY <1>5, SiemCallIsRecord DEF TargetStores, At, SiemIInv, SiemTypeOK, CallsOverAfterReport
  <2>2. FanOut!Arrive(i) /\ i \in DOMAIN FanOutOutcome
    BY <1>5, <2>1, StoreArrives
  <2> QED BY <2>2 DEF FanOut!Next, FanOut!Targets
<1>6. ASSUME NEW i \in DOMAIN siemCalls, RetryBegins(i)
      PROVE  UNCHANGED FanOut!fanOutVars
  <2>1. /\ siemCalls[i] \in SiemCall /\ siemCalls[i].stage = "waiting"
        /\ siemCalls' = [siemCalls EXCEPT ![i].stage = "trying", ![i].tries = @ + 1]
        /\ UNCHANGED <<siemEmitters, siemPhase>>
    BY <1>6, SiemCallIsRecord DEF RetryBegins, At
  <2>2. /\ DOMAIN siemCalls' = DOMAIN siemCalls
        /\ siemCalls'[i].stage = "trying" /\ siemCalls'[i].copies = siemCalls[i].copies
        /\ \A j \in DOMAIN siemCalls : j # i => siemCalls'[j] = siemCalls[j]
    BY <2>1 DEF SiemCall
  <2>3. FanOutCopies' = FanOutCopies
    BY <2>1, <2>2 DEF FanOutCopies
  <2>4. FanOutOutcome' = FanOutOutcome
    BY <2>1, <2>2 DEF FanOutOutcome, At
  <2> QED BY <2>1, <2>3, <2>4 DEF FanOut!fanOutVars, FanOutCopies
<1>7. CASE Report
  BY <1>7, ReportCloses DEF FanOut!Next
<1> QED BY <1>1, <1>2, <1>3, <1>4, <1>5, <1>6, <1>7 DEF SiemNext

LEMMA SiemFansOut == SiemSafe => FanOut!Init /\ [][FanOut!Next]_(FanOut!fanOutVars)
<1>1. SiemSafe => [](SiemIInv /\ CallsOverAfterReport)
  BY SiemInitInv, SiemStepInv, SiemOverInit, SiemOverStep, PTL DEF SiemSafe
<1> QED BY <1>1, FanOutInit, SiemStepRefines, PTL DEF SiemSafe

\* The emitters implement the fan-out, but for its progress: no target gets
\* more copies than there are retries, none fails another, and a failure is reported only
\* if no target was served.
THEOREM EmittersImplementFanOut == SiemSpec => FanOut!Init /\ [][FanOut!Next]_(FanOut!fanOutVars)
  BY SiemFansOut, PTL DEF SiemSpec, SiemSafe

-----------------------------------------------------------------------------
(***************************************************************************)
(* ForwardedOnce for any set of captures, any number of tries and crashes. *)
(*                                                                         *)
(* A capture in hand is not in seen.  So, as long as the forwarder has not *)
(* crashed, a capture all of whose sends went through at once has arrived  *)
(* only if it is in seen or about to be, and is not sent again.  What is   *)
(* left in the producer's buffer is of a capture with a failed send.       *)
(***************************************************************************)
PcapDelivered(c) == pcapArrived[c] > 0 \/ c \in pcapSkipped

\* What comes is not yet seen; at the save the capture in hand is.
ScanIsUnseen ==
    /\ pcapPc # "save" => pcapScan \cap pcapSeen = {}
    /\ pcapPc = "save" => Rest \cap pcapSeen = {}
    /\ pcapPc \in {"down", "connect"} => pcapScan = {}

\* A started process knows all it has saved, and while it is down it knows no
\* more than that.
SeenIsSaved == pcapPc \in {"down", "connect"} => pcapSeen \subseteq pcapSaved

\* Without trouble and without a crash, what was not seen has not arrived.
ArrivedIsSeen ==
    /\ pcapBuffered \subseteq pcapTroubled
    /\ \A c \in Captures \ pcapTroubled : pcapCrashes = 0 =>
         /\ pcapArrived[c] <= 1
         /\ c \notin pcapSeen /\ ~(pcapPc = "mark" /\ c = Hand) => pcapArrived[c] = 0

HandIsDelivered == pcapPc = "mark" => PcapDelivered(Hand)
TriesLeft == pcapPc = "wait" => pcapTry < SendTries

PcapIInv ==
    /\ PcapTypeOK /\ ForwardedOnce
    /\ ScanIsUnseen /\ SeenIsSaved /\ ArrivedIsSeen /\ HandIsDelivered /\ TriesLeft

-----------------------------------------------------------------------------
\* The least of the names left is one of them.
LEMMA HandIsLeft == ASSUME pcapScan \subseteq Captures, pcapScan # {} PROVE Hand \in pcapScan
<1>1. pcapScan \subseteq Nat
  BY PcapAssumption DEF PcapAssumption
<1>2. PICK x \in pcapScan : \A y \in pcapScan : ~(<<y, x>> \in OpToRel(<, Nat))
  BY <1>1, NatLessThanWellFounded, WFMin, Zenon
<1>3. \A y \in pcapScan : x <= y
  <2> TAKE y \in pcapScan
  <2>1. x \in Nat /\ y \in Nat
    BY <1>1
  <2>2. ~(y < x)
    BY <1>2, <2>1 DEF OpToRel
  <2> QED BY <2>1, <2>2
<1> QED BY <1>3 DEF Hand

\* The name in hand while a capture is worked on.
LEMMA HandIsCapture ==
    ASSUME PcapTypeOK, pcapPc \in {"read", "send", "wait", "mark", "save"} \/ pcapScan # {}
    PROVE  Hand \in pcapScan /\ Hand \in Captures
BY HandIsLeft DEF PcapTypeOK

\* One more message of a capture.
LEMMA ArrivalCounts ==
    ASSUME PcapTypeOK, NEW c \in Captures, Arrives(c)
    PROVE  /\ pcapArrived' \in [Captures -> 0 .. 2]
           /\ pcapArrived'[c] > 0
           /\ pcapArrived[c] = 0 => pcapArrived'[c] = 1
           /\ \A d \in Captures : d # c => pcapArrived'[d] = pcapArrived[d]
BY DEF Arrives, PcapTypeOK

\* While no capture that has arrived is found not to have, the promise stays.
LEMMA ArrivalsKeepPromise ==
    ASSUME PcapIInv, PcapTypeOK', ArrivedIsSeen',
           pcapSaved' \cup pcapSeen' \subseteq pcapSaved \cup pcapSeen,
           \A c \in Captures : pcapArrived[c] > 0 => pcapArrived'[c] > 0,
           pcapSkipped \subseteq pcapSkipped'
    PROVE  ForwardedOnce'
<1>1. \A c \in pcapSaved' \cup pcapSeen' : pcapArrived'[c] > 0 \/ c \in pcapSkipped'
  BY DEF PcapIInv, PcapTypeOK, ForwardedOnce
<1>2. \A c \in Captures : pcapArrived'[c] = 2 => c \in pcapTroubled' \/ pcapCrashes' > 0
  <2> SUFFICES ASSUME NEW c \in Captures, pcapArrived'[c] = 2, c \notin pcapTroubled', ~(pcapCrashes' > 0)
               PROVE  FALSE
    OBVIOUS
  <2>1. pcapCrashes' = 0
    BY PcapAssumption DEF PcapAssumption, PcapTypeOK
  <2> QED BY <2>1 DEF ArrivedIsSeen
<1> QED BY <1>1, <1>2 DEF ForwardedOnce

LEMMA PcapInitInv == PcapInit => PcapIInv
BY PcapAssumption DEF PcapAssumption, PcapInit, PcapIInv, PcapTypeOK, ForwardedOnce, ScanIsUnseen,
   SeenIsSaved, ArrivedIsSeen, HandIsDelivered, TriesLeft, Gone

-----------------------------------------------------------------------------
LEMMA LoadSeenInv == PcapIInv /\ LoadSeen => PcapIInv'
<1> SUFFICES ASSUME PcapIInv, LoadSeen PROVE PcapIInv'
  OBVIOUS
<1> USE PcapAssumption DEF PcapAssumption
<1>1. PcapTypeOK'
  BY DEF LoadSeen, PcapIInv, PcapTypeOK, pcapDisk, pcapKafka
<1>2. \A c \in Captures : c \notin pcapSaved => c \notin pcapSeen
  BY DEF LoadSeen, PcapIInv, SeenIsSaved
<1>3. ArrivedIsSeen'
  BY <1>2 DEF LoadSeen, PcapIInv, ArrivedIsSeen, pcapDisk, pcapKafka
<1> QED BY <1>1, <1>3 DEF LoadSeen, PcapIInv, ForwardedOnce, ScanIsUnseen, SeenIsSaved, HandIsDelivered,
        TriesLeft, pcapDisk, pcapKafka

\* Steps that only move on.
LEMMA PcapMovesInv ==
    ASSUME PcapIInv, Connect \/ Read \/ FileGone \/ SendAgain \/ ScanEnds
    PROVE  PcapIInv'
<1> USE PcapAssumption DEF PcapAssumption
<1>1. CASE Connect
  BY <1>1 DEF Connect, PcapIInv, PcapTypeOK, ForwardedOnce, ScanIsUnseen, SeenIsSaved,
     ArrivedIsSeen, HandIsDelivered, TriesLeft, pcapDisk, pcapKafka
<1>2. CASE Read
  <2>1. Hand \in pcapScan /\ Hand \in Captures
    BY <1>2, HandIsCapture DEF Read, PcapIInv
  <2>2. pcapSize[Hand] \in 0 .. 3
    BY <1>2, <2>1 DEF Read, PcapIInv, PcapTypeOK, Gone
  <2>3. PcapTypeOK'
    BY <1>2, <2>1, <2>2 DEF Read, PcapIInv, PcapTypeOK, pcapDisk, pcapKafka
  <2>4. TriesLeft'
    BY <1>2 DEF Read, TriesLeft
  <2> QED BY <1>2, <2>3, <2>4 DEF Read, PcapIInv, ForwardedOnce, ScanIsUnseen, SeenIsSaved, ArrivedIsSeen,
          HandIsDelivered, pcapDisk, pcapKafka
<1>3. CASE FileGone
  BY <1>3 DEF FileGone, PcapIInv, PcapTypeOK, ForwardedOnce, ScanIsUnseen, SeenIsSaved,
     ArrivedIsSeen, HandIsDelivered, TriesLeft, pcapDisk, pcapKafka
<1>4. CASE SendAgain
  <2>1. pcapTry' \in 0 .. SendTries
    BY <1>4 DEF SendAgain, PcapIInv, PcapTypeOK, TriesLeft
  <2> QED BY <1>4, <2>1 DEF SendAgain, PcapIInv, PcapTypeOK, ForwardedOnce, ScanIsUnseen, SeenIsSaved,
          ArrivedIsSeen, HandIsDelivered, TriesLeft, pcapDisk, pcapKafka
<1>5. CASE ScanEnds
  BY <1>5 DEF ScanEnds, PcapIInv, PcapTypeOK, ForwardedOnce, ScanIsUnseen, SeenIsSaved,
     ArrivedIsSeen, HandIsDelivered, TriesLeft, pcapDisk, pcapKafka
<1> QED BY <1>1, <1>2, <1>3, <1>4, <1>5

LEMMA PcapScanInv == PcapIInv /\ Scan => PcapIInv'
BY DEF Scan, PcapIInv, PcapTypeOK, ForwardedOnce, ScanIsUnseen, SeenIsSaved,
   ArrivedIsSeen, HandIsDelivered, TriesLeft, pcapDisk, pcapKafka

LEMMA PcapStatInv == PcapIInv /\ Stat => PcapIInv'
<1> SUFFICES ASSUME PcapIInv, Stat PROVE PcapIInv'
  OBVIOUS
<1>1. Hand \in pcapScan /\ Hand \in Captures /\ Hand' = Hand
  BY HandIsCapture DEF Stat, PcapIInv, Hand
<1>2. CASE pcapSize[Hand] = 3
  BY <1>1, <1>2 DEF Stat, PcapIInv, PcapTypeOK, ForwardedOnce, ScanIsUnseen, SeenIsSaved,
     ArrivedIsSeen, HandIsDelivered, PcapDelivered, TriesLeft, pcapDisk, pcapKafka
<1>3. CASE pcapSize[Hand] # 3
  BY <1>1, <1>3 DEF Stat, PcapIInv, PcapTypeOK, ForwardedOnce, ScanIsUnseen, SeenIsSaved,
     ArrivedIsSeen, HandIsDelivered, TriesLeft, pcapDisk, pcapKafka
<1> QED BY <1>2, <1>3

\* A capture that was not seen goes through.
LEMMA SendConfirmedInv == PcapIInv /\ SendConfirmed => PcapIInv'
<1> SUFFICES ASSUME PcapIInv, SendConfirmed PROVE PcapIInv'
  OBVIOUS
<1> USE PcapAssumption DEF PcapAssumption
<1>1. Hand \in pcapScan /\ Hand \in Captures /\ Hand' = Hand
  BY HandIsCapture DEF SendConfirmed, PcapIInv, Hand
<1>2. Hand \notin pcapSeen
  BY <1>1 DEF SendConfirmed, PcapIInv, ScanIsUnseen
<1>3. /\ pcapArrived' \in [Captures -> 0 .. 2]
      /\ pcapArrived'[Hand] > 0
      /\ \A c \in Captures : c # Hand => pcapArrived'[c] = pcapArrived[c]
      /\ pcapTroubled \subseteq pcapTroubled' /\ pcapTroubled' \subseteq Captures
      /\ Hand \notin pcapTroubled' /\ pcapArrived[Hand] = 0 => pcapArrived'[Hand] = 1
  <2>1. CASE Arrives(Hand) /\ UNCHANGED pcapTroubled
    BY <1>1, <2>1, ArrivalCounts DEF PcapIInv, PcapTypeOK
  <2>2. CASE pcapArrived' = [pcapArrived EXCEPT ![Hand] = 2] /\ pcapTroubled' = pcapTroubled \cup {Hand}
    BY <1>1, <2>2 DEF PcapIInv, PcapTypeOK
  <2> QED BY <2>1, <2>2 DEF SendConfirmed
<1>4. ArrivedIsSeen'
  BY <1>1, <1>2, <1>3 DEF SendConfirmed, PcapIInv, ArrivedIsSeen
<1>5. PcapTypeOK'
  BY <1>1, <1>3 DEF SendConfirmed, PcapIInv, PcapTypeOK, pcapDisk
<1>6. ForwardedOnce'
  <2>1. \A c \in Captures : pcapArrived[c] > 0 => pcapArrived'[c] > 0
    BY <1>3
  <2> QED BY <1>4, <1>5, <2>1, ArrivalsKeepPromise DEF SendConfirmed, pcapDisk
<1>7. HandIsDelivered'
  BY <1>1, <1>3 DEF HandIsDelivered, PcapDelivered
<1> QED BY <1>4, <1>5, <1>6, <1>7 DEF SendConfirmed, PcapIInv, ScanIsUnseen, SeenIsSaved, TriesLeft, pcapDisk

\* A send that fails is trouble, whatever becomes of its message.
LEMMA SendFailsInv == PcapIInv /\ SendFails => PcapIInv'
<1> SUFFICES ASSUME PcapIInv, SendFails PROVE PcapIInv'
  OBVIOUS
<1> USE PcapAssumption DEF PcapAssumption
<1>1. Hand \in pcapScan /\ Hand \in Captures /\ Rest \subseteq pcapScan
  BY HandIsCapture DEF SendFails, PcapIInv, Rest
<1>2. /\ pcapArrived' \in [Captures -> 0 .. 2]
      /\ \A c \in Captures : pcapArrived[c] > 0 => pcapArrived'[c] > 0
      /\ \A c \in Captures : c # Hand => pcapArrived'[c] = pcapArrived[c]
      /\ pcapBuffered' \subseteq pcapBuffered \cup {Hand}
  <2>1. CASE UNCHANGED <<pcapArrived, pcapBuffered>>
    BY <2>1 DEF PcapIInv, PcapTypeOK
  <2>2. CASE Arrives(Hand) /\ UNCHANGED pcapBuffered
    BY <1>1, <2>2, ArrivalCounts DEF PcapIInv
  <2>3. CASE pcapBuffered' = pcapBuffered \cup {Hand} /\ UNCHANGED pcapArrived
    BY <2>3 DEF PcapIInv, PcapTypeOK
  <2> QED BY <2>1, <2>2, <2>3 DEF SendFails, MessageIsLeft
<1>3. ArrivedIsSeen'
  BY <1>1, <1>2 DEF SendFails, PcapIInv, ArrivedIsSeen
<1>4. PcapTypeOK' /\ ScanIsUnseen' /\ TriesLeft'
  <2>1. pcapScan' \subseteq pcapScan
    BY <1>1 DEF SendFails
  <2>2. pcapPc' = "wait" => pcapTry < SendTries /\ pcapScan' # {}
    BY <1>1 DEF SendFails, PcapIInv, PcapTypeOK
  <2>3. pcapPc' \in {"stat", "wait"}
    BY DEF SendFails
  <2>4. PcapTypeOK'
    BY <1>1, <1>2, <2>1, <2>2, <2>3 DEF SendFails, PcapIInv, PcapTypeOK, pcapDisk
  <2> QED BY <2>1, <2>2, <2>3, <2>4 DEF SendFails, PcapIInv, ScanIsUnseen, TriesLeft
<1>5. ForwardedOnce'
  BY <1>2, <1>3, <1>4, ArrivalsKeepPromise DEF SendFails, pcapDisk
<1> QED BY <1>3, <1>4, <1>5 DEF SendFails, PcapIInv, SeenIsSaved, HandIsDelivered

\* What is left in the buffer is of a capture that had trouble already.
LEMMA LateArrivalInv == ASSUME PcapIInv, NEW c \in Captures, LateArrival(c) PROVE PcapIInv'
<1> USE PcapAssumption DEF PcapAssumption
<1>1. c \in pcapTroubled
  BY DEF LateArrival, PcapIInv, ArrivedIsSeen
<1>2. /\ pcapArrived' \in [Captures -> 0 .. 2]
      /\ \A d \in Captures : pcapArrived[d] > 0 => pcapArrived'[d] > 0
      /\ \A d \in Captures : d # c => pcapArrived'[d] = pcapArrived[d]
      /\ pcapBuffered' \subseteq pcapBuffered
  <2>1. CASE Arrives(c)
    BY <2>1, ArrivalCounts DEF LateArrival, PcapIInv
  <2>2. CASE UNCHANGED pcapArrived
    BY <2>2 DEF LateArrival, PcapIInv, PcapTypeOK
  <2> QED BY <2>1, <2>2 DEF LateArrival
<1>3. Hand' = Hand /\ Rest' = Rest
  BY DEF LateArrival, Hand, Rest
<1>4. ArrivedIsSeen'
  BY <1>1, <1>2, <1>3 DEF LateArrival, PcapIInv, ArrivedIsSeen
<1>5. PcapTypeOK'
  BY <1>2 DEF LateArrival, PcapIInv, PcapTypeOK, pcapDisk
<1>6. ForwardedOnce'
  BY <1>2, <1>4, <1>5, ArrivalsKeepPromise DEF LateArrival, pcapDisk
<1>7. HandIsDelivered'
  <2>1. pcapPc = "mark" => Hand \in Captures
    BY HandIsCapture DEF PcapIInv
  <2> QED BY <1>2, <1>3, <2>1 DEF LateArrival, PcapIInv, HandIsDelivered, PcapDelivered
<1> QED BY <1>3, <1>4, <1>5, <1>6, <1>7 DEF LateArrival, PcapIInv, ScanIsUnseen, SeenIsSaved, TriesLeft, pcapDisk

\* The capture in hand joins what is seen; .forwarded is empty meanwhile.
LEMMA MarkSeenInv == PcapIInv /\ MarkSeen => PcapIInv'
<1> SUFFICES ASSUME PcapIInv, MarkSeen PROVE PcapIInv'
  OBVIOUS
<1>1. Hand \in pcapScan /\ Hand \in Captures /\ Hand' = Hand /\ Rest' = Rest
  BY HandIsCapture DEF MarkSeen, PcapIInv, Hand, Rest
<1>2. PcapTypeOK'
  BY <1>1 DEF MarkSeen, PcapIInv, PcapTypeOK, pcapKafka
<1>3. ForwardedOnce'
  BY <1>1 DEF MarkSeen, PcapIInv, HandIsDelivered, PcapDelivered, ForwardedOnce, pcapKafka
<1>4. ScanIsUnseen'
  BY <1>1 DEF MarkSeen, PcapIInv, ScanIsUnseen, Rest
<1>5. ArrivedIsSeen'
  BY <1>1 DEF MarkSeen, PcapIInv, ArrivedIsSeen, pcapKafka
<1> QED BY <1>2, <1>3, <1>4, <1>5 DEF MarkSeen, PcapIInv, SeenIsSaved, HandIsDelivered, TriesLeft

LEMMA WriteSavedInv == PcapIInv /\ WriteSaved => PcapIInv'
<1> SUFFICES ASSUME PcapIInv, WriteSaved PROVE PcapIInv'
  OBVIOUS
<1>1. Rest \subseteq pcapScan
  BY DEF Rest
<1> QED BY <1>1 DEF WriteSaved, PcapIInv, PcapTypeOK, ForwardedOnce, ScanIsUnseen, SeenIsSaved,
        ArrivedIsSeen, HandIsDelivered, TriesLeft, pcapKafka

LEMMA SaveFailsInv == PcapIInv /\ SaveFails => PcapIInv'
<1> SUFFICES ASSUME PcapIInv, SaveFails PROVE PcapIInv'
  OBVIOUS
<1>1. CASE pcapPc = "mark"
  <2>1. Hand \in Captures
    BY <1>1, HandIsCapture DEF PcapIInv
  <2> QED BY <1>1, <2>1 DEF SaveFails, PcapIInv, PcapTypeOK, ForwardedOnce, ScanIsUnseen, SeenIsSaved,
          ArrivedIsSeen, HandIsDelivered, PcapDelivered, TriesLeft, pcapDisk, pcapKafka
<1>2. CASE pcapPc = "save"
  BY <1>2 DEF SaveFails, PcapIInv, PcapTypeOK, ForwardedOnce, ScanIsUnseen, SeenIsSaved,
     ArrivedIsSeen, HandIsDelivered, TriesLeft, pcapDisk, pcapKafka
<1> QED BY <1>1, <1>2 DEF SaveFails

\* A crash forgets what was seen.  From here on a capture may arrive again.
LEMMA PcapCrashInv == PcapIInv /\ ForwarderCrash => PcapIInv'
<1> SUFFICES ASSUME PcapIInv, ForwarderCrash PROVE PcapIInv'
  OBVIOUS
<1> USE PcapAssumption DEF PcapAssumption
<1>1. /\ pcapArrived' \in [Captures -> 0 .. 2] /\ pcapTroubled' \subseteq Captures
      /\ \A c \in Captures : pcapArrived[c] > 0 => pcapArrived'[c] > 0
  <2>1. CASE UNCHANGED <<pcapArrived, pcapTroubled>>
    BY <2>1 DEF PcapIInv, PcapTypeOK
  <2>2. CASE pcapPc = "send" /\ Arrives(Hand) /\ pcapTroubled' = pcapTroubled \cup {Hand}
    <3>1. Hand \in Captures
      BY <2>2, HandIsCapture DEF PcapIInv
    <3> QED BY <2>2, <3>1, ArrivalCounts DEF PcapIInv, PcapTypeOK
  <2> QED BY <2>1, <2>2 DEF ForwarderCrash
<1>2. pcapCrashes \in Nat /\ pcapCrashes' = pcapCrashes + 1 /\ pcapCrashes' \in 0 .. MaxCrashes
  BY DEF ForwarderCrash, PcapIInv, PcapTypeOK
<1>3. PcapTypeOK'
  BY <1>1, <1>2 DEF ForwarderCrash, PcapIInv, PcapTypeOK, pcapDisk
<1>4. ArrivedIsSeen'
  BY <1>2 DEF ForwarderCrash, PcapIInv, ArrivedIsSeen
<1>5. ForwardedOnce'
  BY <1>1, <1>3, <1>4, ArrivalsKeepPromise DEF ForwarderCrash, pcapDisk
<1> QED BY <1>3, <1>4, <1>5 DEF ForwarderCrash, PcapIInv, ScanIsUnseen, SeenIsSaved, HandIsDelivered, TriesLeft

\* What happens to the captures on the disk.
LEMMA PcapDiskInv ==
    ASSUME PcapIInv, NEW c \in Captures,
           CaptureGrows(c) \/ CaptureRestarts(c) \/ CaptureExpires(c)
    PROVE  PcapIInv'
<1>1. PICK size \in 0 .. Gone : CaptureBecomes(c, size)
  BY DEF CaptureGrows, CaptureRestarts, CaptureExpires, PcapIInv, PcapTypeOK, Gone
<1>2. UNCHANGED <<pcapSaved, pcapSeen, pcapPc, pcapScan, pcapContent, pcapTry, pcapCrashes,
                  pcapBuffered, pcapArrived, pcapTroubled, pcapSkipped>>
  BY <1>1 DEF CaptureBecomes, pcapKafka
<1>3. Hand' = Hand /\ Rest' = Rest
  BY <1>2 DEF Hand, Rest
<1>4. pcapSize' \in [Captures -> 0 .. Gone]
  BY <1>1 DEF CaptureBecomes, PcapIInv, PcapTypeOK
<1> QED BY <1>2, <1>3, <1>4 DEF PcapIInv, PcapTypeOK, ForwardedOnce, ScanIsUnseen, SeenIsSaved,
        ArrivedIsSeen, HandIsDelivered, PcapDelivered, TriesLeft

\* Every step of the forwarder, of its producer and of the disk.
LEMMA PcapStepInv == PcapIInv /\ [PcapNext]_pcapVars => PcapIInv'
<1> SUFFICES ASSUME PcapIInv, [PcapNext]_pcapVars PROVE PcapIInv'
  OBVIOUS
<1>1. CASE ForwarderStep
  BY <1>1, LoadSeenInv, PcapMovesInv, PcapScanInv, PcapStatInv, SendConfirmedInv, SendFailsInv, MarkSeenInv,
     WriteSavedInv, SaveFailsInv DEF ForwarderStep
<1>2. CASE UNCHANGED pcapVars
  <2>1. Hand' = Hand /\ Rest' = Rest
    BY <1>2 DEF pcapVars, Hand, Rest
  <2> QED BY <1>2, <2>1 DEF pcapVars, PcapIInv, PcapTypeOK, ForwardedOnce, ScanIsUnseen, SeenIsSaved,
          ArrivedIsSeen, HandIsDelivered, PcapDelivered, TriesLeft, pcapDisk, pcapKafka
<1> QED BY <1>1, <1>2, PcapCrashInv, LateArrivalInv, PcapDiskInv DEF PcapNext

\* Type correctness of the forwarder, for any captures and any number of tries.
THEOREM PcapTypeCorrect == PcapSpec => []PcapTypeOK
<1>1. PcapIInv => PcapTypeOK
  BY DEF PcapIInv
<1> QED BY <1>1, PcapInitInv, PcapStepInv, PTL DEF PcapSpec

\* No capture is passed over undelivered, and a second message of one needs a send
\* that did not go through at once, or a crash.
THEOREM CapturesForwardedOnce == PcapSpec => []ForwardedOnce
<1>1. PcapIInv => ForwardedOnce
  BY DEF PcapIInv
<1> QED BY <1>1, PcapInitInv, PcapStepInv, PTL DEF PcapSpec

-----------------------------------------------------------------------------
(***************************************************************************)
(* EveryStepAttempted for any playbooks, alerts and services.              *)
(*                                                                         *)
(* The steps taken are those that are due before the place of the engine,  *)
(* in order.  While a handler runs, the line it has to append is still to  *)
(* come or was appended; a query that finds nothing only drops the request *)
(* that would have followed it.                                            *)
(***************************************************************************)
SoarPlaces == (Nat \ {0}) \X (Nat \ {0})

\* The handlers that append a line of their own.
SoarLogs(step) ==
    step.action \in {"quarantine_host", "snapshot_honeypot", "extract_iocs", "defender_isolate",
                     "crowdstrike_isolate", "sentinelone_isolate", "disable_ad_account",
                     "block_ip_firewall"}
\* A query is followed by the request for what it finds.
SoarFindsPost(deeds) ==
    \A k \in DOMAIN deeds : deeds[k] = "find" => k + 1 \in DOMAIN deeds /\ deeds[k + 1] = "post"

SoarTypes ==
    /\ soarPc \in {"start", "ready", "steps", "handler", "processed"}
    /\ soarPlaybooks \in Seq(PlaybookRecord)
    /\ soarLeft \in Seq(Deeds)
    /\ soarAt \in SoarPlaces /\ soarAt[1] <= Len(soarPlaybooks) + 1
    /\ soarTaken \in Seq(SoarPlaces \X Outcomes)
    /\ \A key \in DOMAIN soarResults : soarResults[key] \in Outcomes

SoarPlace ==
    /\ soarPc \in {"start", "ready"} => soarTaken = <<>> /\ soarAt = <<1, 1>> /\ soarResults = <<>>
    /\ soarPc = "handler" => IsDue(soarAt) /\ StepAt(soarAt).action \in HandlerNames
    /\ soarPc = "processed" => soarAt[1] > Len(soarPlaybooks)

SoarTakenIsDue ==
    \A n \in DOMAIN soarTaken : IsDue(soarTaken[n][1]) /\ Before(soarTaken[n][1], soarAt)
SoarTakenOnce ==
    \A m, n \in DOMAIN soarTaken : m < n => Before(soarTaken[m][1], soarTaken[n][1])
SoarPassed ==
    \A at \in SoarPlaces :
        IsDue(at) /\ Before(at, soarAt) => \E n \in DOMAIN soarTaken : Takes(n, at)

SoarLineIsLeft ==
    soarPc = "handler" =>
        /\ SoarFindsPost(soarLeft)
        /\ SoarLogs(StepAt(soarAt)) => Logs(soarLeft) \/ <<soarAt, "append">> \in soarDone
SoarOkIsLogged ==
    \A n \in DOMAIN soarTaken :
        soarTaken[n][2] = "ok" =>
            /\ StepAt(soarTaken[n][1]).action \in HandlerNames
            /\ SoarLogs(StepAt(soarTaken[n][1])) => <<soarTaken[n][1], "append">> \in soarDone

SoarIInv ==
    /\ SoarTypes /\ SoarPlace
    /\ SoarTakenIsDue /\ SoarTakenOnce /\ SoarPassed
    /\ ResultsAreLast
    /\ SoarLineIsLeft /\ SoarOkIsLogged

\* What each handler does is made of deeds, and which of them append a line.
LEMMA SoarHandlers ==
    ASSUME NEW step, step.action \in HandlerNames
    PROVE /\ HandlerOf(step).deeds \in Seq(Deeds)
          /\ Logs(HandlerOf(step).deeds) <=> SoarLogs(step)
          /\ SoarFindsPost(HandlerOf(step).deeds)
<1> DEFINE deeds == HandlerOf(step).deeds
<1>1. CASE step.action \in {"quarantine_host", "snapshot_honeypot", "extract_iocs"}
  <2>1. deeds = <<"append">>
    BY <1>1 DEF HandlerOf, Evidence, Handler
  <2> QED BY <1>1, <2>1 DEF Deeds, Logs, SoarLogs, SoarFindsPost
<1>2. CASE step.action \in {"defender_isolate", "crowdstrike_isolate"}
  <2>1. deeds = <<"send">> \o <<"append">>
    BY <1>2 DEF HandlerOf, Isolate, DefenderDriver, CrowdstrikeDriver, Handler
  <2>2. deeds \in Seq(Deeds) /\ Len(deeds) = 2 /\ deeds[1] = "send" /\ deeds[2] = "append"
    BY <2>1, ConcatProperties DEF Deeds
  <2> QED BY <1>2, <2>2 DEF Deeds, Logs, SoarLogs, SoarFindsPost
<1>3. CASE step.action = "sentinelone_isolate"
  <2>1. deeds = <<"find", "post">> \o <<"append">>
    BY <1>3 DEF HandlerOf, Isolate, SentinelOneDriver, Handler
  <2>2. /\ deeds \in Seq(Deeds) /\ Len(deeds) = 3
        /\ deeds[1] = "find" /\ deeds[2] = "post" /\ deeds[3] = "append"
    BY <2>1, ConcatProperties DEF Deeds
  <2> QED BY <1>3, <2>2 DEF Deeds, Logs, SoarLogs, SoarFindsPost
<1>4. CASE step.action = "ise_quarantine"
  <2>1. deeds = <<"send">>
    BY <1>4 DEF HandlerOf, IseQuarantine, Handler
  <2> QED BY <1>4, <2>1 DEF Deeds, Logs, SoarLogs, SoarFindsPost
<1>5. CASE step.action \in {"notify_slack", "page_oncall", "create_jira_ticket"}
  <2>1. deeds = <<"post">>
    BY <1>5 DEF HandlerOf, NotifySlack, PageOncall, CreateJiraTicket, Handler
  <2> QED BY <1>5, <2>1 DEF Deeds, Logs, SoarLogs, SoarFindsPost
<1>6. CASE step.action = "disable_ad_account"
  <2>1. deeds = <<"modify", "append">>
    BY <1>6 DEF HandlerOf, DisableAdAccount, Handler
  <2> QED BY <1>6, <2>1 DEF Deeds, Logs, SoarLogs, SoarFindsPost
<1>7. CASE step.action = "block_ip_firewall"
  <2>1. deeds = <<"append">> \o IF step.waf THEN <<"send">> ELSE <<>>
    BY <1>7 DEF HandlerOf, BlockIp, Handler
  <2>2. CASE step.waf
    <3>1. deeds \in Seq(Deeds) /\ Len(deeds) = 2 /\ deeds[1] = "append" /\ deeds[2] = "send"
      BY <2>1, <2>2, ConcatProperties DEF Deeds
    <3> QED BY <1>7, <3>1 DEF Deeds, Logs, SoarLogs, SoarFindsPost
  <2>3. CASE ~step.waf
    <3>1. deeds \in Seq(Deeds) /\ Len(deeds) = 1 /\ deeds[1] = "append"
      BY <2>1, <2>3, ConcatProperties DEF Deeds
    <3> QED BY <1>7, <3>1 DEF Deeds, Logs, SoarLogs, SoarFindsPost
  <2> QED BY <2>2, <2>3
<1> QED BY <1>1, <1>2, <1>3, <1>4, <1>5, <1>6, <1>7 DEF HandlerNames

LEMMA SoarBeforeIsTransitive ==
    ASSUME NEW a \in SoarPlaces, NEW b \in SoarPlaces, NEW c \in SoarPlaces,
           Before(a, b), Before(b, c)
    PROVE Before(a, c)
  BY DEF SoarPlaces, Before

LEMMA SoarInitInv == SoarInit => SoarIInv
<1> SUFFICES ASSUME SoarInit PROVE SoarIInv
  OBVIOUS
<1> USE DEF SoarInit
<1>1. SoarTypes
  BY DEF SoarTypes, SoarPlaces
<1>2. SoarPlace /\ SoarTakenIsDue /\ SoarTakenOnce /\ SoarLineIsLeft /\ SoarOkIsLogged
  BY DEF SoarPlace, SoarTakenIsDue, SoarTakenOnce, SoarLineIsLeft, SoarOkIsLogged
<1>3. SoarPassed
  BY DEF SoarPassed, IsDue
<1>4. ResultsAreLast
  BY DEF ResultsAreLast
<1> QED BY <1>1, <1>2, <1>3, <1>4 DEF SoarIInv

\* A step that is over is the last one taken, and its outcome is in the results.
LEMMA SoarReturn ==
    ASSUME SoarIInv, IsDue(soarAt), NEW outcome \in Outcomes,
           soarPc # "start", soarPc # "ready",
           StepReturns(outcome), UNCHANGED soarConfig, soarDone \subseteq soarDone',
           outcome = "ok" =>
             /\ StepAt(soarAt).action \in HandlerNames
             /\ SoarLogs(StepAt(soarAt)) => <<soarAt, "append">> \in soarDone
    PROVE SoarIInv'
<1> DEFINE key == KeyOf(soarAt)
           last == Len(soarTaken) + 1
<1>1. SoarTypes
  BY DEF SoarIInv
<1>2. /\ soarTaken' \in Seq(SoarPlaces \X Outcomes)
      /\ DOMAIN soarTaken' = DOMAIN soarTaken \cup {last}
      /\ last \notin DOMAIN soarTaken /\ last \in Nat /\ DOMAIN soarTaken \subseteq Nat
      /\ \A n \in DOMAIN soarTaken : n < last
      /\ \A n \in DOMAIN soarTaken : soarTaken'[n] = soarTaken[n]
      /\ soarTaken'[last] = <<soarAt, outcome>>
  BY <1>1, AppendProperties DEF SoarTypes, StepReturns
<1>3. /\ soarAt' = <<soarAt[1], soarAt[2] + 1>> /\ soarAt' \in SoarPlaces
      /\ Before(soarAt, soarAt')
      /\ \A at \in SoarPlaces : Before(at, soarAt') => Before(at, soarAt) \/ at = soarAt
  <2>1. soarAt' = <<soarAt[1], soarAt[2] + 1>> /\ soarAt \in SoarPlaces
    BY <1>1 DEF SoarTypes, StepReturns
  <2>2. PICK p \in Nat \ {0}, k \in Nat \ {0} : soarAt = <<p, k>>
    BY <2>1 DEF SoarPlaces
  <2>3. soarAt' = <<p, k + 1>>
    BY <2>1, <2>2
  <2>4. ASSUME NEW at \in SoarPlaces, Before(at, soarAt')
        PROVE Before(at, soarAt) \/ at = soarAt
    <3>1. PICK q \in Nat \ {0}, j \in Nat \ {0} : at = <<q, j>>
      BY DEF SoarPlaces
    <3> QED BY <2>2, <2>3, <2>4, <3>1 DEF Before
  <2> QED BY <2>1, <2>2, <2>3, <2>4 DEF SoarPlaces, Before
<1>4. /\ soarPlaybooks' = soarPlaybooks /\ soarPc' = "steps" /\ soarLeft' = <<>>
      /\ DOMAIN soarResults' = DOMAIN soarResults \cup {key}
      /\ soarResults'[key] = outcome
      /\ \A k \in DOMAIN soarResults : k # key => soarResults'[k] = soarResults[k]
  BY DEF StepReturns, soarConfig, KeyOf, StepAt, Playbook, Step
<1>5. SoarTypes'
  <2>1. soarAt'[1] <= Len(soarPlaybooks') + 1 /\ soarLeft' \in Seq(Deeds)
    BY <1>1, <1>3, <1>4 DEF SoarTypes
  <2> QED BY <1>1, <1>2, <1>3, <1>4, <2>1 DEF SoarTypes
<1>6. SoarPlace'
  BY <1>4 DEF SoarPlace
<1>7. SoarTakenIsDue'
  <2>1. ASSUME NEW n \in DOMAIN soarTaken
        PROVE IsDue(soarTaken[n][1]) /\ Before(soarTaken[n][1], soarAt')
    <3>1. IsDue(soarTaken[n][1]) /\ Before(soarTaken[n][1], soarAt)
      BY DEF SoarIInv, SoarTakenIsDue
    <3>2. soarTaken[n][1] \in SoarPlaces /\ soarAt \in SoarPlaces
      BY <1>1 DEF SoarTypes
    <3> QED BY <1>3, <3>1, <3>2, SoarBeforeIsTransitive
  <2>2. ASSUME NEW n \in DOMAIN soarTaken'
        PROVE IsDue(soarTaken'[n][1]) /\ Before(soarTaken'[n][1], soarAt')
    <3>1. CASE n = last
      <4>1. soarTaken'[n][1] = soarAt
        BY <1>2, <3>1
      <4> QED BY <1>3, <4>1
    <3>2. CASE n \in DOMAIN soarTaken
      <4>1. soarTaken'[n][1] = soarTaken[n][1]
        BY <1>2, <3>2
      <4> QED BY <2>1, <3>2, <4>1
    <3> QED BY <1>2, <2>2, <3>1, <3>2
  <2> QED BY <1>4, <2>2 DEF SoarTakenIsDue, IsDue
<1>8. SoarTakenOnce'
  BY <1>2 DEF SoarIInv, SoarTakenOnce, SoarTakenIsDue
<1>9. SoarPassed'
  <2> SUFFICES ASSUME NEW at \in SoarPlaces, IsDue(at), Before(at, soarAt')
               PROVE \E n \in DOMAIN soarTaken' : soarTaken'[n][1] = at
    BY <1>4 DEF SoarPassed, Takes, IsDue
  <2>1. CASE at = soarAt
    BY <1>2, <2>1
  <2>2. CASE Before(at, soarAt)
    <3>1. PICK n \in DOMAIN soarTaken : soarTaken[n][1] = at
      BY <2>2 DEF SoarIInv, SoarPassed, Takes
    <3> QED BY <1>2, <3>1
  <2> QED BY <1>3, <2>1, <2>2
<1>10. ResultsAreLast'
  <2>1. /\ DOMAIN soarResults = {KeyOf(soarTaken[n][1]) : n \in DOMAIN soarTaken}
        /\ \A n \in DOMAIN soarTaken :
             LastOfKey(n) => soarResults[KeyOf(soarTaken[n][1])] = soarTaken[n][2]
    BY DEF SoarIInv, ResultsAreLast
  <2>2. ASSUME NEW at PROVE KeyOf(at)' = KeyOf(at')
    BY <1>4 DEF KeyOf, StepAt
  <2>3. DOMAIN soarResults' = {KeyOf(soarTaken'[n][1]) : n \in DOMAIN soarTaken'}
    BY <1>2, <1>4, <2>1
  <2>4. ASSUME NEW n \in DOMAIN soarTaken',
               \A m \in DOMAIN soarTaken' : KeyOf(soarTaken'[m][1]) = KeyOf(soarTaken'[n][1]) => m <= n
        PROVE soarResults'[KeyOf(soarTaken'[n][1])] = soarTaken'[n][2]
    <3>1. CASE n = last
      BY <1>2, <1>4, <3>1
    <3>2. CASE n \in DOMAIN soarTaken
      <4>1. KeyOf(soarTaken[n][1]) # key
        BY <1>2, <2>4, <3>2
      <4>2. LastOfKey(n)
        BY <1>2, <2>4, <3>2 DEF LastOfKey
      <4>3. KeyOf(soarTaken[n][1]) \in DOMAIN soarResults
        BY <2>1, <3>2
      <4> QED BY <1>2, <1>4, <2>1, <3>2, <4>1, <4>2, <4>3
    <3> QED BY <1>2, <3>1, <3>2
  <2>5. DOMAIN soarResults' = {KeyOf(soarTaken[n][1]) : n \in DOMAIN soarTaken}'
    BY <1>4, <2>3 DEF KeyOf, StepAt
  <2>6. (\A n \in DOMAIN soarTaken :
           LastOfKey(n) => soarResults[KeyOf(soarTaken[n][1])] = soarTaken[n][2])'
    BY <1>4, <2>4 DEF LastOfKey, KeyOf, StepAt
  <2> QED BY <2>5, <2>6 DEF ResultsAreLast
<1>11. SoarLineIsLeft'
  BY <1>4 DEF SoarLineIsLeft
<1>12. SoarOkIsLogged'
  <2> SUFFICES ASSUME NEW n \in DOMAIN soarTaken', soarTaken'[n][2] = "ok"
               PROVE /\ StepAt(soarTaken'[n][1]).action \in HandlerNames
                     /\ SoarLogs(StepAt(soarTaken'[n][1]))
                          => <<soarTaken'[n][1], "append">> \in soarDone'
    BY <1>4 DEF SoarOkIsLogged, StepAt
  <2>1. CASE n = last
    <3>1. soarTaken'[n][1] = soarAt /\ soarTaken'[n][2] = outcome
      BY <1>2, <2>1
    <3> QED BY <3>1
  <2>2. CASE n \in DOMAIN soarTaken
    <3>1. soarTaken'[n] = soarTaken[n]
      BY <1>2, <2>2
    <3> QED BY <2>2, <3>1 DEF SoarIInv, SoarOkIsLogged
  <2> QED BY <1>2, <2>1, <2>2
<1> QED BY <1>5, <1>6, <1>7, <1>8, <1>9, <1>10, <1>11, <1>12 DEF SoarIInv

LEMMA SoarStartInv ==
    ASSUME SoarIInv, NEW playbooks \in PlaybookFiles, NEW services \in Configured,
           StartEngine(playbooks, services)
    PROVE SoarIInv'
<1>1. /\ soarTaken = <<>> /\ soarAt = <<1, 1>> /\ soarResults = <<>>
      /\ soarPlaybooks' \in Seq(PlaybookRecord) /\ soarPc' = "ready"
      /\ UNCHANGED <<soarAt, soarLeft, soarResults, soarTaken, soarDone>>
  BY SoarAssumption DEF SoarIInv, SoarPlace, StartEngine
<1>2. SoarTypes'
  BY <1>1 DEF SoarIInv, SoarTypes, SoarPlaces
<1>3. SoarPlace' /\ SoarTakenIsDue' /\ SoarTakenOnce' /\ SoarLineIsLeft' /\ SoarOkIsLogged'
  BY <1>1 DEF SoarPlace, SoarTakenIsDue, SoarTakenOnce, SoarLineIsLeft, SoarOkIsLogged
<1>4. SoarPassed'
  BY <1>1 DEF SoarPassed, SoarPlaces, Before
<1>5. ResultsAreLast'
  BY <1>1 DEF ResultsAreLast
<1> QED BY <1>2, <1>3, <1>4, <1>5 DEF SoarIInv

\* What a step keeps that takes no step of a playbook and stays at its place.
LEMMA SoarStays ==
    ASSUME SoarIInv, soarPlaybooks' = soarPlaybooks,
           UNCHANGED <<soarAt, soarResults, soarTaken>>, soarDone \subseteq soarDone'
    PROVE /\ SoarTakenIsDue' /\ SoarTakenOnce' /\ SoarPassed'
          /\ ResultsAreLast' /\ SoarOkIsLogged'
<1>1. SoarTakenIsDue' /\ SoarTakenOnce' /\ SoarPassed'
  BY DEF SoarIInv, SoarTakenIsDue, SoarTakenOnce, SoarPassed, IsDue, Takes
<1>2. ResultsAreLast'
  BY DEF SoarIInv, ResultsAreLast, LastOfKey, KeyOf, StepAt
<1>3. SoarOkIsLogged'
  BY DEF SoarIInv, SoarOkIsLogged, StepAt
<1> QED BY <1>1, <1>2, <1>3

LEMMA SoarNextPlaybookInv ==
    ASSUME SoarIInv, NextPlaybook
    PROVE SoarIInv'
<1>1. PICK p \in Nat \ {0}, k \in Nat \ {0} : soarAt = <<p, k>>
  BY DEF SoarIInv, SoarTypes, SoarPlaces
<1>2. /\ soarAt' = <<p + 1, 1>> /\ p <= Len(soarPlaybooks)
      /\ soarPlaybooks' = soarPlaybooks /\ soarPc' = soarPc /\ soarPc = "steps"
      /\ UNCHANGED <<soarLeft, soarResults, soarTaken, soarDone>>
      /\ ~soarPlaybooks[p].on_alert \/ k > Len(soarPlaybooks[p].steps)
  BY <1>1 DEF NextPlaybook, soarConfig, Playbook
<1>3. SoarTypes'
  BY <1>2 DEF SoarIInv, SoarTypes, SoarPlaces
<1>4. SoarPlace' /\ SoarLineIsLeft'
  BY <1>2 DEF SoarPlace, SoarLineIsLeft
<1>5. ASSUME NEW at \in SoarPlaces, IsDue(at)
      PROVE Before(at, soarAt') <=> Before(at, soarAt)
  <2>1. PICK q \in Nat \ {0}, j \in Nat \ {0} : at = <<q, j>>
    BY DEF SoarPlaces
  <2>2. q \in DOMAIN soarPlaybooks /\ soarPlaybooks[q].on_alert /\ j \in DOMAIN soarPlaybooks[q].steps
    BY <1>5, <2>1 DEF IsDue
  <2>3. soarPlaybooks[q].steps \in Seq(PlaybookStep)
    <3>1. soarPlaybooks[q] \in PlaybookRecord
      BY <2>2 DEF SoarIInv, SoarTypes
    <3> QED BY <3>1 DEF PlaybookRecord
  <2>4. j <= Len(soarPlaybooks[q].steps)
    BY <2>2, <2>3
  <2> QED BY <1>1, <1>2, <2>1, <2>2, <2>4 DEF Before
<1>6. \A n \in DOMAIN soarTaken : soarTaken[n][1] \in SoarPlaces
  BY DEF SoarIInv, SoarTypes
<1>7. SoarTakenIsDue'
  BY <1>2, <1>5, <1>6 DEF SoarIInv, SoarTakenIsDue, IsDue
<1>8. SoarPassed'
  BY <1>2, <1>5 DEF SoarIInv, SoarPassed, IsDue, Takes
<1>9. SoarTakenOnce' /\ SoarOkIsLogged'
  BY <1>2 DEF SoarIInv, SoarTakenOnce, SoarOkIsLogged, StepAt
<1>10. ResultsAreLast'
  BY <1>2 DEF SoarIInv, ResultsAreLast, LastOfKey, KeyOf, StepAt
<1> QED BY <1>3, <1>4, <1>7, <1>8, <1>9, <1>10 DEF SoarIInv

\* The step due is the one at the place of the engine.
LEMMA SoarStepIsDue ==
    ASSUME SoarIInv, StepIsDue
    PROVE IsDue(soarAt) /\ Step = StepAt(soarAt)
<1>1. soarAt[1] \in DOMAIN soarPlaybooks /\ soarPlaybooks[soarAt[1]].steps \in Seq(PlaybookStep)
  <2>1. soarAt[1] \in DOMAIN soarPlaybooks /\ soarPlaybooks[soarAt[1]] \in PlaybookRecord
    BY DEF SoarIInv, SoarTypes, StepIsDue, SoarPlaces
  <2> QED BY <2>1 DEF PlaybookRecord
<1>2. soarAt[2] \in DOMAIN soarPlaybooks[soarAt[1]].steps
  BY <1>1 DEF SoarIInv, SoarTypes, StepIsDue, SoarPlaces, Playbook
<1> QED BY <1>1, <1>2 DEF IsDue, Step, StepAt, Playbook, StepIsDue

LEMMA SoarStepRefusedInv ==
    ASSUME SoarIInv, StepRefused
    PROVE SoarIInv'
<1>1. IsDue(soarAt) /\ soarPc = "steps"
  BY SoarStepIsDue DEF StepRefused, StepIsDue
<1>2. UNCHANGED soarConfig /\ soarDone \subseteq soarDone'
  BY DEF StepRefused
<1>3. PICK outcome \in {"unknown_action", "missing_config"} : StepReturns(outcome)
  BY DEF StepRefused
<1>4. outcome \in Outcomes /\ outcome # "ok"
  BY DEF Outcomes
<1> QED BY <1>1, <1>2, <1>3, <1>4, SoarReturn

LEMMA SoarStepBeginsInv ==
    ASSUME SoarIInv, StepBegins
    PROVE SoarIInv'
<1>1. IsDue(soarAt) /\ Step = StepAt(soarAt)
  BY SoarStepIsDue DEF StepBegins
<1>2. /\ StepAt(soarAt).action \in HandlerNames
      /\ soarLeft' = HandlerOf(StepAt(soarAt)).deeds
      /\ soarPc' = "handler" /\ soarPlaybooks' = soarPlaybooks
      /\ UNCHANGED <<soarAt, soarResults, soarTaken, soarDone>>
  BY <1>1 DEF StepBegins, soarConfig
<1>3. /\ soarLeft' \in Seq(Deeds) /\ SoarFindsPost(soarLeft')
      /\ Logs(soarLeft') <=> SoarLogs(StepAt(soarAt))
  BY <1>2, SoarHandlers
<1>4. SoarTypes'
  BY <1>2, <1>3 DEF SoarIInv, SoarTypes
<1>5. SoarPlace'
  BY <1>1, <1>2 DEF SoarPlace, IsDue, StepAt
<1>6. SoarLineIsLeft'
  BY <1>2, <1>3 DEF SoarLineIsLeft, StepAt
<1> QED BY <1>2, <1>4, <1>5, <1>6, SoarStays DEF SoarIInv

\* A query that finds nothing drops the request after it, never a line.
LEMMA SoarDeedDoneInv ==
    ASSUME SoarIInv, DeedDone
    PROVE SoarIInv'
<1>1. /\ soarPc = "handler" /\ soarPc' = "handler" /\ soarPlaybooks' = soarPlaybooks
      /\ UNCHANGED <<soarAt, soarResults, soarTaken>>
      /\ soarDone' = soarDone \cup {<<soarAt, Head(soarLeft)>>}
      /\ soarLeft \in Seq(Deeds) /\ soarLeft # <<>> /\ SoarFindsPost(soarLeft)
  BY DEF SoarIInv, SoarTypes, SoarLineIsLeft, DeedDone, soarConfig
<1>2. /\ Head(soarLeft) = soarLeft[1] /\ 1 \in DOMAIN soarLeft
      /\ Tail(soarLeft) \in Seq(Deeds) /\ Len(Tail(soarLeft)) = Len(soarLeft) - 1
      /\ \A k \in 1 .. Len(soarLeft) - 1 : Tail(soarLeft)[k] = soarLeft[k + 1]
  BY <1>1, HeadTailProperties
<1>3. ASSUME soarLeft' = Tail(soarLeft)
      PROVE /\ soarLeft' \in Seq(Deeds) /\ SoarFindsPost(soarLeft')
            /\ Logs(soarLeft) => Logs(soarLeft') \/ Head(soarLeft) = "append"
  <2>1. soarLeft' \in Seq(Deeds) /\ SoarFindsPost(soarLeft')
    <3>1. ASSUME NEW k \in DOMAIN soarLeft', soarLeft'[k] = "find"
          PROVE k + 1 \in DOMAIN soarLeft' /\ soarLeft'[k + 1] = "post"
      <4>1. k \in 1 .. Len(soarLeft) - 1 /\ k + 1 \in DOMAIN soarLeft /\ soarLeft[k + 1] = "find"
        BY <1>1, <1>2, <1>3, <3>1
      <4>2. (k + 1) + 1 \in DOMAIN soarLeft /\ soarLeft[(k + 1) + 1] = "post"
        BY <1>1, <4>1 DEF SoarFindsPost
      <4> QED BY <1>1, <1>2, <1>3, <4>1, <4>2
    <3> QED BY <1>2, <1>3, <3>1 DEF SoarFindsPost
  <2>2. Logs(soarLeft) => Logs(soarLeft') \/ Head(soarLeft) = "append"
    <3> SUFFICES ASSUME NEW k \in DOMAIN soarLeft, soarLeft[k] = "append", k # 1
                 PROVE Logs(soarLeft')
      BY <1>2 DEF Logs
    <3>1. k - 1 \in DOMAIN soarLeft' /\ soarLeft'[k - 1] = "append"
      BY <1>1, <1>2, <1>3
    <3> QED BY <3>1 DEF Logs
  <2> QED BY <2>1, <2>2
<1>4. ASSUME Head(soarLeft) = "find", soarLeft' = Tail(Tail(soarLeft))
      PROVE /\ soarLeft' \in Seq(Deeds) /\ SoarFindsPost(soarLeft')
            /\ Logs(soarLeft) => Logs(soarLeft') \/ Head(soarLeft) = "append"
  <2>1. 2 \in DOMAIN soarLeft /\ soarLeft[2] = "post"
    BY <1>1, <1>2, <1>4 DEF SoarFindsPost
  <2>2. /\ soarLeft' \in Seq(Deeds) /\ Len(soarLeft') = Len(soarLeft) - 2
        /\ \A k \in 1 .. Len(soarLeft) - 2 : soarLeft'[k] = soarLeft[k + 2]
    <3>1. Tail(soarLeft) # <<>>
      <4>1. Len(soarLeft) \in Nat /\ Len(soarLeft) >= 2
        BY <1>1, <2>1, LenProperties
      <4>2. Len(Tail(soarLeft)) # 0
        BY <1>2, <4>1
      <4> QED BY <1>2, <4>2, EmptySeq
    <3>2. /\ soarLeft' \in Seq(Deeds) /\ Len(soarLeft') = Len(Tail(soarLeft)) - 1
          /\ \A k \in 1 .. Len(Tail(soarLeft)) - 1 : soarLeft'[k] = Tail(soarLeft)[k + 1]
      BY <1>2, <1>4, <3>1, HeadTailProperties
    <3> QED BY <1>1, <1>2, <3>2
  <2>3. SoarFindsPost(soarLeft')
    <3>1. ASSUME NEW k \in DOMAIN soarLeft', soarLeft'[k] = "find"
          PROVE k + 1 \in DOMAIN soarLeft' /\ soarLeft'[k + 1] = "post"
      <4>1. k \in 1 .. Len(soarLeft) - 2 /\ k + 2 \in DOMAIN soarLeft /\ soarLeft[k + 2] = "find"
        BY <1>1, <2>1, <2>2, <3>1
      <4>2. (k + 2) + 1 \in DOMAIN soarLeft /\ soarLeft[(k + 2) + 1] = "post"
        BY <1>1, <4>1 DEF SoarFindsPost
      <4> QED BY <1>1, <2>2, <4>1, <4>2
    <3> QED BY <3>1 DEF SoarFindsPost
  <2>4. Logs(soarLeft) => Logs(soarLeft')
    <3> SUFFICES ASSUME NEW k \in DOMAIN soarLeft, soarLeft[k] = "append"
                 PROVE Logs(soarLeft')
      BY DEF Logs
    <3>1. k # 1 /\ k # 2 /\ k \in 1 .. Len(soarLeft)
      BY <1>1, <1>2, <1>4, <2>1
    <3>2. k - 2 \in 1 .. Len(soarLeft) - 2 /\ (k - 2) + 2 = k
      BY <1>1, <3>1
    <3>3. k - 2 \in DOMAIN soarLeft' /\ soarLeft'[k - 2] = "append"
      BY <2>2, <3>2
    <3> QED BY <3>3 DEF Logs
  <2> QED BY <2>2, <2>3, <2>4
<1>5. /\ soarLeft' \in Seq(Deeds) /\ SoarFindsPost(soarLeft')
      /\ Logs(soarLeft) => Logs(soarLeft') \/ Head(soarLeft) = "append"
  <2>1. \/ soarLeft' = Tail(soarLeft)
        \/ Head(soarLeft) = "find" /\ soarLeft' = Tail(Tail(soarLeft))
    BY DEF DeedDone
  <2> QED BY <1>3, <1>4, <2>1
<1>6. SoarTypes'
  BY <1>1, <1>5 DEF SoarIInv, SoarTypes
<1>7. SoarPlace'
  BY <1>1 DEF SoarIInv, SoarPlace, IsDue, StepAt
<1>8. SoarLineIsLeft'
  <2>1. SoarLogs(StepAt(soarAt)) => Logs(soarLeft) \/ <<soarAt, "append">> \in soarDone
    BY <1>1 DEF SoarIInv, SoarLineIsLeft
  <2>2. SoarLogs(StepAt(soarAt)) => Logs(soarLeft') \/ <<soarAt, "append">> \in soarDone'
    BY <1>1, <1>5, <2>1
  <2> QED BY <1>1, <1>5, <2>2 DEF SoarLineIsLeft, StepAt
<1> QED BY <1>1, <1>6, <1>7, <1>8, SoarStays DEF SoarIInv

LEMMA SoarDeedRaisesInv ==
    ASSUME SoarIInv, DeedRaises
    PROVE SoarIInv'
<1>1. IsDue(soarAt) /\ soarPc = "handler"
  BY DEF SoarIInv, SoarPlace, DeedRaises
<1>2. StepReturns("error") /\ UNCHANGED soarConfig /\ soarDone \subseteq soarDone'
  BY DEF DeedRaises
<1>3. "error" \in Outcomes
  BY DEF Outcomes
<1> QED BY <1>1, <1>2, <1>3, SoarReturn

\* A handler with nothing left to do has appended its line.
LEMMA SoarHandlerReturnsInv ==
    ASSUME SoarIInv, HandlerReturns
    PROVE SoarIInv'
<1>1. /\ IsDue(soarAt) /\ soarPc = "handler" /\ soarLeft = <<>>
      /\ StepAt(soarAt).action \in HandlerNames
  BY DEF SoarIInv, SoarPlace, HandlerReturns
<1>2. StepReturns("ok") /\ UNCHANGED soarConfig /\ soarDone \subseteq soarDone'
  BY DEF HandlerReturns
<1>3. SoarLogs(StepAt(soarAt)) => <<soarAt, "append">> \in soarDone
  BY <1>1 DEF SoarIInv, SoarLineIsLeft, Logs
<1>4. "ok" \in Outcomes
  BY DEF Outcomes
<1> QED BY <1>1, <1>2, <1>3, <1>4, SoarReturn

LEMMA SoarOtherInv ==
    ASSUME SoarIInv, (\E a \in Alerts : IngestAlert(a)) \/ AlertProcessed \/ UNCHANGED soarVars
    PROVE SoarIInv'
<1>1. /\ soarPlaybooks' = soarPlaybooks
      /\ UNCHANGED <<soarAt, soarLeft, soarResults, soarTaken, soarDone>>
      /\ \/ soarPc' = "steps"
         \/ soarPc' = "processed" /\ soarAt[1] > Len(soarPlaybooks)
         \/ soarPc' = soarPc
  BY DEF IngestAlert, AlertProcessed, soarConfig, soarVars
<1>2. SoarTypes'
  BY <1>1 DEF SoarIInv, SoarTypes
<1>3. SoarPlace' /\ SoarLineIsLeft'
  BY <1>1 DEF SoarIInv, SoarPlace, SoarLineIsLeft, IsDue, StepAt
<1> QED BY <1>1, <1>2, <1>3, SoarStays DEF SoarIInv

LEMMA SoarStepInv == SoarIInv /\ [SoarNext]_soarVars => SoarIInv'
<1> SUFFICES ASSUME SoarIInv, [SoarNext]_soarVars PROVE SoarIInv'
  OBVIOUS
<1>1. CASE \E p \in PlaybookFiles, s \in Configured : StartEngine(p, s)
  BY <1>1, SoarStartInv
<1>2. CASE NextPlaybook
  BY <1>2, SoarNextPlaybookInv
<1>3. CASE StepRefused
  BY <1>3, SoarStepRefusedInv
<1>4. CASE StepBegins
  BY <1>4, SoarStepBeginsInv
<1>5. CASE DeedDone
  BY <1>5, SoarDeedDoneInv
<1>6. CASE DeedRaises
  BY <1>6, SoarDeedRaisesInv
<1>7. CASE HandlerReturns
  BY <1>7, SoarHandlerReturnsInv
<1>8. CASE (\E a \in Alerts : IngestAlert(a)) \/ AlertProcessed \/ UNCHANGED soarVars
  BY <1>8, SoarOtherInv
<1> QED BY <1>1, <1>2, <1>3, <1>4, <1>5, <1>6, <1>7, <1>8 DEF SoarNext

\* The place of the engine is one of its playbooks, and that of a handler one of
\* the steps there; what is left of a handler is made of deeds; and a result is
\* one of the four outcomes.
THEOREM SoarTypeCorrect == SoarSpec => []SoarTypeOK
<1>1. SoarIInv => SoarTypeOK
  <2> SUFFICES ASSUME SoarIInv PROVE SoarTypeOK
    OBVIOUS
  <2>1. soarAt[1] \in 1 .. Len(soarPlaybooks) + 1
    BY DEF SoarIInv, SoarTypes, SoarPlaces
  <2>2. soarPc = "handler" => soarAt[2] \in DOMAIN soarPlaybooks[soarAt[1]].steps
    BY DEF SoarIInv, SoarPlace, IsDue
  <2> QED BY <2>1, <2>2 DEF SoarIInv, SoarTypes, SoarTypeOK
<1> QED BY <1>1, SoarInitInv, SoarStepInv, PTL DEF SoarSpec

\* The steps of the playbooks that are on are taken in order, and all of them that are
\* triggered, whatever a handler raises; the results are the last outcomes, and a step
\* that ended "ok" has appended its line.
THEOREM EveryStepIsAttempted == SoarSpec => []EveryStepAttempted
<1>1. SoarIInv => EveryStepAttempted
  <2> SUFFICES ASSUME SoarIInv PROVE EveryStepAttempted
    OBVIOUS
  <2>1. /\ \A n \in DOMAIN soarTaken : soarTaken[n][1] \in SoarPlaces
        /\ soarAt \in SoarPlaces
    BY DEF SoarIInv, SoarTypes
  <2>2. ASSUME NEW at \in Due
        PROVE /\ IsDue(at) /\ at \in SoarPlaces
              /\ Before(at, soarAt) => \E n \in DOMAIN soarTaken : Takes(n, at)
    <3>1. PICK p \in DOMAIN soarPlaybooks : at \in {p} \X DOMAIN soarPlaybooks[p].steps
      BY DEF Due
    <3>2. soarPlaybooks[p] \in PlaybookRecord /\ p \in Nat \ {0}
      BY DEF SoarIInv, SoarTypes
    <3>3. soarPlaybooks[p].steps \in Seq(PlaybookStep)
      BY <3>2 DEF PlaybookRecord
    <3>4. at \in SoarPlaces
      BY <3>1, <3>2, <3>3 DEF SoarPlaces
    <3>5. IsDue(at)
      BY DEF Due
    <3> QED BY <3>4, <3>5 DEF SoarIInv, SoarPassed
  <2>3. TakenInOrder
    <3>1. \A n \in DOMAIN soarTaken : IsDue(soarTaken[n][1])
      BY DEF SoarIInv, SoarTakenIsDue
    <3>2. \A m, n \in DOMAIN soarTaken : m < n => ~Before(soarTaken[n][1], soarTaken[m][1])
      BY <2>1 DEF SoarIInv, SoarTakenOnce, Before, SoarPlaces
    <3>3. ASSUME NEW n \in DOMAIN soarTaken, NEW at \in Due, Before(at, soarTaken[n][1])
          PROVE \E m \in DOMAIN soarTaken : Takes(m, at)
      <4>1. Before(soarTaken[n][1], soarAt)
        BY DEF SoarIInv, SoarTakenIsDue
      <4>2. Before(at, soarAt)
        BY <2>1, <2>2, <3>3, <4>1, SoarBeforeIsTransitive
      <4> QED BY <2>2, <4>2
    <3>4. ASSUME soarPc = "processed", NEW at \in Due
          PROVE \E n \in DOMAIN soarTaken : Takes(n, at)
      <4>1. soarAt[1] > Len(soarPlaybooks) /\ at[1] \in 1 .. Len(soarPlaybooks)
        BY <2>2, <3>4 DEF SoarIInv, SoarTypes, SoarPlace, IsDue
      <4>2. Before(at, soarAt)
        BY <2>1, <4>1 DEF Before, SoarPlaces, SoarIInv, SoarTypes
      <4> QED BY <2>2, <4>2
    <3> QED BY <3>1, <3>2, <3>3, <3>4 DEF TakenInOrder
  <2>4. OkIsLogged
    <3> SUFFICES ASSUME NEW n \in DOMAIN soarTaken, soarTaken[n][2] = "ok",
                        Logs(HandlerOf(StepAt(soarTaken[n][1])).deeds)
                 PROVE <<soarTaken[n][1], "append">> \in soarDone
      BY DEF OkIsLogged
    <3>1. /\ StepAt(soarTaken[n][1]).action \in HandlerNames
          /\ SoarLogs(StepAt(soarTaken[n][1])) => <<soarTaken[n][1], "append">> \in soarDone
      BY DEF SoarIInv, SoarOkIsLogged
    <3> QED BY <3>1, SoarHandlers
  <2> QED BY <2>3, <2>4 DEF SoarIInv, EveryStepAttempted
<1> QED BY <1>1, SoarInitInv, SoarStepInv, PTL DEF SoarSpec

=============================================================================
