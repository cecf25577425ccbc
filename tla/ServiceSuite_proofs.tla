------------------------ MODULE ServiceSuite_proofs -------------------------
(***************************************************************************)
(* The services that keep records: the DNS records, the lists of revoked   *)
(* tokens, and the tokens of the token engine.  They share no state, and   *)
(* neither do the three parts of this module about them.  The fourth part  *)
(* puts them together with those of ServiceDelivery_proofs: what holds of  *)
(* each component alone holds when all of them run.                        *)
(***************************************************************************)
EXTENDS ServiceSuite, ServiceDelivery_proofs, FiniteSetTheorems

-----------------------------------------------------------------------------
(***************************************************************************)
(* ExtraRecordsNeedRace for any number of upserts and values.              *)
(*                                                                         *)
(* At Cloudflare the upserts that are about to make a record count as if   *)
(* they had made it: an upsert joins them only while there is no record,   *)
(* when they are no more than the upserts under way.  An upsert that has   *)
(* been alone is the only one under way, so it meets what it was told.     *)
(***************************************************************************)
\* The upserts about to make a record.
DnsMakers == {u \in Upserts : dnsStage[u] = "write" /\ dnsFound[u] = 0}

MostIsReached == Cardinality(UnderWay) <= dnsMost
MakersArePaid ==
    IF dnsProvider = "cloudflare"
      THEN Len(dnsRecords) + Cardinality(DnsMakers) <= dnsMost
      ELSE Len(dnsRecords) <= 1
AloneMeansAlone ==
    \A u \in Upserts : dnsAlone[u] /\ dnsStage[u] # "idle" =>
        /\ UnderWay = {u}
        /\ dnsProvider = "cloudflare" /\ dnsStage[u] = "write" /\ dnsFound[u] = 0 => dnsRecords = <<>>
NothingEarly == dnsProvider = "none" => dnsRecords = <<>> /\ UnderWay = {}

DnsIInv == DnsTypeOK /\ MostIsReached /\ MakersArePaid /\ AloneMeansAlone /\ NothingEarly

\* What ExtraRecordsNeedRace asks of one step.
RecordsBounded == Len(dnsRecords') <= IF dnsProvider = "cloudflare" THEN dnsMost ELSE 1
LoneUpsertLeavesItsValue ==
    \A u \in Upserts :
        (/\ dnsStage[u] = "write" /\ dnsAlone[u] /\ Len(dnsRecords) <= 1
         /\ dnsRecords' # dnsRecords) => dnsRecords' = <<dnsValue[u]>>

-----------------------------------------------------------------------------
\* Sets of upserts are finite, and a subset is no larger.
LEMMA DnsCounting ==
    ASSUME NEW S \in SUBSET Upserts
    PROVE  /\ IsFiniteSet(S) /\ Cardinality(S) \in Nat
           /\ Cardinality(S) <= Cardinality(Upserts)
           /\ \A T \in SUBSET S : Cardinality(T) <= Cardinality(S)
           /\ \A u \in S : Cardinality(S \ {u}) = Cardinality(S) - 1
           /\ \A u \in Upserts \ S : Cardinality(S \cup {u}) = Cardinality(S) + 1
<1>1. IsFiniteSet(Upserts)
  BY DnsAssumption DEF DnsAssumption
<1>2. IsFiniteSet(S) /\ Cardinality(S) <= Cardinality(Upserts)
  BY <1>1, FS_Subset
<1>3. Cardinality(S) \in Nat
  BY <1>2, FS_CardinalityType
<1>4. \A T \in SUBSET S : Cardinality(T) <= Cardinality(S)
  BY <1>2, FS_Subset
<1>5. \A u \in S : Cardinality(S \ {u}) = Cardinality(S) - 1
  BY <1>2, FS_RemoveElement
<1>6. \A u \in Upserts \ S : Cardinality(S \cup {u}) = Cardinality(S) + 1
  BY <1>2, FS_AddElement
<1> QED BY <1>2, <1>3, <1>4, <1>5, <1>6

LEMMA DnsInitInv == DnsInit => DnsIInv
<1> SUFFICES ASSUME DnsInit PROVE DnsIInv
  OBVIOUS
<1>1. UnderWay = {} /\ DnsMakers = {}
  BY DEF DnsInit, UnderWay, DnsMakers
<1>2. Cardinality({}) = 0
  BY FS_EmptySet
<1>3. Cardinality(Upserts) \in Nat
  BY DnsCounting
<1>4. (CHOOSE v \in Values : TRUE) \in Values
  BY DnsAssumption DEF DnsAssumption
<1>5. DnsTypeOK
  BY <1>3, <1>4 DEF DnsInit, DnsTypeOK
<1> QED BY <1>1, <1>2, <1>5 DEF DnsInit, DnsIInv, MostIsReached, MakersArePaid, AloneMeansAlone, NothingEarly

-----------------------------------------------------------------------------
\* An upsert that leaves is under way and making a record no longer.
LEMMA DnsOverLeaves ==
    ASSUME DnsIInv, NEW u \in Upserts, dnsStage[u] # "idle", Over(u)
    PROVE  /\ UnderWay' = UnderWay \ {u} /\ DnsMakers' = DnsMakers \ {u}
           /\ Cardinality(UnderWay') <= dnsMost
           /\ Cardinality(DnsMakers') <= Cardinality(DnsMakers)
           /\ dnsStage' \in [Upserts -> {"idle", "find", "write"}]
           /\ dnsFound' \in [Upserts -> 0 .. Len(dnsRecords)]
           /\ \A w \in Upserts : w # u => dnsStage'[w] = dnsStage[w] /\ dnsFound'[w] = dnsFound[w]
           /\ dnsStage'[u] = "idle"
<1>1. /\ dnsStage' \in [Upserts -> {"idle", "find", "write"}]
      /\ dnsFound' \in [Upserts -> 0 .. Len(dnsRecords)]
      /\ \A w \in Upserts : w # u => dnsStage'[w] = dnsStage[w] /\ dnsFound'[w] = dnsFound[w]
      /\ dnsStage'[u] = "idle"
  BY DEF DnsIInv, DnsTypeOK, Over
<1>2. UnderWay' = UnderWay \ {u} /\ DnsMakers' = DnsMakers \ {u}
  BY <1>1 DEF UnderWay, DnsMakers
<1>3. UnderWay \subseteq Upserts /\ DnsMakers \subseteq Upserts
  BY DEF UnderWay, DnsMakers
<1>4. /\ Cardinality(UnderWay \ {u}) <= Cardinality(UnderWay)
      /\ Cardinality(DnsMakers \ {u}) <= Cardinality(DnsMakers)
  BY <1>3, DnsCounting
<1>5. Cardinality(UnderWay) \in Nat /\ Cardinality(UnderWay \ {u}) \in Nat /\ dnsMost \in Nat
  BY <1>3, DnsCounting DEF DnsIInv, DnsTypeOK
<1>6. Cardinality(UnderWay \ {u}) <= dnsMost
  BY <1>4, <1>5 DEF DnsIInv, MostIsReached
<1> QED BY <1>1, <1>2, <1>4, <1>6

\* The record set is replaced by one value.
LEMMA ReplaceInv ==
    ASSUME DnsIInv, NEW u \in Upserts, NEW p \in OneRequest, Replace(u, p)
    PROVE  DnsIInv' /\ RecordsBounded /\ LoneUpsertLeavesItsValue
<1>1. /\ dnsStage[u] = "write" /\ dnsProvider = p /\ Over(u)
      /\ dnsRecords' = <<dnsValue[u]>>
      /\ UNCHANGED <<dnsProvider, dnsValue, dnsMost, dnsAlone>>
  BY DEF Replace, Over
<1>2. p # "cloudflare" /\ p # "none" /\ Len(dnsRecords) <= 1
  BY <1>1 DEF OneRequest, DnsIInv, MakersArePaid
<1>3. dnsRecords' \in Seq(Values) /\ Len(dnsRecords') = 1
  BY <1>1 DEF DnsIInv, DnsTypeOK
<1>4. dnsFound' \in [Upserts -> 0 .. Len(dnsRecords')]
  <2>1. 0 .. Len(dnsRecords) \subseteq 0 .. 1
    BY <1>2 DEF DnsIInv, DnsTypeOK
  <2>2. dnsFound' \in [Upserts -> 0 .. Len(dnsRecords)]
    BY <1>1, DnsOverLeaves
  <2> QED BY <1>3, <2>1, <2>2
<1>5. DnsTypeOK'
  BY <1>1, <1>3, <1>4, DnsOverLeaves DEF DnsIInv, DnsTypeOK
<1>6. MostIsReached'
  BY <1>1, DnsOverLeaves DEF MostIsReached
<1>7. MakersArePaid'
  BY <1>1, <1>2, <1>3 DEF MakersArePaid
<1>8. \A w \in Upserts : dnsAlone[w] /\ dnsStage[w] # "idle" => w = u
  BY <1>1 DEF DnsIInv, AloneMeansAlone, UnderWay
<1>9. AloneMeansAlone'
  BY <1>1, <1>8, DnsOverLeaves DEF AloneMeansAlone
<1>10. NothingEarly'
  BY <1>1, <1>2 DEF NothingEarly
<1> QED BY <1>1, <1>2, <1>3, <1>5, <1>6, <1>7, <1>8, <1>9, <1>10
        DEF DnsIInv, RecordsBounded, LoneUpsertLeavesItsValue

\* A record is overwritten or made.
LEMMA CloudflareInv ==
    ASSUME DnsIInv, NEW u \in Upserts, CloudflareWrites(u)
    PROVE  DnsIInv' /\ RecordsBounded /\ LoneUpsertLeavesItsValue
<1>1. /\ dnsStage[u] = "write" /\ dnsProvider = "cloudflare" /\ Over(u)
      /\ UNCHANGED <<dnsProvider, dnsValue, dnsMost, dnsAlone>>
  BY DEF CloudflareWrites, Over
<1>2. /\ dnsRecords \in Seq(Values) /\ Len(dnsRecords) \in Nat /\ dnsValue[u] \in Values
      /\ dnsFound[u] \in 0 .. Len(dnsRecords) /\ dnsMost \in Nat
  BY DEF DnsIInv, DnsTypeOK
<1>3. DnsMakers \subseteq Upserts /\ Cardinality(DnsMakers) \in Nat /\ Cardinality(DnsMakers') \in Nat
  BY DnsCounting DEF DnsMakers
<1>4. /\ dnsRecords' \in Seq(Values)
      /\ dnsFound[u] # 0 => Len(dnsRecords') = Len(dnsRecords)
      /\ dnsFound[u] = 0 => Len(dnsRecords') = Len(dnsRecords) + 1
  <2>1. CASE dnsFound[u] = 0
    BY <1>2, <2>1 DEF CloudflareWrites
  <2>2. CASE dnsFound[u] # 0
    BY <1>2, <2>2 DEF CloudflareWrites
  <2> QED BY <2>1, <2>2
<1>5. Len(dnsRecords') + Cardinality(DnsMakers') <= dnsMost
  <2>1. Len(dnsRecords) + Cardinality(DnsMakers) <= dnsMost
    BY <1>1 DEF DnsIInv, MakersArePaid
  <2>2. CASE dnsFound[u] = 0
    <3>1. u \in DnsMakers
      BY <1>1, <2>2 DEF DnsMakers
    <3>2. Cardinality(DnsMakers') = Cardinality(DnsMakers) - 1
      BY <1>1, <1>3, <3>1, DnsOverLeaves, DnsCounting
    <3> QED BY <1>2, <1>3, <1>4, <2>1, <2>2, <3>2
  <2>3. CASE dnsFound[u] # 0
    <3>1. Cardinality(DnsMakers') <= Cardinality(DnsMakers)
      BY <1>1, DnsOverLeaves
    <3> QED BY <1>2, <1>3, <1>4, <2>1, <2>3, <3>1
  <2> QED BY <2>2, <2>3
<1>6. dnsFound' \in [Upserts -> 0 .. Len(dnsRecords')]
  <2>1. 0 .. Len(dnsRecords) \subseteq 0 .. Len(dnsRecords')
    BY <1>2, <1>4
  <2> QED BY <1>1, <2>1, DnsOverLeaves
<1>7. DnsTypeOK'
  BY <1>1, <1>4, <1>6, DnsOverLeaves DEF DnsIInv, DnsTypeOK
<1>8. MostIsReached' /\ MakersArePaid'
  BY <1>1, <1>5, DnsOverLeaves DEF MostIsReached, MakersArePaid
<1>9. \A w \in Upserts : dnsAlone[w] /\ dnsStage[w] # "idle" => w = u
  BY <1>1 DEF DnsIInv, AloneMeansAlone, UnderWay
<1>10. AloneMeansAlone' /\ NothingEarly'
  BY <1>1, <1>9, DnsOverLeaves DEF AloneMeansAlone, NothingEarly
<1>11. RecordsBounded
  BY <1>1, <1>2, <1>3, <1>4, <1>5 DEF RecordsBounded
<1>12. dnsAlone[u] /\ Len(dnsRecords) <= 1 => dnsRecords' = <<dnsValue[u]>>
  <2> SUFFICES ASSUME dnsAlone[u], Len(dnsRecords) <= 1 PROVE dnsRecords' = <<dnsValue[u]>>
    OBVIOUS
  <2>1. CASE dnsFound[u] = 0
    <3>1. dnsRecords = <<>>
      BY <1>1, <2>1 DEF DnsIInv, AloneMeansAlone
    <3> QED BY <2>1, <3>1 DEF CloudflareWrites
  <2>2. CASE dnsFound[u] # 0
    <3>1. dnsFound[u] = 1 /\ Len(dnsRecords) = 1
      <4>1. \A n \in Nat : \A f \in 0 .. n : n <= 1 /\ f # 0 => f = 1 /\ n = 1
        OBVIOUS
      <4> QED BY <1>2, <2>2, <4>1
    <3>2. dnsRecords' = [dnsRecords EXCEPT ![1] = dnsValue[u]]
      BY <2>2, <3>1 DEF CloudflareWrites
    <3> QED BY <1>2, <1>4, <2>2, <3>1, <3>2
  <2> QED BY <2>1, <2>2
<1> QED BY <1>1, <1>7, <1>8, <1>9, <1>10, <1>11, <1>12 DEF DnsIInv, LoneUpsertLeavesItsValue

\* A step that leaves the records alone owes only the invariant.
LEMMA UnchangedRecords ==
    ASSUME DnsIInv, dnsRecords' = dnsRecords
    PROVE  RecordsBounded /\ LoneUpsertLeavesItsValue
<1>1. Cardinality(DnsMakers) \in Nat /\ Len(dnsRecords) \in Nat /\ dnsMost \in Nat
  BY DnsCounting DEF DnsMakers, DnsIInv, DnsTypeOK
<1> QED BY <1>1 DEF DnsIInv, MakersArePaid, RecordsBounded, LoneUpsertLeavesItsValue

LEMMA DnsBeginInv ==
    ASSUME DnsIInv, NEW u \in Upserts, NEW value \in Values, BeginUpsert(u, value)
    PROVE  DnsIInv'
<1>1. /\ UNCHANGED <<dnsProvider, dnsRecords, dnsFound>>
      /\ dnsProvider # "none" /\ dnsStage[u] = "idle"
      /\ dnsStage' \in [Upserts -> {"idle", "find", "write"}]
      /\ dnsValue' \in [Upserts -> Values] /\ dnsAlone' \in [Upserts -> BOOLEAN]
      /\ dnsStage'[u] = IF dnsProvider = "cloudflare" THEN "find" ELSE "write"
      /\ \A w \in Upserts : w # u => dnsStage'[w] = dnsStage[w]
      /\ \A w \in Upserts : dnsAlone'[w] => w = u /\ UnderWay = {}
  BY DEF BeginUpsert, DnsIInv, DnsTypeOK
<1>2. UnderWay' = UnderWay \cup {u} /\ u \notin UnderWay /\ UnderWay \subseteq Upserts
  BY <1>1 DEF UnderWay
<1>3. UnderWay' \subseteq Upserts
  BY <1>2
<1>4. /\ Cardinality(UnderWay') = Cardinality(UnderWay) + 1
      /\ Cardinality(UnderWay') <= Cardinality(Upserts) /\ Cardinality(Upserts) \in Nat
      /\ Cardinality(UnderWay) \in Nat
  BY <1>2, <1>3, DnsCounting
<1>5. dnsMost' = IF Cardinality(UnderWay) >= dnsMost THEN Cardinality(UnderWay) + 1 ELSE dnsMost
  BY DEF BeginUpsert
<1>6. dnsMost \in 0 .. Cardinality(Upserts)
  BY DEF DnsIInv, DnsTypeOK
<1>7. dnsMost' \in 0 .. Cardinality(Upserts) /\ dnsMost <= dnsMost' /\ MostIsReached'
  BY <1>4, <1>5, <1>6 DEF MostIsReached
<1>8. DnsTypeOK'
  BY <1>1, <1>7 DEF DnsIInv, DnsTypeOK
<1>9. MakersArePaid'
  <2>1. CASE dnsProvider = "cloudflare"
    <3>1. DnsMakers' = DnsMakers
      BY <1>1, <2>1 DEF DnsMakers
    <3>2. DnsMakers \subseteq Upserts
      BY DEF DnsMakers
    <3>3. Cardinality(DnsMakers) \in Nat
      BY <3>2, DnsCounting
    <3>4. Len(dnsRecords) + Cardinality(DnsMakers) <= dnsMost /\ Len(dnsRecords) \in Nat
      BY <2>1 DEF DnsIInv, MakersArePaid, DnsTypeOK
    <3>5. Len(dnsRecords) + Cardinality(DnsMakers) <= dnsMost'
      BY <1>4, <1>6, <1>7, <3>3, <3>4
    <3> QED BY <1>1, <2>1, <3>1, <3>5 DEF MakersArePaid
  <2>2. CASE dnsProvider # "cloudflare"
    BY <1>1, <2>2 DEF DnsIInv, MakersArePaid
  <2> QED BY <2>1, <2>2
<1>10. AloneMeansAlone'
  BY <1>1, <1>2 DEF AloneMeansAlone
<1>11. NothingEarly'
  BY <1>1 DEF NothingEarly
<1> QED BY <1>7, <1>8, <1>9, <1>10, <1>11 DEF DnsIInv

LEMMA DnsFindInv ==
    ASSUME DnsIInv, NEW u \in Upserts, FindRecord(u)
    PROVE  DnsIInv'
<1>1. PICK r \in IF dnsRecords = <<>> THEN {0} ELSE DOMAIN dnsRecords :
        /\ dnsFound' = [dnsFound EXCEPT ![u] = r]
        /\ dnsStage[u] = "find" /\ dnsStage' = [dnsStage EXCEPT ![u] = "write"]
        /\ UNCHANGED <<dnsProvider, dnsRecords, dnsValue, dnsMost, dnsAlone>>
  BY DEF FindRecord
<1>2. dnsRecords \in Seq(Values) /\ Len(dnsRecords) \in Nat /\ dnsMost \in Nat
  BY DEF DnsIInv, DnsTypeOK
<1>3. r \in 0 .. Len(dnsRecords) /\ (r = 0 => dnsRecords = <<>>)
  BY <1>2
<1>4. /\ dnsStage' \in [Upserts -> {"idle", "find", "write"}]
      /\ dnsFound' \in [Upserts -> 0 .. Len(dnsRecords)]
      /\ dnsStage'[u] = "write" /\ dnsFound'[u] = r
      /\ \A w \in Upserts : w # u => dnsStage'[w] = dnsStage[w] /\ dnsFound'[w] = dnsFound[w]
  BY <1>1, <1>3 DEF DnsIInv, DnsTypeOK
<1>5. DnsTypeOK'
  BY <1>1, <1>4 DEF DnsIInv, DnsTypeOK
<1>6. UnderWay' = UnderWay
  BY <1>1, <1>4 DEF UnderWay
<1>7. MostIsReached' /\ NothingEarly'
  BY <1>1, <1>6 DEF DnsIInv, MostIsReached, NothingEarly
<1>8. MakersArePaid'
  <2>1. CASE dnsProvider = "cloudflare" /\ dnsRecords = <<>>
    <3>1. DnsMakers' \subseteq UnderWay' /\ UnderWay' \subseteq Upserts
      BY DEF DnsMakers, UnderWay
    <3>2. Cardinality(DnsMakers') <= Cardinality(UnderWay')
      BY <3>1, DnsCounting
    <3>3. Cardinality(DnsMakers') \in Nat /\ Cardinality(UnderWay') \in Nat
      BY <3>1, DnsCounting
    <3>4. Len(dnsRecords') = 0 /\ dnsMost' \in Nat /\ dnsProvider' = "cloudflare"
      BY <1>1, <1>2, <2>1
    <3> QED BY <1>7, <3>2, <3>3, <3>4 DEF MakersArePaid, MostIsReached
  <2>2. CASE dnsProvider = "cloudflare" /\ dnsRecords # <<>>
    <3>1. DnsMakers' = DnsMakers
      BY <1>1, <1>3, <1>4, <2>2 DEF DnsMakers
    <3> QED BY <1>1, <2>2, <3>1 DEF DnsIInv, MakersArePaid
  <2>3. CASE dnsProvider # "cloudflare"
    BY <1>1, <2>3 DEF DnsIInv, MakersArePaid
  <2> QED BY <2>1, <2>2, <2>3
<1>9. AloneMeansAlone'
  BY <1>1, <1>3, <1>4, <1>6 DEF DnsIInv, AloneMeansAlone
<1> QED BY <1>5, <1>7, <1>8, <1>9 DEF DnsIInv

LEMMA DnsLostInv ==
    ASSUME DnsIInv, NEW u \in Upserts, UpsertLost(u)
    PROVE  DnsIInv'
<1>1. /\ dnsStage[u] # "idle" /\ Over(u)
      /\ UNCHANGED <<dnsProvider, dnsRecords, dnsValue, dnsMost, dnsAlone>>
  BY DEF UpsertLost, Over
<1>2. DnsTypeOK'
  BY <1>1, DnsOverLeaves DEF DnsIInv, DnsTypeOK
<1>3. MostIsReached'
  BY <1>1, DnsOverLeaves DEF MostIsReached
<1>4. MakersArePaid'
  <2>1. DnsMakers \subseteq Upserts /\ DnsMakers' \subseteq Upserts
    BY DEF DnsMakers
  <2>2. Cardinality(DnsMakers) \in Nat /\ Cardinality(DnsMakers') \in Nat
    BY <2>1, DnsCounting
  <2>3. Cardinality(DnsMakers') <= Cardinality(DnsMakers)
    BY <1>1, DnsOverLeaves
  <2>4. Len(dnsRecords) \in Nat /\ dnsMost \in Nat
    BY DEF DnsIInv, DnsTypeOK
  <2> QED BY <1>1, <2>2, <2>3, <2>4 DEF DnsIInv, MakersArePaid
<1>5. AloneMeansAlone'
  <2>1. \A w \in Upserts : dnsAlone[w] /\ dnsStage[w] # "idle" => w = u
    BY <1>1 DEF DnsIInv, AloneMeansAlone, UnderWay
  <2> QED BY <1>1, <2>1, DnsOverLeaves DEF AloneMeansAlone
<1>6. NothingEarly'
  BY <1>1, DnsOverLeaves DEF DnsIInv, NothingEarly
<1> QED BY <1>2, <1>3, <1>4, <1>5, <1>6 DEF DnsIInv

\* Every step keeps the invariant and does what the property asks.
LEMMA DnsStepInv == DnsIInv /\ [DnsNext]_dnsVars => DnsIInv' /\ RecordsBounded /\ LoneUpsertLeavesItsValue
<1> SUFFICES ASSUME DnsIInv, [DnsNext]_dnsVars
             PROVE  DnsIInv' /\ RecordsBounded /\ LoneUpsertLeavesItsValue
  OBVIOUS
<1>1. ASSUME NEW p \in OneRequest \cup {"cloudflare"}, ChooseProvider(p)
      PROVE  DnsIInv' /\ dnsRecords' = dnsRecords
  <2>1. /\ dnsProvider = "none" /\ dnsProvider' = p /\ dnsRecords = <<>> /\ UnderWay = {}
        /\ UNCHANGED <<dnsRecords, dnsStage, dnsValue, dnsFound, dnsMost, dnsAlone>>
    BY <1>1 DEF ChooseProvider, DnsIInv, NothingEarly
  <2>2. UnderWay' = {} /\ DnsMakers' = {}
    BY <2>1 DEF UnderWay, DnsMakers
  <2>3. Cardinality({}) = 0 /\ dnsMost \in Nat
    BY FS_EmptySet DEF DnsIInv, DnsTypeOK
  <2>4. DnsTypeOK'
    BY <2>1 DEF DnsIInv, DnsTypeOK, OneRequest
  <2>5. MakersArePaid' /\ MostIsReached' /\ NothingEarly'
    BY <2>1, <2>2, <2>3 DEF MakersArePaid, MostIsReached, NothingEarly
  <2>6. AloneMeansAlone'
    BY <2>1, <2>2 DEF AloneMeansAlone, UnderWay
  <2> QED BY <2>1, <2>4, <2>5, <2>6 DEF DnsIInv
<1>2. ASSUME NEW u \in Upserts, NEW value \in Values, BeginUpsert(u, value)
      PROVE  DnsIInv' /\ dnsRecords' = dnsRecords
  BY <1>2, DnsBeginInv DEF BeginUpsert
<1>3. ASSUME NEW u \in Upserts, FindRecord(u)
      PROVE  DnsIInv' /\ dnsRecords' = dnsRecords
  BY <1>3, DnsFindInv DEF FindRecord
<1>4. ASSUME NEW u \in Upserts, UpsertLost(u)
      PROVE  DnsIInv' /\ dnsRecords' = dnsRecords
  BY <1>4, DnsLostInv DEF UpsertLost
<1>5. ASSUME NEW u \in Upserts, PowerDnsReplaces(u) \/ Rfc2136Replaces(u) \/ Route53Upserts(u)
      PROVE  DnsIInv' /\ RecordsBounded /\ LoneUpsertLeavesItsValue
  BY <1>5, ReplaceInv DEF PowerDnsReplaces, Rfc2136Replaces, Route53Upserts, OneRequest
<1>6. ASSUME NEW u \in Upserts, CloudflareWrites(u)
      PROVE  DnsIInv' /\ RecordsBounded /\ LoneUpsertLeavesItsValue
  BY <1>6, CloudflareInv
<1>7. CASE UNCHANGED dnsVars
  <2>1. UnderWay' = UnderWay /\ DnsMakers' = DnsMakers
    BY <1>7 DEF dnsVars, UnderWay, DnsMakers
  <2>2. DnsIInv'
    BY <1>7, <2>1 DEF dnsVars, DnsIInv, DnsTypeOK, MostIsReached, MakersArePaid, AloneMeansAlone, NothingEarly
  <2> QED BY <1>7, <2>2, UnchangedRecords DEF dnsVars
<1> QED BY <1>1, <1>2, <1>3, <1>4, <1>5, <1>6, <1>7, UnchangedRecords DEF DnsNext

\* Type correctness of the upserts and the records.
THEOREM DnsTypeCorrect == DnsSpec => []DnsTypeOK
<1>1. DnsIInv => DnsTypeOK
  BY DEF DnsIInv
<1>2. DnsIInv /\ [DnsNext]_dnsVars => DnsIInv'
  BY DnsStepInv
<1> QED BY <1>1, <1>2, DnsInitInv, PTL DEF DnsSpec

\* A second record needs a race at Cloudflare, there are never more records
\* than upserts at one time, and an upsert that was alone leaves its value.
THEOREM ExtraRecordsAreRaced == DnsSpec => ExtraRecordsNeedRace
<1>1. DnsIInv /\ [DnsNext]_dnsVars => DnsIInv'
  BY DnsStepInv
<1>2. DnsIInv /\ [DnsNext]_dnsVars =>
        [/\ RecordsBounded
         /\ LoneUpsertLeavesItsValue]_dnsVars
  BY DnsStepInv
<1>3. [][/\ RecordsBounded
         /\ LoneUpsertLeavesItsValue]_dnsVars <=> ExtraRecordsNeedRace
  BY DEF ExtraRecordsNeedRace, RecordsBounded, LoneUpsertLeavesItsValue
<1> QED BY <1>1, <1>2, <1>3, DnsInitInv, PTL DEF DnsSpec

-----------------------------------------------------------------------------
(***************************************************************************)
(* RevocationHolds for any services, tokens, requests and exps.            *)
(*                                                                         *)
(* What a process was told to revoke is either still in its list, under    *)
(* the exp it was told last, or that exp is over.                          *)
(***************************************************************************)
\* The list tells the truth, and what it has forgotten has lapsed.
ListIsCurrent ==
    \A s \in AuthServices : \A t \in DOMAIN authRevoked[s] :
        IF t \in DOMAIN authList[s]
          THEN authList[s][t] = authRevoked[s][t]
          ELSE authRevoked[s][t] < authClock

AuthIInv == AuthTypeOK /\ ListIsCurrent

-----------------------------------------------------------------------------
\* Entries are the partial functions from tokens to times.
LEMMA EntriesAre ==
    ASSUME NEW e PROVE  e \in Entries <=> (DOMAIN e \subseteq Tokens /\ e \in [DOMAIN e -> Times])
BY DEF Entries

\* A process that starts has none.
LEMMA NoEntries == <<>> \in Entries /\ DOMAIN <<>> = {}
<1>1. DOMAIN <<>> = {}
  OBVIOUS
<1>2. <<>> \in [{} -> Times]
  OBVIOUS
<1> QED BY <1>1, <1>2, EntriesAre

\* A revocation adds its entry and leaves the others.
LEMMA WithAdds ==
    ASSUME NEW e \in Entries, NEW jti \in Tokens, NEW exp \in Times
    PROVE  /\ With(e, jti, exp) \in Entries
           /\ DOMAIN With(e, jti, exp) = DOMAIN e \cup {jti}
           /\ \A t \in DOMAIN e \cup {jti} : With(e, jti, exp)[t] = IF t = jti THEN exp ELSE e[t]
<1>1. DOMAIN e \subseteq Tokens /\ e \in [DOMAIN e -> Times]
  BY EntriesAre
<1>2. With(e, jti, exp) \in [DOMAIN e \cup {jti} -> Times]
  BY <1>1 DEF With
<1> QED BY <1>1, <1>2, EntriesAre DEF With

\* The purge takes the lapsed entries and leaves the others.
LEMMA PurgeTakesLapsed ==
    ASSUME NEW e \in Entries
    PROVE  /\ Unlapsed(e) \in Entries
           /\ DOMAIN Unlapsed(e) = {t \in DOMAIN e : ~(e[t] < authClock)}
           /\ \A t \in DOMAIN Unlapsed(e) : Unlapsed(e)[t] = e[t]
<1>1. DOMAIN e \subseteq Tokens /\ e \in [DOMAIN e -> Times]
  BY EntriesAre
<1>2. Unlapsed(e) \in [{t \in DOMAIN e : ~(e[t] < authClock)} -> Times]
  BY <1>1 DEF Unlapsed
<1> QED BY <1>1, <1>2, EntriesAre DEF Unlapsed

-----------------------------------------------------------------------------
LEMMA AuthInitInv == AuthInit => AuthIInv
<1> SUFFICES ASSUME AuthInit PROVE AuthIInv
  OBVIOUS
<1> DEFINE requests == [service : {"controller"}, token : Tokens, revokes : {FALSE}]
<1>1. PICK t \in Tokens : TRUE
  BY AuthAssumption DEF AuthAssumption
<1>2. [service |-> "controller", token |-> t, revokes |-> FALSE] \in requests
  OBVIOUS
<1>3. (CHOOSE r \in requests : TRUE) \in requests
  BY <1>2
<1>4. requests \subseteq [service : AuthServices, token : Tokens, revokes : BOOLEAN]
  BY AuthAssumption DEF AuthAssumption
<1>5. authRequest \in [Slots -> [service : AuthServices, token : Tokens, revokes : BOOLEAN]]
  BY <1>3, <1>4 DEF AuthInit
<1>6. authClock \in Times
  BY AuthAssumption DEF AuthInit, AuthAssumption, Times
<1>7. \A s \in AuthServices : authList[s] = <<>> /\ authRevoked[s] = <<>>
  BY DEF AuthInit
<1>8. AuthTypeOK
  BY <1>5, <1>6, <1>7, NoEntries DEF AuthInit, AuthTypeOK
<1>9. ListIsCurrent
  BY <1>7, NoEntries DEF ListIsCurrent
<1> QED BY <1>8, <1>9 DEF AuthIInv

\* A step that leaves the lists alone and lets no time go back.
LEMMA ListsUntouched ==
    ASSUME AuthIInv, UNCHANGED <<authList, authRevoked>>,
           authClock' \in Times, authClock <= authClock'
    PROVE  ListIsCurrent'
<1> SUFFICES ASSUME NEW s \in AuthServices, NEW t \in DOMAIN authRevoked[s],
                    t \notin DOMAIN authList[s]
             PROVE  authRevoked[s][t] < authClock'
  BY DEF AuthIInv, ListIsCurrent
<1>1. authRevoked[s] \in Entries
  BY DEF AuthIInv, AuthTypeOK
<1>2. authRevoked[s][t] \in Times
  BY <1>1, EntriesAre
<1>3. authRevoked[s][t] < authClock
  BY DEF AuthIInv, ListIsCurrent
<1> QED BY <1>2, <1>3, AuthAssumption DEF AuthIInv, AuthTypeOK, Times, AuthAssumption

\* Every step keeps the lists current.
LEMMA AuthStepInv == AuthIInv /\ [AuthNext]_authVars => AuthIInv'
<1> SUFFICES ASSUME AuthIInv, [AuthNext]_authVars PROVE AuthIInv'
  OBVIOUS
<1> USE AuthAssumption DEF AuthAssumption
<1>1. ASSUME NEW q \in Slots, NEW s \in AuthServices, NEW t \in Tokens, NEW revokes \in BOOLEAN,
             Arrive(q, s, t, revokes)
      PROVE  AuthIInv'
  <2>1. AuthTypeOK'
    BY <1>1 DEF Arrive, Goes, AuthIInv, AuthTypeOK
  <2> QED BY <1>1, <2>1, ListsUntouched DEF Arrive, AuthIInv, AuthTypeOK, Times
<1>2. ASSUME NEW q \in Slots, MtlsVerify(q) \/ DecodeToken(q) \/ RequireRoles(q) \/ Handle(q)
      PROVE  AuthIInv'
  <2>1. UNCHANGED <<authClock, authList, authRequest, authRevoked>>
    BY <1>2 DEF MtlsVerify, DecodeToken, RequireRoles, Handle
  <2>2. authStage' \in [Slots -> {"free", "mtls", "decode", "listed", "roles", "handler"}]
    BY <1>2 DEF MtlsVerify, DecodeToken, RequireRoles, Handle, Goes, AuthIInv, AuthTypeOK
  <2>3. AuthTypeOK'
    BY <2>1, <2>2 DEF AuthIInv, AuthTypeOK
  <2> QED BY <2>1, <2>3, ListsUntouched DEF AuthIInv, AuthTypeOK, Times
<1>3. ASSUME NEW q \in Slots, CheckRevoked(q)
      PROVE  AuthIInv'
  <2> DEFINE s == authRequest[q].service
  <2>1. s \in AuthServices /\ authList[s] \in Entries
    BY DEF AuthIInv, AuthTypeOK
  <2>2. authList' = [authList EXCEPT ![s] = Unlapsed(@)] /\ UNCHANGED <<authClock, authRequest, authRevoked>>
    BY <1>3 DEF CheckRevoked
  <2>3. authStage' \in [Slots -> {"free", "mtls", "decode", "listed", "roles", "handler"}]
    BY <1>3 DEF CheckRevoked, Goes, AuthIInv, AuthTypeOK
  <2>4. authList' \in [AuthServices -> Entries]
    BY <2>1, <2>2, PurgeTakesLapsed DEF AuthIInv, AuthTypeOK
  <2>5. \A r \in AuthServices : authList'[r] = IF r = s THEN Unlapsed(authList[s]) ELSE authList[r]
    BY <2>2 DEF AuthIInv, AuthTypeOK
  <2>6. /\ DOMAIN Unlapsed(authList[s]) = {t \in DOMAIN authList[s] : ~(authList[s][t] < authClock)}
        /\ \A t \in DOMAIN Unlapsed(authList[s]) : Unlapsed(authList[s])[t] = authList[s][t]
    BY <2>1, PurgeTakesLapsed
  <2>7. \A r \in AuthServices : DOMAIN authList'[r] \subseteq DOMAIN authList[r]
    BY <2>5, <2>6
  <2>8. AuthTypeOK'
    BY <2>2, <2>3, <2>4, <2>7 DEF AuthIInv, AuthTypeOK
  <2>9. ASSUME NEW r \in AuthServices, NEW t \in DOMAIN authRevoked[r]
        PROVE  IF t \in DOMAIN authList'[r]
                 THEN authList'[r][t] = authRevoked[r][t] ELSE authRevoked[r][t] < authClock
    <3>1. IF t \in DOMAIN authList[r]
            THEN authList[r][t] = authRevoked[r][t] ELSE authRevoked[r][t] < authClock
      BY <2>9 DEF AuthIInv, ListIsCurrent
    <3> HIDE DEF s
    <3>2. CASE r = s
      BY <2>5, <2>6, <3>1, <3>2
    <3>3. CASE r # s
      BY <2>5, <3>1, <3>3
    <3> QED BY <3>2, <3>3
  <2> QED BY <2>2, <2>8, <2>9 DEF AuthIInv, ListIsCurrent
<1>4. ASSUME NEW q \in Slots, NEW jti \in Tokens, NEW exp \in Times, RevokeToken(q, jti, exp)
      PROVE  AuthIInv'
  <2> DEFINE c == "controller"
  <2>1. authList[c] \in Entries /\ authRevoked[c] \in Entries
    BY DEF AuthIInv, AuthTypeOK
  <2>2. /\ authList' = [authList EXCEPT ![c] = With(@, jti, exp)]
        /\ authRevoked' = [authRevoked EXCEPT ![c] = With(@, jti, exp)]
        /\ UNCHANGED <<authClock, authRequest>>
    BY <1>4 DEF RevokeToken
  <2>3. \A r \in AuthServices :
          /\ authList'[r] = IF r = c THEN With(authList[c], jti, exp) ELSE authList[r]
          /\ authRevoked'[r] = IF r = c THEN With(authRevoked[c], jti, exp) ELSE authRevoked[r]
    BY <2>2 DEF AuthIInv, AuthTypeOK
  <2>4. authStage' \in [Slots -> {"free", "mtls", "decode", "listed", "roles", "handler"}]
    BY <1>4 DEF RevokeToken, Goes, AuthIInv, AuthTypeOK
  <2>5. authList' \in [AuthServices -> Entries] /\ authRevoked' \in [AuthServices -> Entries]
    BY <2>1, <2>2, WithAdds DEF AuthIInv, AuthTypeOK
  <2> DEFINE listed == With(authList[c], jti, exp)
             revoked == With(authRevoked[c], jti, exp)
  <2>10. /\ DOMAIN listed = DOMAIN authList[c] \cup {jti}
        /\ \A t \in DOMAIN authList[c] \cup {jti} : listed[t] = IF t = jti THEN exp ELSE authList[c][t]
    BY DEF listed, With
  <2>11. /\ DOMAIN revoked = DOMAIN authRevoked[c] \cup {jti}
        /\ \A t \in DOMAIN authRevoked[c] \cup {jti} : revoked[t] = IF t = jti THEN exp ELSE authRevoked[c][t]
    BY DEF revoked, With
  <2>6. ASSUME NEW r \in AuthServices PROVE DOMAIN authList'[r] \subseteq DOMAIN authRevoked'[r]
    <3>1. DOMAIN authList[r] \subseteq DOMAIN authRevoked[r]
      BY <2>6 DEF AuthIInv, AuthTypeOK
    <3>2. /\ authList'[r] = IF r = c THEN listed ELSE authList[r]
          /\ authRevoked'[r] = IF r = c THEN revoked ELSE authRevoked[r]
      BY <2>3, <2>6
    <3> HIDE DEF listed, revoked
    <3> QED BY <2>10, <2>11, <3>1, <3>2
  <2>7. AuthTypeOK'
    BY <2>2, <2>4, <2>5, <2>6 DEF AuthIInv, AuthTypeOK
  <2>8. ASSUME NEW r \in AuthServices, NEW t \in DOMAIN authRevoked'[r]
        PROVE  IF t \in DOMAIN authList'[r]
                 THEN authList'[r][t] = authRevoked'[r][t] ELSE authRevoked'[r][t] < authClock'
    <3>1. /\ authList'[r] = IF r = c THEN listed ELSE authList[r]
          /\ authRevoked'[r] = IF r = c THEN revoked ELSE authRevoked[r]
      BY <2>3, <2>8
    <3>2. \A u \in DOMAIN authRevoked[r] :
            IF u \in DOMAIN authList[r]
              THEN authList[r][u] = authRevoked[r][u] ELSE authRevoked[r][u] < authClock
      BY <2>8 DEF AuthIInv, ListIsCurrent
    <3>3. DOMAIN authList[r] \subseteq DOMAIN authRevoked[r]
      BY <2>8 DEF AuthIInv, AuthTypeOK
    <3> HIDE DEF listed, revoked
    <3>4. CASE r = c
      BY <2>2, <2>8, <2>10, <2>11, <3>1, <3>2, <3>3, <3>4
    <3>5. CASE r # c
      BY <2>2, <2>8, <3>1, <3>2, <3>5
    <3> QED BY <3>4, <3>5
  <2> QED BY <2>7, <2>8 DEF AuthIInv, ListIsCurrent
<1>5. ASSUME NEW s \in AuthServices, ServiceRestarts(s)
      PROVE  AuthIInv'
  <2>1. \A r \in AuthServices :
          /\ authList'[r] = IF r = s THEN <<>> ELSE authList[r]
          /\ authRevoked'[r] = IF r = s THEN <<>> ELSE authRevoked[r]
    BY <1>5 DEF ServiceRestarts, AuthIInv, AuthTypeOK
  <2>2. authStage' \in [Slots -> {"free", "mtls", "decode", "listed", "roles", "handler"}]
    BY <1>5 DEF ServiceRestarts, AuthIInv, AuthTypeOK
  <2>3. authList' \in [AuthServices -> Entries] /\ authRevoked' \in [AuthServices -> Entries]
    BY <1>5, NoEntries DEF ServiceRestarts, AuthIInv, AuthTypeOK
  <2>4. UNCHANGED <<authClock, authRequest>>
    BY <1>5 DEF ServiceRestarts
  <2>5. AuthTypeOK'
    BY <2>1, <2>2, <2>3, <2>4, NoEntries DEF AuthIInv, AuthTypeOK
  <2>6. ListIsCurrent'
    BY <2>1, <2>4, NoEntries DEF AuthIInv, ListIsCurrent
  <2> QED BY <2>5, <2>6 DEF AuthIInv
<1>6. CASE AuthTick
  <2>1. AuthTypeOK' /\ authClock <= authClock'
    BY <1>6 DEF AuthTick, AuthIInv, AuthTypeOK, Times
  <2> QED BY <1>6, <2>1, ListsUntouched DEF AuthTick, AuthIInv, AuthTypeOK
<1>7. CASE UNCHANGED authVars
  <2>1. AuthTypeOK'
    BY <1>7 DEF authVars, AuthIInv, AuthTypeOK
  <2> QED BY <1>7, <2>1, ListsUntouched DEF authVars, AuthIInv, AuthTypeOK, Times
<1> QED BY <1>1, <1>2, <1>3, <1>4, <1>5, <1>6, <1>7 DEF AuthNext

\* Type correctness of the services, their lists and the requests under way.
THEOREM AuthTypeCorrect == AuthSpec => []AuthTypeOK
<1>1. AuthIInv => AuthTypeOK
  BY DEF AuthIInv
<1> QED BY <1>1, AuthInitInv, AuthStepInv, PTL DEF AuthSpec

\* No token that a process was told to revoke passes its check before the exp
\* of the last revocation is over.
THEOREM RevokedStayOut == AuthSpec => RevocationHolds
<1> DEFINE Check(q) ==
      LET s == authRequest[q].service
          t == authRequest[q].token
      IN authStage[q] = "listed" /\ authStage'[q] = "roles" /\ t \in DOMAIN authRevoked[s]
           => authRevoked[s][t] < authClock
<1>1. ASSUME AuthIInv, AuthNext, NEW q \in Slots, authStage[q] = "listed", authStage'[q] = "roles"
      PROVE  Check(q)
  <2>1. CheckRevoked(q)
    BY <1>1 DEF AuthNext, Arrive, MtlsVerify, DecodeToken, CheckRevoked, RequireRoles, Handle,
                RevokeToken, ServiceRestarts, AuthTick, Goes, AuthIInv, AuthTypeOK
  <2> DEFINE s == authRequest[q].service
             t == authRequest[q].token
  <2>2. s \in AuthServices /\ authList[s] \in Entries
    BY <1>1 DEF AuthIInv, AuthTypeOK
  <2>3. authList'[s] = Unlapsed(authList[s])
    BY <1>1, <2>1, <2>2 DEF CheckRevoked, AuthIInv, AuthTypeOK
  <2>4. t \notin DOMAIN authList'[s]
    BY <1>1, <2>1 DEF CheckRevoked, Goes, AuthIInv, AuthTypeOK
  <2>5. t \in DOMAIN authList[s] => authList[s][t] < authClock
    BY <2>2, <2>3, <2>4, PurgeTakesLapsed
  <2> QED BY <1>1, <2>2, <2>5 DEF AuthIInv, ListIsCurrent
<1>2. AuthIInv /\ [AuthNext]_authVars => [\A q \in Slots : Check(q)]_authVars
  BY <1>1
<1>3. [][\A q \in Slots : Check(q)]_authVars <=> RevocationHolds
  BY DEF RevocationHolds
<1> QED BY <1>2, <1>3, AuthInitInv, AuthStepInv, PTL DEF AuthSpec

-----------------------------------------------------------------------------
(***************************************************************************)
(* TokensAreAccounted for any requests, lists of types and number of       *)
(* tokens.                                                                 *)
(*                                                                         *)
(* The number of a token is the greatest one so far, so no row has it yet, *)
(* nobody has asked for it yet, and what an access was told of its token   *)
(* stays true: a row comes only with a number that is new.                 *)
(***************************************************************************)
TokRequest ==
    [stage : RequestStages, base : Bases \cup {NoBase},
     named : Seq(STRING), made : Seq(1 .. MaxTokens), token : 0 .. MaxTokens]
TokAccess == TokenRequests \X (1 .. MaxTokens)

TokTypes ==
    /\ tokContainer \in [TokEngines -> 0 .. MaxContainers]
    /\ tokMade \in 0 .. MaxTokens
    /\ tokRows \in Seq(Row)
    /\ tokAccesses \in Seq(TokAccess)
    /\ tokRequest \in [TokenRequests -> TokRequest]

\* No two rows have the same token, and each is one that was made.
TokRowsDiffer ==
    /\ \A m, n \in DOMAIN tokRows : tokRows[m].id = tokRows[n].id => m = n
    /\ \A n \in DOMAIN tokRows : tokRows[n].id <= tokMade

TokRowsAreMade ==
    \A n \in DOMAIN tokRows : \E q \in TokenRequests :
        \E k \in DOMAIN tokRequest[q].made : tokRequest[q].made[k] = tokRows[n].id

\* The books of a request: the rows of the tokens it made, and its accesses.
TokMadeRows(r, rows) ==
    /\ Len(r.made) <= Len(r.named)
    /\ \A k \in DOMAIN r.made :
         \E n \in DOMAIN rows :
            rows[n].id = r.made[k] /\ rows[n].type = r.named[k] /\ rows[n].base = r.base

TokIn(token, base, rows) ==
    \E n \in DOMAIN rows : rows[n].id = token /\ rows[n].base = base

TokAccessed(q, token, accesses) ==
    \E n \in DOMAIN accesses :
        /\ accesses[n] = <<q, token>>
        /\ \A m \in DOMAIN accesses : accesses[m][1] = q => m = n

TokNotAccessed(q, accesses) == \A n \in DOMAIN accesses : accesses[n][1] # q

TokBooks(q, r, rows, accesses) ==
    /\ TokMadeRows(r, rows)
    /\ r.stage = "making" => r.base \in Bases
    /\ r.stage = "new" => r.named = <<>> /\ r.made = <<>> /\ r.token = 0
    /\ r.stage \in {"answered", "emitting"} => Len(r.made) = Len(r.named)
    /\ r.stage = "not_found" => ~TokIn(r.token, r.base, rows)
    /\ TokIn(r.token, r.base, rows) => TokAccessed(q, r.token, accesses)
    /\ ~TokIn(r.token, r.base, rows) => TokNotAccessed(q, accesses)

TokIInv ==
    /\ TokTypes
    /\ TokRowsDiffer
    /\ TokRowsAreMade
    /\ \A q \in TokenRequests :
         /\ TokBooks(q, tokRequest[q], tokRows, tokAccesses)
         /\ tokRequest[q].token <= tokMade

LEMMA TokInitInv == TokInit => TokIInv
<1> SUFFICES ASSUME TokInit PROVE TokIInv
  OBVIOUS
<1>1. TokTypes
  BY TokenAssumption DEF TokTypes, TokInit, TokRequest, Fresh, NoBase, RequestStages, TokenAssumption
<1>2. \A q \in TokenRequests :
        TokBooks(q, Fresh, <<>>, <<>>) /\ Fresh.token <= 0
  BY DEF TokBooks, TokMadeRows, TokIn, TokAccessed, TokNotAccessed, Fresh
<1> QED BY <1>1, <1>2 DEF TokIInv, TokInit, TokRowsDiffer, TokRowsAreMade

\* Where neither table changes, the books are those of the requests that do.
LEMMA TokRest ==
    ASSUME TokIInv, UNCHANGED <<tokRows, tokAccesses>>,
           tokContainer' \in [TokEngines -> 0 .. MaxContainers],
           tokMade' \in 0 .. MaxTokens, tokMade' >= tokMade,
           tokRequest' \in [TokenRequests -> TokRequest],
           \A q \in TokenRequests :
              tokRequest'[q] = tokRequest[q] \/
              /\ TokBooks(q, tokRequest'[q], tokRows, tokAccesses)
              /\ tokRequest'[q].token <= tokMade'
              /\ tokRequest'[q].made = tokRequest[q].made
    PROVE  TokIInv'
<1>1. tokMade \in Nat /\ tokMade' \in Nat
  BY DEF TokIInv, TokTypes
<1>2. TokTypes' /\ TokRowsDiffer'
  <2>1. \A n \in DOMAIN tokRows : tokRows[n].id \in Nat
    <3>1. tokRows \in Seq(Row)
      BY DEF TokIInv, TokTypes
    <3>2. \A n \in DOMAIN tokRows : tokRows[n] \in Row
      BY <3>1, LenProperties
    <3> QED BY <3>2 DEF Row
  <2> QED BY <1>1, <2>1 DEF TokIInv, TokTypes, TokRowsDiffer
<1>3. TokRowsAreMade'
  <2>1. \A q \in TokenRequests : tokRequest'[q].made = tokRequest[q].made
    OBVIOUS
  <2> QED BY <2>1 DEF TokIInv, TokRowsAreMade
<1>4. ASSUME NEW q \in TokenRequests
      PROVE  /\ TokBooks(q, tokRequest'[q], tokRows', tokAccesses')
             /\ tokRequest'[q].token <= tokMade'
  <2>1. CASE tokRequest'[q] = tokRequest[q]
    <3>1. tokRequest[q].token \in 0 .. MaxTokens
      BY DEF TokIInv, TokTypes, TokRequest
    <3>2. tokRequest[q].token <= tokMade /\ TokBooks(q, tokRequest[q], tokRows, tokAccesses)
      BY DEF TokIInv
    <3> QED BY <1>1, <2>1, <3>1, <3>2
  <2> QED BY <2>1
<1> QED BY <1>2, <1>3, <1>4 DEF TokIInv

\* The same, where one request changes.
LEMMA TokOneChanges ==
    ASSUME TokIInv, UNCHANGED <<tokRows, tokAccesses>>,
           tokContainer' \in [TokEngines -> 0 .. MaxContainers],
           tokMade' \in 0 .. MaxTokens, tokMade' >= tokMade,
           NEW q \in TokenRequests, NEW r \in TokRequest, tokRequest' = [tokRequest EXCEPT ![q] = r],
           TokBooks(q, r, tokRows, tokAccesses), r.token <= tokMade', r.made = tokRequest[q].made
    PROVE  TokIInv'
<1>1. tokRequest' \in [TokenRequests -> TokRequest]
  BY DEF TokIInv, TokTypes
<1>2. \A p \in TokenRequests : tokRequest'[p] = IF p = q THEN r ELSE tokRequest[p]
  BY DEF TokIInv, TokTypes
<1> QED BY <1>1, <1>2, TokRest

\* A request that goes on to another stage, and is told nothing of its tokens.
LEMMA TokMovesInv ==
    ASSUME TokIInv, UNCHANGED <<tokRows, tokAccesses>>,
           tokContainer' \in [TokEngines -> 0 .. MaxContainers],
           tokMade' \in 0 .. MaxTokens, tokMade' >= tokMade,
           NEW q \in TokenRequests, NEW stage \in RequestStages \ {"new", "making", "not_found"},
           Becomes(q, stage),
           stage \in {"answered", "emitting"} =>
             Len(tokRequest[q].made) = Len(tokRequest[q].named)
    PROVE  TokIInv'
<1> DEFINE r == [tokRequest[q] EXCEPT !.stage = stage]
<1>1. tokRequest[q] \in TokRequest /\ tokMade \in Nat
  BY DEF TokIInv, TokTypes
<1>2. /\ r \in TokRequest /\ r.stage = stage /\ r.named = tokRequest[q].named
      /\ r.made = tokRequest[q].made /\ r.token = tokRequest[q].token /\ r.base = tokRequest[q].base
  BY <1>1 DEF TokRequest
<1>3. tokRequest' = [tokRequest EXCEPT ![q] = r]
  BY DEF Becomes
<1> HIDE DEF r
<1>4. TokBooks(q, r, tokRows, tokAccesses)
  BY <1>2 DEF TokIInv, TokBooks, TokMadeRows
<1>5. r.token <= tokMade'
  <2>1. r.token \in 0 .. MaxTokens /\ r.token <= tokMade
    BY <1>1, <1>2 DEF TokIInv, TokRequest
  <2> QED BY <1>1, <2>1
<1> QED BY <1>2, <1>3, <1>4, <1>5, TokOneChanges

LEMMA TokBeginInv ==
    ASSUME TokIInv, NEW q \in TokenRequests, NEW e \in TokEngines,
           NEW types \in Seq(STRING), BeginMaking(q, e, types)
    PROVE  TokIInv'
<1> DEFINE r == [stage |-> "making", base |-> BaseOf(e), named |-> types,
                 made |-> <<>>, token |-> 0]
<1>1. /\ tokRequest' = [tokRequest EXCEPT ![q] = r] /\ tokRequest[q].stage = "new"
      /\ UNCHANGED <<tokContainer, tokRows, tokAccesses, tokMade>>
  BY DEF BeginMaking
<1>2. BaseOf(e) \in Bases /\ tokMade \in 0 .. MaxTokens /\ tokMade \in Nat /\ 0 \in 0 .. MaxTokens
  BY TokenAssumption DEF TokenAssumption, TokIInv, TokTypes, BaseOf, Bases
<1>3. r \in TokRequest
  BY <1>2 DEF TokRequest, RequestStages
<1>4. Len(types) \in Nat
  BY LenProperties
<1>5. TokBooks(q, r, tokRows, tokAccesses) /\ r.made = tokRequest[q].made
  <2>1. \A k \in DOMAIN tokRows : tokRows[k] \in Row
    BY LenProperties DEF TokIInv, TokTypes
  <2>2. \A base : ~TokIn(0, base, tokRows)
    BY <2>1 DEF Row, TokIn
  <2> QED BY <1>1, <1>2, <1>4, <2>2 DEF TokIInv, TokBooks, TokMadeRows
<1>6. r.token <= tokMade'
  BY <1>1, <1>2
<1> HIDE DEF r
<1>7. /\ tokMade' \in 0 .. MaxTokens /\ tokMade' >= tokMade /\ UNCHANGED <<tokRows, tokAccesses>>
      /\ tokContainer' \in [TokEngines -> 0 .. MaxContainers]
  BY <1>1, <1>2 DEF TokIInv, TokTypes
<1> QED BY <1>1, <1>3, <1>5, <1>6, <1>7, TokOneChanges

LEMMA TokUnknownInv ==
    ASSUME TokIInv, NEW q \in TokenRequests, NEW e \in TokEngines,
           NEW token \in 1 .. tokMade, AccessUnknown(q, e, token)
    PROVE  TokIInv'
<1> DEFINE r == [tokRequest[q] EXCEPT !.stage = "not_found", !.base = BaseOf(e), !.token = token]
<1>1. /\ tokRequest' = [tokRequest EXCEPT ![q] = r] /\ tokRequest[q].stage = "new"
      /\ UNCHANGED <<tokContainer, tokRows, tokAccesses, tokMade>>
  BY DEF AccessUnknown, Accesses
<1>2. /\ tokRequest[q] \in TokRequest /\ tokMade \in 0 .. MaxTokens /\ MaxTokens \in Nat
      /\ BaseOf(e) \in Bases
  BY TokenAssumption DEF TokenAssumption, TokIInv, TokTypes, BaseOf, Bases
<1>3. /\ r \in TokRequest /\ r.stage = "not_found" /\ r.named = tokRequest[q].named
      /\ r.made = tokRequest[q].made /\ r.token = token /\ r.base = BaseOf(e)
  <2>1. token \in 0 .. MaxTokens
    BY <1>2
  <2> QED BY <1>2, <2>1 DEF TokRequest, RequestStages
<1> HIDE DEF r
<1>4. ~TokIn(token, BaseOf(e), tokRows)
  BY DEF AccessUnknown, Ids, TokIn
<1>5. \A base : ~TokIn(0, base, tokRows)
  <2>1. \A n \in DOMAIN tokRows : tokRows[n] \in Row
    BY LenProperties DEF TokIInv, TokTypes
  <2> QED BY <2>1 DEF Row, TokIn
<1>6. TokBooks(q, r, tokRows, tokAccesses)
  BY <1>1, <1>3, <1>4, <1>5 DEF TokIInv, TokBooks, TokMadeRows
<1>7. r.token <= tokMade'
  BY <1>1, <1>2, <1>3
<1>8. /\ tokMade' \in 0 .. MaxTokens /\ tokMade' >= tokMade /\ UNCHANGED <<tokRows, tokAccesses>>
      /\ tokContainer' \in [TokEngines -> 0 .. MaxContainers]
  BY <1>1, <1>2 DEF TokIInv, TokTypes
<1> QED BY <1>1, <1>3, <1>6, <1>7, <1>8, TokOneChanges

LEMMA TokStoredInv ==
    ASSUME TokIInv, NEW q \in TokenRequests, NEW e \in TokEngines,
           NEW token \in 1 .. tokMade, AccessStored(q, e, token)
    PROVE  TokIInv'
<1> DEFINE r == [tokRequest[q] EXCEPT !.stage = "emitting", !.base = BaseOf(e), !.token = token]
           n == Len(tokAccesses)
<1>1. /\ tokRequest' = [tokRequest EXCEPT ![q] = r] /\ tokRequest[q].stage = "new"
      /\ tokAccesses' = Append(tokAccesses, <<q, token>>)
      /\ UNCHANGED <<tokContainer, tokRows, tokMade>>
  BY DEF AccessStored, Accesses
<1>2. /\ tokRequest \in [TokenRequests -> TokRequest] /\ tokRequest[q] \in TokRequest
      /\ tokMade \in 0 .. MaxTokens /\ MaxTokens \in Nat /\ tokAccesses \in Seq(TokAccess)
      /\ BaseOf(e) \in Bases
  BY TokenAssumption DEF TokenAssumption, TokIInv, TokTypes, BaseOf, Bases
<1>3. token \in 0 .. MaxTokens /\ <<q, token>> \in TokAccess
  BY <1>2 DEF TokAccess
<1>4. /\ r \in TokRequest /\ r.stage = "emitting" /\ r.named = tokRequest[q].named
      /\ r.made = tokRequest[q].made /\ r.token = token /\ r.base = BaseOf(e)
  BY <1>2, <1>3 DEF TokRequest, RequestStages
<1> HIDE DEF r
<1>5. /\ tokRequest' \in [TokenRequests -> TokRequest] /\ tokRequest'[q] = r
      /\ \A p \in TokenRequests : p # q => tokRequest'[p] = tokRequest[p]
      /\ \A p \in TokenRequests : tokRequest'[p].made = tokRequest[p].made
  BY <1>1, <1>2, <1>4
<1>6. /\ tokAccesses' \in Seq(TokAccess) /\ n \in Nat
      /\ DOMAIN tokAccesses = 1 .. n /\ DOMAIN tokAccesses' = 1 .. n + 1
      /\ tokAccesses'[n + 1] = <<q, token>>
      /\ \A k \in 1 .. n : tokAccesses'[k] = tokAccesses[k]
  BY <1>1, <1>2, <1>3, LenProperties
<1> HIDE DEF n
<1>7. TokIn(token, BaseOf(e), tokRows)
  BY DEF AccessStored, Ids, TokIn
<1>8. TokNotAccessed(q, tokAccesses)
  <2>1. \A k \in DOMAIN tokRows : tokRows[k] \in Row
    BY LenProperties DEF TokIInv, TokTypes
  <2>2. \A base : ~TokIn(0, base, tokRows)
    BY <2>1 DEF Row, TokIn
  <2>3. TokBooks(q, tokRequest[q], tokRows, tokAccesses)
    BY DEF TokIInv
  <2> QED BY <1>1, <2>2, <2>3 DEF TokBooks
<1>9. TokAccessed(q, token, tokAccesses')
  <2>1. n + 1 \in DOMAIN tokAccesses'
    BY <1>6
  <2>2. ASSUME NEW m \in DOMAIN tokAccesses', tokAccesses'[m][1] = q PROVE m = n + 1
    <3>1. m \in 1 .. n => FALSE
      BY <1>6, <1>8, <2>2 DEF TokNotAccessed
    <3> QED BY <1>6, <3>1
  <2> QED BY <1>6, <2>1, <2>2 DEF TokAccessed
<1>10. ASSUME NEW p \in TokenRequests, p # q, NEW t
       PROVE  /\ TokAccessed(p, t, tokAccesses) => TokAccessed(p, t, tokAccesses')
              /\ TokNotAccessed(p, tokAccesses) => TokNotAccessed(p, tokAccesses')
  <2>1. tokAccesses'[n + 1][1] = q
    BY <1>6
  <2>2. \A m \in DOMAIN tokAccesses' : tokAccesses'[m][1] = p => m \in 1 .. n
    BY <1>6, <1>10, <2>1
  <2>3. ASSUME TokAccessed(p, t, tokAccesses) PROVE TokAccessed(p, t, tokAccesses')
    <3>1. PICK k \in 1 .. n : /\ tokAccesses[k] = <<p, t>>
                             /\ \A m \in 1 .. n : tokAccesses[m][1] = p => m = k
      BY <1>6, <2>3 DEF TokAccessed
    <3>2. k \in DOMAIN tokAccesses' /\ tokAccesses'[k] = <<p, t>>
      BY <1>6, <3>1
    <3>3. \A m \in DOMAIN tokAccesses' : tokAccesses'[m][1] = p => m = k
      BY <1>6, <2>2, <3>1
    <3> QED BY <3>2, <3>3 DEF TokAccessed
  <2>4. ASSUME TokNotAccessed(p, tokAccesses) PROVE TokNotAccessed(p, tokAccesses')
    BY <1>6, <2>2, <2>4 DEF TokNotAccessed
  <2> QED BY <2>3, <2>4
<1>11. ASSUME NEW p \in TokenRequests
       PROVE  TokBooks(p, tokRequest'[p], tokRows', tokAccesses') /\ tokRequest'[p].token <= tokMade'
  <2>1. TokBooks(p, tokRequest[p], tokRows, tokAccesses) /\ tokRequest[p].token <= tokMade
    BY DEF TokIInv
  <2>2. CASE p = q
    <3>1. TokMadeRows(r, tokRows) /\ Len(r.made) = Len(r.named)
      BY <1>1, <1>4, <2>1, <2>2 DEF TokBooks, TokMadeRows
    <3>2. TokBooks(q, r, tokRows, tokAccesses')
      BY <1>4, <1>7, <1>9, <3>1 DEF TokBooks
    <3>3. r.token <= tokMade
      BY <1>2, <1>4
    <3> QED BY <1>1, <1>5, <2>2, <3>2, <3>3
  <2>3. CASE p # q
    <3>1. tokRequest'[p] = tokRequest[p] /\ tokRows' = tokRows /\ tokMade' = tokMade
      BY <1>1, <1>5, <2>3
    <3>2. TokBooks(p, tokRequest[p], tokRows, tokAccesses')
      BY <1>10, <2>1, <2>3 DEF TokBooks
    <3> QED BY <2>1, <3>1, <3>2
  <2> QED BY <2>2, <2>3
<1>12. TokTypes' /\ TokRowsDiffer' /\ TokRowsAreMade'
  <2>1. TokTypes' /\ TokRowsDiffer'
    BY <1>1, <1>5, <1>6 DEF TokIInv, TokTypes, TokRowsDiffer
  <2>2. TokRowsAreMade'
    BY <1>1, <1>5 DEF TokIInv, TokRowsAreMade
  <2> QED BY <2>1, <2>2
<1> QED BY <1>11, <1>12 DEF TokIInv

LEMMA TokAddInv ==
    ASSUME TokIInv, NEW q \in TokenRequests, AddToken(q)
    PROVE  TokIInv'
<1> DEFINE id == tokMade + 1
           type == NextType(q)
           base == tokRequest[q].base
           row == [id |-> id, type |-> type, base |-> base]
           made == tokRequest[q].made
           named == tokRequest[q].named
           r == [tokRequest[q] EXCEPT !.made = Append(made, id)]
           n == Len(tokRows)
           l == Len(made)
<1>1. /\ tokRequest' = [tokRequest EXCEPT ![q] = r] /\ tokRequest[q].stage = "making"
      /\ tokRows' = Append(tokRows, row) /\ tokMade' = id /\ tokAccesses' = tokAccesses
      /\ tokContainer' = tokContainer
      /\ l < Len(named) /\ type = named[l + 1] /\ type \in KnownTypes /\ tokMade < MaxTokens
  BY DEF AddToken, NextType, Known
<1>2. /\ tokRequest \in [TokenRequests -> TokRequest] /\ tokRequest[q] \in TokRequest
      /\ tokMade \in 0 .. MaxTokens /\ tokMade \in Nat /\ MaxTokens \in Nat /\ tokRows \in Seq(Row)
  BY TokenAssumption DEF TokenAssumption, TokIInv, TokTypes
<1>3. id \in 1 .. MaxTokens /\ row \in Row
  <2>1. base \in Bases
    BY <1>1 DEF TokIInv, TokBooks
  <2> QED BY <1>1, <1>2, <2>1 DEF Row
<1>4. /\ made \in Seq(1 .. MaxTokens) /\ l \in Nat /\ DOMAIN made = 1 .. l
      /\ Append(made, id) \in Seq(1 .. MaxTokens) /\ Len(Append(made, id)) = l + 1
      /\ DOMAIN Append(made, id) = 1 .. l + 1 /\ Append(made, id)[l + 1] = id
      /\ \A k \in 1 .. l : Append(made, id)[k] = made[k]
  <2>1. made \in Seq(1 .. MaxTokens)
    BY <1>2 DEF TokRequest
  <2> HIDE DEF made, id
  <2> QED BY <1>3, <2>1, LenProperties, AppendProperties
<1>5. /\ r \in TokRequest /\ r.stage = "making" /\ r.named = named
      /\ r.made = Append(made, id) /\ r.token = tokRequest[q].token
      /\ r.base = base
  <2> HIDE DEF made, id, base
  <2> QED BY <1>1, <1>2, <1>4 DEF TokRequest, named, base
<1> HIDE DEF r
<1>6. /\ tokRequest' \in [TokenRequests -> TokRequest] /\ tokRequest'[q] = r
      /\ \A p \in TokenRequests : p # q => tokRequest'[p] = tokRequest[p]
      /\ \A p \in TokenRequests : /\ tokRequest'[p].token = tokRequest[p].token
                                 /\ tokRequest'[p].base = tokRequest[p].base
  BY <1>1, <1>2, <1>5
<1>7. /\ tokRows' \in Seq(Row) /\ n \in Nat
      /\ DOMAIN tokRows = 1 .. n /\ DOMAIN tokRows' = 1 .. n + 1
      /\ tokRows'[n + 1].id = id /\ tokRows'[n + 1].type = type /\ tokRows'[n + 1].base = base
      /\ \A k \in 1 .. n : tokRows'[k] = tokRows[k]
  <2>1. row.id = id /\ row.type = type /\ row.base = base
    OBVIOUS
  <2> HIDE DEF row, id, type, base
  <2> QED BY <1>1, <1>2, <1>3, <2>1, LenProperties
<1>8. \A k \in 1 .. n : tokRows[k].id \in 1 .. MaxTokens /\ tokRows[k].id <= tokMade
  <2>1. \A k \in 1 .. n : tokRows[k] \in Row
    BY <1>2, <1>7, ElementOfSeq
  <2> QED BY <1>7, <2>1 DEF Row, TokIInv, TokRowsDiffer
<1> HIDE DEF n, l, type, named, made, base
<1>9. TokRowsDiffer'
  <2>1. ASSUME NEW j \in 1 .. n + 1, NEW k \in 1 .. n + 1, tokRows'[j].id = tokRows'[k].id
        PROVE  j = k
    <3>1. (j \in 1 .. n \/ j = n + 1) /\ (k \in 1 .. n \/ k = n + 1)
      BY <1>7
    <3>2. j \in 1 .. n /\ k \in 1 .. n => j = k
      BY <1>7, <2>1 DEF TokIInv, TokRowsDiffer
    <3>3. \A h \in 1 .. n : tokRows'[h].id # tokRows'[n + 1].id
      <4>1. ASSUME NEW h \in 1 .. n PROVE tokRows'[h].id # tokRows'[n + 1].id
        <5>1. tokRows[h].id \in Nat /\ tokRows[h].id <= tokMade /\ tokRows'[h] = tokRows[h]
          BY <1>7, <1>8
        <5> QED BY <1>2, <1>7, <5>1
      <4> QED BY <4>1
    <3> QED BY <2>1, <3>1, <3>2, <3>3
  <2>2. \A k \in 1 .. n + 1 : tokRows'[k].id <= tokMade'
    <3>1. ASSUME NEW k \in 1 .. n + 1 PROVE tokRows'[k].id <= tokMade'
      <4>1. CASE k = n + 1
        BY <1>1, <1>2, <1>7, <4>1
      <4>2. CASE k \in 1 .. n
        BY <1>1, <1>2, <1>7, <1>8, <4>2
      <4> QED BY <1>7, <4>1, <4>2
    <3> QED BY <3>1
  <2> QED BY <1>7, <2>1, <2>2 DEF TokRowsDiffer
<1>10. TokRowsAreMade'
  <2> SUFFICES ASSUME NEW k \in 1 .. n + 1
               PROVE  \E p \in TokenRequests : \E h \in DOMAIN tokRequest'[p].made :
                        tokRequest'[p].made[h] = tokRows'[k].id
    BY <1>7 DEF TokRowsAreMade
  <2>1. CASE k = n + 1
    <3>1. l + 1 \in DOMAIN r.made /\ r.made[l + 1] = id
      BY <1>4, <1>5
    <3> QED BY <1>6, <1>7, <2>1, <3>1
  <2>2. CASE k \in 1 .. n
    <3>1. PICK p \in TokenRequests : \E h \in DOMAIN tokRequest[p].made :
            tokRequest[p].made[h] = tokRows[k].id
      BY <1>7, <2>2 DEF TokIInv, TokRowsAreMade
    <3>2. PICK h \in DOMAIN tokRequest[p].made : tokRequest[p].made[h] = tokRows[k].id
      BY <3>1
    <3>3. CASE p = q
      <4>1. h \in DOMAIN r.made /\ r.made[h] = tokRows[k].id
        BY <1>4, <1>5, <3>2, <3>3 DEF made
      <4> QED BY <1>6, <1>7, <2>2, <4>1
    <3>4. CASE p # q
      BY <1>6, <1>7, <2>2, <3>2, <3>4
    <3> QED BY <3>3, <3>4
  <2> QED BY <1>7, <2>1, <2>2
<1>11. \A t \in 0 .. MaxTokens : \A d :
         t <= tokMade => (TokIn(t, d, tokRows') <=> TokIn(t, d, tokRows))
  <2>1. \A t \in 0 .. MaxTokens : t <= tokMade => tokRows'[n + 1].id # t
    BY <1>2, <1>7
  <2> QED BY <1>7, <2>1 DEF TokIn
<1>12. ASSUME NEW x, TokMadeRows(x, tokRows) PROVE TokMadeRows(x, tokRows')
  BY <1>7, <1>12 DEF TokMadeRows
<1>13. ASSUME NEW p \in TokenRequests
       PROVE  TokBooks(p, tokRequest'[p], tokRows', tokAccesses') /\ tokRequest'[p].token <= tokMade'
  <2>1. /\ TokBooks(p, tokRequest[p], tokRows, tokAccesses) /\ tokRequest[p].token <= tokMade
        /\ tokRequest[p].token \in 0 .. MaxTokens
    BY <1>2 DEF TokIInv, TokRequest
  <2>2. tokRequest'[p].token <= tokMade'
    BY <1>1, <1>2, <1>6, <2>1
  <2>3. TokIn(tokRequest[p].token, tokRequest[p].base, tokRows')
          <=> TokIn(tokRequest[p].token, tokRequest[p].base, tokRows)
    BY <1>11, <2>1
  <2>4. CASE p = q
    <3>1. Len(r.made) <= Len(r.named)
      <4>1. Len(named) \in Nat
        BY <1>2 DEF TokRequest, named
      <4> QED BY <1>1, <1>4, <1>5, <4>1 DEF l, named, made
    <3>2. ASSUME NEW k \in DOMAIN r.made
          PROVE  \E h \in DOMAIN tokRows' :
                    /\ tokRows'[h].id = r.made[k] /\ tokRows'[h].type = r.named[k]
                    /\ tokRows'[h].base = r.base
      <4>1. CASE k = l + 1
        <5>1. /\ tokRows'[n + 1].id = r.made[k] /\ tokRows'[n + 1].type = r.named[k]
              /\ tokRows'[n + 1].base = r.base /\ n + 1 \in DOMAIN tokRows'
          BY <1>1, <1>4, <1>5, <1>7, <4>1 DEF type, named, l, made
        <5> QED BY <5>1
      <4>2. CASE k # l + 1
        <5>1. k \in DOMAIN made /\ r.made[k] = made[k]
          BY <1>4, <1>5, <4>2
        <5>2. \E h \in DOMAIN tokRows :
                tokRows[h].id = made[k] /\ tokRows[h].type = named[k] /\ tokRows[h].base = base
          BY <2>1, <2>4, <5>1 DEF TokBooks, TokMadeRows, made, named, base
        <5> QED BY <1>5, <1>7, <5>1, <5>2
      <4> QED BY <4>1, <4>2
    <3>3. TokMadeRows(r, tokRows')
      BY <3>1, <3>2 DEF TokMadeRows
    <3> QED BY <1>1, <1>5, <1>6, <2>1, <2>2, <2>3, <2>4, <3>3 DEF TokBooks
  <2>5. CASE p # q
    BY <1>1, <1>6, <1>12, <2>1, <2>2, <2>3, <2>5 DEF TokBooks
  <2> QED BY <2>4, <2>5
<1>14. TokTypes'
  <2>1. tokMade' \in 0 .. MaxTokens
    BY <1>1, <1>2, <1>3
  <2> QED BY <1>1, <1>6, <1>7, <2>1 DEF TokIInv, TokTypes
<1> QED BY <1>9, <1>10, <1>13, <1>14 DEF TokIInv

LEMMA TokCrashInv ==
    ASSUME TokIInv, NEW e \in TokEngines, EngineCrash(e)
    PROVE  TokIInv'
<1>1. tokMade' = tokMade /\ tokMade \in 0 .. MaxTokens /\ MaxTokens \in Nat
  BY TokenAssumption DEF TokenAssumption, EngineCrash, TokIInv, TokTypes
<1>2. ASSUME NEW q \in TokenRequests
      PROVE  /\ tokRequest'[q] \in TokRequest
             /\ tokRequest'[q] = tokRequest[q] \/
                /\ TokBooks(q, tokRequest'[q], tokRows, tokAccesses)
                /\ tokRequest'[q].token <= tokMade'
                /\ tokRequest'[q].made = tokRequest[q].made
  <2> DEFINE r == [tokRequest[q] EXCEPT !.stage = "lost"]
  <2>1. tokRequest[q] \in TokRequest
    BY DEF TokIInv, TokTypes
  <2>2. tokRequest'[q] \in {tokRequest[q], r}
    BY DEF EngineCrash
  <2>3. /\ r \in TokRequest /\ r.stage = "lost" /\ r.named = tokRequest[q].named
        /\ r.made = tokRequest[q].made /\ r.token = tokRequest[q].token /\ r.base = tokRequest[q].base
    BY <2>1 DEF TokRequest, RequestStages
  <2> HIDE DEF r
  <2>4. TokBooks(q, r, tokRows, tokAccesses) /\ r.token <= tokMade'
    BY <1>1, <2>3 DEF TokIInv, TokBooks, TokMadeRows
  <2> QED BY <2>1, <2>2, <2>3, <2>4
<1>3. tokRequest' \in [TokenRequests -> TokRequest]
  BY <1>2 DEF EngineCrash
<1>4. tokMade' \in 0 .. MaxTokens /\ tokMade' >= tokMade /\ UNCHANGED <<tokRows, tokAccesses>>
  BY <1>1 DEF EngineCrash
<1>5. tokContainer' \in [TokEngines -> 0 .. MaxContainers]
  <2>1. tokContainer \in [TokEngines -> 0 .. MaxContainers] /\ MaxContainers \in Nat
    BY TokenAssumption DEF TokenAssumption, TokIInv, TokTypes
  <2>2. CASE tokContainer[e] < MaxContainers
                /\ tokContainer' = [tokContainer EXCEPT ![e] = @ + 1]
    <3>1. tokContainer[e] + 1 \in 0 .. MaxContainers
      BY <2>1, <2>2
    <3> QED BY <2>1, <2>2, <3>1
  <2> QED BY <2>1, <2>2 DEF EngineCrash
<1> QED BY <1>2, <1>3, <1>4, <1>5, TokRest

LEMMA TokStepInv == TokIInv /\ [TokNext]_tokVars => TokIInv'
<1> SUFFICES ASSUME TokIInv, [TokNext]_tokVars PROVE TokIInv'
  OBVIOUS
<1>1. /\ tokMade \in 0 .. MaxTokens /\ MaxTokens \in Nat /\ Len(BundleTypes) \in Nat
      /\ tokContainer \in [TokEngines -> 0 .. MaxContainers]
  BY TokenAssumption, LenProperties DEF TokenAssumption, TokIInv, TokTypes
<1>2. ASSUME NEW q \in TokenRequests, NEW e \in TokEngines, EngineStep(q, e) PROVE TokIInv'
  <2>1. CASE \E type \in NamedTypes : CreateToken(q, e, type)
    <3>1. PICK type \in NamedTypes : BeginMaking(q, e, <<type>>)
      BY <2>1 DEF CreateToken
    <3>2. <<type>> \in Seq(STRING)
      <4>1. type \in STRING
        BY TokenAssumption DEF TokenAssumption
      <4>2. <<type>> = [k \in 1 .. 1 |-> type]
        OBVIOUS
      <4>3. [k \in 1 .. 1 |-> type] \in [1 .. 1 -> STRING]
        BY <4>1
      <4> QED BY <4>2, <4>3, IsASeq
    <3> QED BY <3>1, <3>2, TokBeginInv
  <2>2. CASE \E types \in TypeLists : Rotate(q, e, types)
    <3>1. PICK types \in TypeLists : BeginMaking(q, e, types)
      BY <2>2 DEF Rotate
    <3>2. types \in Seq(STRING)
      BY TokenAssumption DEF TokenAssumption
    <3> QED BY <3>1, <3>2, TokBeginInv
  <2>3. CASE BuildBundle(q, e)
    <3>1. "answered" \in RequestStages \ {"new", "making", "not_found"}
      BY DEF RequestStages
    <3>2. UNCHANGED <<tokContainer, tokRows, tokAccesses>> /\ Becomes(q, "answered")
      BY <2>3 DEF BuildBundle
    <3>3. tokMade' \in 0 .. MaxTokens /\ tokMade' >= tokMade
      BY <1>1, <2>3 DEF BuildBundle
    <3>4. Len(tokRequest[q].made) = Len(tokRequest[q].named)
      BY <2>3 DEF BuildBundle, TokIInv, TokBooks
    <3> QED BY <1>1, <3>1, <3>2, <3>3, <3>4, TokMovesInv
  <2>4. CASE \E token \in 1 .. tokMade : AccessUnknown(q, e, token) \/ AccessStored(q, e, token)
    BY <2>4, TokUnknownInv, TokStoredInv
  <2> QED BY <1>2, <2>1, <2>2, <2>3, <2>4 DEF EngineStep
<1>3. ASSUME NEW q \in TokenRequests, AddToken(q) PROVE TokIInv'
  BY <1>3, TokAddInv
<1>4. ASSUME NEW q \in TokenRequests, UnknownTypeRaises(q) PROVE TokIInv'
  <2>1. "raised" \in RequestStages \ {"new", "making", "not_found"}
    BY DEF RequestStages
  <2>2. tokMade' \in 0 .. MaxTokens /\ tokMade' >= tokMade /\ UNCHANGED <<tokContainer, tokRows, tokAccesses>>
        /\ Becomes(q, "raised")
    BY <1>1, <1>4 DEF UnknownTypeRaises
  <2> QED BY <1>1, <2>1, <2>2, TokMovesInv
<1>5. ASSUME NEW q \in TokenRequests, AnswerTokens(q) \/ AccessLogged(q)
      PROVE  TokIInv'
  <2>1. "answered" \in RequestStages \ {"new", "making", "not_found"}
    BY DEF RequestStages
  <2>2. UNCHANGED <<tokContainer, tokRows, tokAccesses>> /\ Becomes(q, "answered")
    BY <1>5 DEF AnswerTokens, AccessLogged
  <2>3. tokMade' \in 0 .. MaxTokens /\ tokMade' >= tokMade
    BY <1>1, <1>5 DEF AnswerTokens, AccessLogged
  <2>4. Len(tokRequest[q].made) = Len(tokRequest[q].named)
    BY <1>5 DEF AnswerTokens, AccessLogged, TokIInv, TokBooks
  <2> QED BY <1>1, <2>1, <2>2, <2>3, <2>4, TokMovesInv
<1>6. ASSUME NEW e \in TokEngines, EngineCrash(e) PROVE TokIInv'
  BY <1>6, TokCrashInv
<1>7. CASE UNCHANGED tokVars
  BY <1>7 DEF TokIInv, TokTypes, TokRowsDiffer, TokRowsAreMade, tokVars
<1> QED BY <1>2, <1>3, <1>4, <1>5, <1>6, <1>7 DEF TokNext

LEMMA TokInvariance == TokSpec => []TokIInv
  BY TokInitInv, TokStepInv, PTL DEF TokSpec

\* The tables and the books of the requests keep their types, across crashes.
THEOREM TokTypeCorrect == TokSpec => []TokTypeOK
<1>1. TokIInv => TokTypeOK
  <2> SUFFICES ASSUME TokIInv PROVE TokTypeOK
    OBVIOUS
  <2>1. \A q \in TokenRequests : tokRequest[q] \in TokRequest
    BY DEF TokIInv, TokTypes
  <2> QED BY <2>1 DEF TokTypeOK, TokIInv, TokTypes, TokRequest, TokAccess
<1> QED BY <1>1, TokInvariance, PTL

LEMMA TokIdsAreRows == TokIInv => Len(tokRows) = Cardinality(AllIds)
<1> SUFFICES ASSUME TokIInv PROVE Len(tokRows) = Cardinality(AllIds)
  OBVIOUS
<1> DEFINE n == Len(tokRows)
           g == [k \in 1 .. n |-> tokRows[k].id]
<1>1. n \in Nat /\ DOMAIN tokRows = 1 .. n
  BY LenProperties DEF TokIInv, TokTypes
<1>2. g \in Bijection(1 .. n, AllIds)
  <2>1. AllIds = {tokRows[k].id : k \in 1 .. n}
    BY <1>1 DEF AllIds
  <2>2. g \in [1 .. n -> AllIds] /\ \A t \in AllIds : \E k \in 1 .. n : g[k] = t
    BY <2>1
  <2>3. \A a, b \in 1 .. n : g[a] = g[b] => a = b
    BY <1>1 DEF TokIInv, TokRowsDiffer
  <2> HIDE DEF g, n
  <2> QED BY <2>2, <2>3 DEF Bijection, Injection, Surjection, IsInjective
<1>3. ExistsBijection(1 .. n, AllIds)
  BY <1>2 DEF ExistsBijection
<1>4. IsFiniteSet(1 .. n) /\ Cardinality(1 .. n) = n
  <2> HIDE DEF n
  <2>1. IsFiniteSet(1 .. n) /\ Cardinality(1 .. n) = IF 1 > n THEN 0 ELSE n - 1 + 1
    BY <1>1, FS_Interval
  <2> QED BY <1>1, <2>1
<1> HIDE DEF n
<1>5. Cardinality(AllIds) = Cardinality(1 .. n)
  BY <1>3, <1>4, FS_Bijection
<1> QED BY <1>4, <1>5 DEF n

LEMMA TokMadeTypes ==
    ASSUME TokIInv, NEW q \in TokenRequests
    PROVE  IsPrefix(TypesOf(tokRequest[q].made), tokRequest[q].named)
<1> DEFINE made == tokRequest[q].made
           named == tokRequest[q].named
           types == TypesOf(made)
           l == Len(made)
<1>1. /\ made \in Seq(1 .. MaxTokens) /\ named \in Seq(STRING) /\ l \in Nat /\ DOMAIN made = 1 .. l
      /\ Len(named) \in Nat /\ DOMAIN named = 1 .. Len(named)
      /\ TokMadeRows(tokRequest[q], tokRows)
  <2>1. tokRequest[q] \in TokRequest /\ TokMadeRows(tokRequest[q], tokRows)
    BY DEF TokIInv, TokTypes, TokBooks
  <2> QED BY <2>1, LenProperties DEF TokRequest
<1>2. l <= Len(named)
  BY <1>1 DEF TokMadeRows
<1>3. ASSUME NEW k \in 1 .. l PROVE types[k] = named[k]
  <2>1. PICK h \in DOMAIN tokRows : tokRows[h].id = made[k] /\ tokRows[h].type = named[k]
    BY <1>1 DEF TokMadeRows
  <2>2. tokRows[h] \in ToSet(tokRows)
    BY DEF ToSet
  <2>3. \A row \in ToSet(tokRows) : row.id = made[k] => row = tokRows[h]
    BY <2>1 DEF ToSet, TokIInv, TokRowsDiffer
  <2>4. (CHOOSE row \in ToSet(tokRows) : row.id = made[k]) = tokRows[h]
    BY <2>1, <2>2, <2>3
  <2>5. types[k] = (CHOOSE row \in ToSet(tokRows) : row.id = made[k]).type
    BY <1>1 DEF TypesOf
  <2> QED BY <2>1, <2>4, <2>5
<1>4. DOMAIN types = 1 .. l
  BY <1>1 DEF TypesOf
<1>5. types \in Seq(STRING) /\ Len(types) = l
  <2>1. \A k \in 1 .. l : types[k] \in STRING
    BY <1>1, <1>2, <1>3
  <2>2. types = [k \in 1 .. l |-> types[k]]
    BY <1>4 DEF TypesOf
  <2> HIDE DEF types, l
  <2>3. types \in [1 .. l -> STRING]
    BY <2>1, <2>2
  <2>4. l \in Nat
    BY <1>1
  <2>5. types \in Seq(STRING)
    BY <2>3, <2>4, IsASeq
  <2> QED BY <1>4, <2>4, <2>5, LenProperties
<1> HIDE DEF types, l, named, made
<1>6. SubSeq(types, 1, l) = SubSeq(named, 1, l)
  <2>1. \A k \in 1 .. l : types[k] \in STRING /\ named[k] \in STRING
    BY <1>1, <1>2, <1>3
  <2>2. /\ SubSeq(types, 1, l) \in Seq(STRING) /\ SubSeq(named, 1, l) \in Seq(STRING)
        /\ Len(SubSeq(types, 1, l)) = l /\ Len(SubSeq(named, 1, l)) = l
        /\ \A k \in 1 .. l : SubSeq(types, 1, l)[k] = types[k] /\ SubSeq(named, 1, l)[k] = named[k]
    BY <1>1, <1>2, <1>5, <2>1
  <2>3. \A k \in 1 .. l : SubSeq(types, 1, l)[k] = SubSeq(named, 1, l)[k]
    BY <1>3, <2>2
  <2> QED BY <2>2, <2>3, SeqEqual
<1> QED BY <1>2, <1>5, <1>6 DEF IsPrefix, types, named, made

\* The books of the token engine balance: what a request made is stored, of
\* the type it named, and nothing else is; an access is stored once if its
\* token is, and else never.
THEOREM TokensStayAccounted == TokSpec => []TokensAreAccounted
<1>1. TokIInv => TokensAreAccounted
  <2> SUFFICES ASSUME TokIInv PROVE TokensAreAccounted
    OBVIOUS
  <2>1. Len(tokRows) = Cardinality(AllIds)
    BY TokIdsAreRows
  <2>2. AllIds = UNION {ToSet(tokRequest[q].made) : q \in TokenRequests}
    <3>1. ASSUME NEW x \in AllIds PROVE \E q \in TokenRequests : x \in ToSet(tokRequest[q].made)
      BY DEF AllIds, ToSet, TokIInv, TokRowsAreMade
    <3>2. ASSUME NEW q \in TokenRequests, NEW x \in ToSet(tokRequest[q].made) PROVE x \in AllIds
      <4>1. TokMadeRows(tokRequest[q], tokRows)
        BY DEF TokIInv, TokBooks
      <4> QED BY <4>1 DEF AllIds, ToSet, TokMadeRows
    <3> QED BY <3>1, <3>2
  <2>3. ASSUME NEW q \in TokenRequests
        PROVE  LET request == tokRequest[q]
                   stored == {n \in DOMAIN tokAccesses : tokAccesses[n][1] = q}
               IN /\ IsPrefix(TypesOf(request.made), request.named)
                  /\ ToSet(request.made) \subseteq Ids(request.base)
                  /\ request.stage = "answered" => Len(request.made) = Len(request.named)
                  /\ Cardinality(stored) = IF request.token \in Ids(request.base) THEN 1 ELSE 0
                  /\ \A n \in stored : tokAccesses[n][2] = request.token
                  /\ request.stage = "not_found" => request.token \notin Ids(request.base)
    <3> DEFINE request == tokRequest[q]
               stored == {n \in DOMAIN tokAccesses : tokAccesses[n][1] = q}
    <3>1. TokBooks(q, request, tokRows, tokAccesses)
      BY DEF TokIInv
    <3>2. request.token \in Ids(request.base) <=> TokIn(request.token, request.base, tokRows)
      BY DEF Ids, TokIn
    <3>5. ToSet(request.made) \subseteq Ids(request.base)
      BY <3>1 DEF Ids, ToSet, TokBooks, TokMadeRows
    <3>3. CASE TokIn(request.token, request.base, tokRows)
      <4>1. PICK n \in DOMAIN tokAccesses :
              /\ tokAccesses[n] = <<q, request.token>>
              /\ \A m \in DOMAIN tokAccesses : tokAccesses[m][1] = q => m = n
        BY <3>1, <3>3 DEF TokBooks, TokAccessed
      <4>2. stored = {n} /\ tokAccesses[n][2] = request.token
        BY <4>1
      <4>3. Cardinality({n}) = 1
        BY FS_Singleton
      <4>4. IsPrefix(TypesOf(request.made), request.named)
        BY TokMadeTypes
      <4> QED BY <3>1, <3>2, <3>3, <3>5, <4>2, <4>3, <4>4 DEF TokBooks
    <3>4. CASE ~TokIn(request.token, request.base, tokRows)
      <4>1. stored = {}
        BY <3>1, <3>4 DEF TokBooks, TokNotAccessed
      <4>2. Cardinality({}) = 0
        BY FS_EmptySet
      <4>3. IsPrefix(TypesOf(request.made), request.named)
        BY TokMadeTypes
      <4> QED BY <3>1, <3>2, <3>4, <3>5, <4>1, <4>2, <4>3 DEF TokBooks
    <3> QED BY <3>3, <3>4
  <2> QED BY <2>1, <2>2, <2>3 DEF TokensAreAccounted
<1> QED BY <1>1, TokInvariance, PTL

-----------------------------------------------------------------------------
(***************************************************************************)
(* All of them together.                                                   *)
(*                                                                         *)
(* A step of the suite is a step of one component that leaves the          *)
(* variables of the others alone, so a behaviour of the suite is one of    *)
(* each component, and its theorems hold of the suite.                     *)
(***************************************************************************)
LEMMA SuiteStepIsPartStep ==
    ASSUME [SuiteNext]_suiteVars
    PROVE  /\ [ContentNext]_contentVars /\ [SiemNext]_siemVars /\ [DnsNext]_dnsVars
           /\ [AuthNext]_authVars /\ [TokNext]_tokVars /\ [SoarNext]_soarVars
           /\ [PcapNext]_pcapVars
           /\ part' = part
<1>1. CASE ContentStep
  BY <1>1 DEF ContentStep
<1>2. CASE SiemStep
  BY <1>2 DEF SiemStep
<1>3. CASE DnsStep
  BY <1>3 DEF DnsStep
<1>4. CASE AuthStep
  BY <1>4 DEF AuthStep
<1>5. CASE TokStep
  BY <1>5 DEF TokStep
<1>6. CASE SoarStep
  BY <1>6 DEF SoarStep
<1>7. CASE PcapStep
  BY <1>7 DEF PcapStep
<1>8. CASE UNCHANGED suiteVars
  BY <1>8 DEF suiteVars
<1> QED BY <1>1, <1>2, <1>3, <1>4, <1>5, <1>6, <1>7, <1>8 DEF SuiteNext

\* A behaviour of the suite is one of each component: no step of one of them
\* (the controller, the token engine, the playbooks, the forwarder) can make
\* another do what it would not do alone.
THEOREM PartsRunAlone ==
    SuiteSpec => /\ ContentSpec /\ SiemSafe /\ DnsSpec /\ AuthSpec
                 /\ TokSpec /\ SoarSpec /\ PcapSpec
<1>1. SuiteInit => /\ ContentInit /\ SiemInit /\ DnsInit /\ AuthInit
                   /\ TokInit /\ SoarInit /\ PcapInit
  BY DEF SuiteInit
<1> QED BY <1>1, SuiteStepIsPartStep, PTL
        DEF SuiteSpec, ContentSpec, SiemSafe, DnsSpec, AuthSpec, TokSpec, SoarSpec, PcapSpec

\* Type correctness of all components when they run together.
THEOREM SuiteTypeCorrect == SuiteSpec => []SuiteTypeOK
<1>1. SuiteSpec => [](part \in SuiteParts)
  <2>1. SuiteInit => part \in SuiteParts
    BY DEF SuiteInit
  <2>2. part \in SuiteParts /\ [SuiteNext]_suiteVars => (part \in SuiteParts)'
    BY SuiteStepIsPartStep
  <2> QED BY <2>1, <2>2, PTL DEF SuiteSpec
<1> QED BY <1>1, PartsRunAlone, ContentTypeCorrect, SiemTypes, DnsTypeCorrect, AuthTypeCorrect,
           TokTypeCorrect, SoarTypeCorrect, PcapTypeCorrect, PTL DEF SuiteTypeOK

\* What each component promises it keeps when all of them run: alerts are
\* faithful, tokens accounted for, playbooks taken through, captures forwarded
\* once, emissions fanned out, DNS records raced for if there are two, and
\* revoked tokens out.
THEOREM SuiteKeepsPromises ==
    SuiteSpec =>
      /\ [](AlertIsFaithful /\ TokensAreAccounted /\ EveryStepAttempted /\ ForwardedOnce)
      /\ FanOut!Init /\ [][FanOut!Next]_(FanOut!fanOutVars)
      /\ ExtraRecordsNeedRace
      /\ RevocationHolds
  BY PartsRunAlone, AlertsAreFaithful, TokensStayAccounted, EveryStepIsAttempted,
     CapturesForwardedOnce, SiemFansOut, ExtraRecordsAreRaced, RevokedStayOut, PTL
=============================================================================
