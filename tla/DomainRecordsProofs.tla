------------------------ MODULE DomainRecordsProofs ------------------------
(***************************************************************************)
(* Proofs about the records of a domain, for any number of tasks, calls    *)
(* and failures, and for any limits.                                       *)
(***************************************************************************)
EXTENDS DomainRecords, FiniteSetTheorems, TLAPS

USE DEF document, cache, ghosts, counting, bounds

-----------------------------------------------------------------------------
(***************************************************************************)
(* Places and facts.                                                       *)
(***************************************************************************)
\* Where the tasks of the other components are.
LEMMA OtherPlaces == {"idle", "fetch", "block", "ban", "write", "ack"} \subseteq Place
BY DEF Place

\* The places of the three facts are told apart, and from those of the others.
LEMMA Places ==
  /\ \A k \in Fact : /\ Saving[k] \in Place /\ Expiring[k] \in Place
                     /\ After[k] \in Place
  /\ \A k, l \in Fact :
       /\ Saving[k] # Expiring[l] /\ After[k] # Expiring[l]
       /\ Expiring[k] = Expiring[l] => k = l
       /\ {Saving[k], Expiring[k], After[k]}
            \cap {"idle", "fetch", "block", "ban", "write", "ack"} = {}
       /\ Expiring[k] \notin {"country", "robots", "register"}
<1>1. ASSUME NEW f \in {Saving, Expiring, After}, NEW k \in Fact
      PROVE  f[k] \in Place
  BY <1>1 DEF Place
<1>2. /\ Saving["status"] = "save status" /\ Saving["country"] = "save country"
      /\ Saving["robots"] = "save robots"
  BY DEF Saving
<1>3. /\ Expiring["status"] = "expire status" /\ Expiring["robots"] = "expire robots"
      /\ Expiring["country"] = "expire country"
  BY DEF Expiring
<1>4. /\ After["status"] = "country" /\ After["country"] = "robots"
      /\ After["robots"] = "register"
  BY DEF After
<1>5. \A k \in Fact : k = "status" \/ k = "country" \/ k = "robots"
  BY DEF Fact
<1> QED
  BY <1>1, <1>2, <1>3, <1>4, <1>5

\* Facts are few.
LEMMA FactFinite == IsFiniteSet(Fact)
<1>1. Fact = ({"status"} \cup {"country"}) \cup {"robots"}
  BY DEF Fact
<1> QED
  BY <1>1, FS_Singleton, FS_AddElement

-----------------------------------------------------------------------------
(***************************************************************************)
(* Type correctness.                                                       *)
(***************************************************************************)
LEMMA TypeInit == Init => TypeOK
<1> SUFFICES ASSUME Init PROVE TypeOK
  OBVIOUS
<1>1. blockedAt \in BOOLEAN /\ queued \in BOOLEAN /\ overlapped \in BOOLEAN
  BY Zenon DEF Init
<1> QED
  BY <1>1, RecordsAssumption, OtherPlaces DEF Init, TypeOK

\* The flags keep their type.
LEMMA FlagStep ==
  TypeOK /\ [Next]_vars =>
    blockedAt' \in BOOLEAN /\ queued' \in BOOLEAN /\ overlapped' \in BOOLEAN
<1> DEFINE Flags == /\ blockedAt \in BOOLEAN /\ queued \in BOOLEAN
                    /\ overlapped \in BOOLEAN
<1> SUFFICES ASSUME Flags, [Next]_vars PROVE Flags'
  BY DEF TypeOK
<1>1. CASE UNCHANGED vars
  BY <1>1 DEF vars
<1>2. ASSUME NEW t \in Task,
             \/ Fetch(t) \/ LockDomain(t) \/ BlockDomain(t) \/ UnlockDomain(t)
             \/ Unanswered(t) \/ RecordLanguage(t) \/ BanLanguage(t)
      PROVE  Flags'
  BY <1>2, Zenon DEF Fetch, LockDomain, BlockDomain, UnlockDomain, Unanswered,
                     RecordLanguage, BanLanguage
<1>3. ASSUME NEW t \in Task,
             \/ DNSMiddleware(t) \/ CountryMiddleware(t)
             \/ RobotsExclusionMiddleware(t) \/ Refuse(t) \/ SaveDomain(t)
      PROVE  Flags'
  BY <1>3, Zenon DEF DNSMiddleware, CountryMiddleware, RobotsExclusionMiddleware,
                     Lookup, Refuse, SaveDomain
<1>4. ASSUME NEW t \in Task, NEW k \in Fact, SaveFact(t, k) \/ ExpireFact(t, k)
      PROVE  Flags'
  BY <1>4, Zenon DEF SaveFact, ExpireFact
<1>5. ASSUME NEW t \in Task,
             \/ GetMetrics(t) \/ SaveMetrics(t) \/ Acknowledge(t)
             \/ Redeliver(t) \/ Fails(t)
      PROVE  Flags'
  BY <1>5, Zenon DEF GetMetrics, SaveMetrics, Acknowledge, Redeliver, Fails
<1>6. CASE Enqueue \/ Cleanup \/ LockEnds \/ FactExpires
  BY <1>6, Zenon DEF Enqueue, Cleanup, LockEnds, FactExpires
<1> QED
  BY <1>1, <1>2, <1>3, <1>4, <1>5, <1>6 DEF Next

LEMMA TypeStep == TypeOK /\ [Next]_vars => TypeOK'
<1> SUFFICES ASSUME TypeOK, [Next]_vars PROVE TypeOK'
  OBVIOUS
<1> USE RecordsAssumption
<1>flags. blockedAt' \in BOOLEAN /\ queued' \in BOOLEAN /\ overlapped' \in BOOLEAN
  BY FlagStep
<1>1. CASE UNCHANGED vars
  BY <1>1, <1>flags DEF vars, TypeOK
<1>2. ASSUME NEW t \in Task,
             \/ Fetch(t) \/ LockDomain(t) \/ BlockDomain(t)
             \/ UnlockDomain(t) \/ Unanswered(t)
      PROVE  TypeOK'
  BY <1>2, <1>flags, OtherPlaces DEF Fetch, LockDomain, BlockDomain, UnlockDomain,
                                     Unanswered, Begins, Goto, TypeOK
<1>3. ASSUME NEW t \in Task, RecordLanguage(t) \/ BanLanguage(t) PROVE TypeOK'
  BY <1>3, <1>flags, OtherPlaces DEF RecordLanguage, BanLanguage, Begins, Goto, TypeOK
<1>4. ASSUME NEW t \in Task, NEW k \in Fact, Lookup(t, k), calls' \in 0..MaxCalls
      PROVE  TypeOK'
  BY <1>4, <1>flags, Places DEF Lookup, Goto, TypeOK
<1>5. ASSUME NEW t \in Task,
             \/ DNSMiddleware(t) \/ CountryMiddleware(t)
             \/ RobotsExclusionMiddleware(t)
      PROVE  TypeOK'
  <2>1. {"status", "country", "robots"} \subseteq Fact /\ "robots" \in Place
    BY DEF Fact, Place, After
  <2>2. calls' \in 0..MaxCalls
    BY <1>5 DEF DNSMiddleware, CountryMiddleware, RobotsExclusionMiddleware,
                Begins, TypeOK
  <2> QED
    BY <1>4, <1>5, <2>1, <2>2
       DEF DNSMiddleware, CountryMiddleware, RobotsExclusionMiddleware, Goto,
           TypeOK
<1>6. ASSUME NEW t \in Task, NEW k \in Fact, SaveFact(t, k) \/ ExpireFact(t, k)
      PROVE  TypeOK'
  <2>1. at' \in [Task -> Place]
    BY <1>6, Places, OtherPlaces DEF SaveFact, ExpireFact, Goto, TypeOK
  <2>2. fact' \in [Fact -> {"absent", "kept", "expiring"}]
    BY <1>6 DEF SaveFact, ExpireFact, TypeOK
  <2> QED
    BY <1>6, <1>flags, <2>1, <2>2 DEF SaveFact, ExpireFact, TypeOK
<1>7. ASSUME NEW t \in Task, Refuse(t) \/ SaveDomain(t) PROVE TypeOK'
  BY <1>7, <1>flags, OtherPlaces DEF Refuse, SaveDomain, Goto, TypeOK
<1>8. ASSUME NEW t \in Task, GetMetrics(t) \/ SaveMetrics(t) \/ Acknowledge(t)
      PROVE  TypeOK'
  BY <1>8, <1>flags, OtherPlaces DEF GetMetrics, SaveMetrics, Acknowledge, Begins,
                                     Goto, TypeOK
<1>9. ASSUME NEW t \in Task, Redeliver(t) \/ Fails(t) PROVE TypeOK'
  BY <1>9, <1>flags, OtherPlaces DEF Redeliver, Fails, Goto, TypeOK
<1>10. CASE Enqueue \/ Cleanup \/ LockEnds \/ FactExpires
  BY <1>10, <1>flags DEF Enqueue, Cleanup, LockEnds, FactExpires, TypeOK
<1> QED
  BY <1>1, <1>2, <1>3, <1>5, <1>6, <1>7, <1>8, <1>9, <1>10 DEF Next

\* Every task, document and key keeps its type.
THEOREM TypeCorrect == Spec => []TypeOK
BY TypeInit, TypeStep, PTL DEF Spec

-----------------------------------------------------------------------------
(***************************************************************************)
(* The Frontier works among places of its own, and on nothing but facts.   *)
(***************************************************************************)
FrontierStep(t) ==
  \/ DNSMiddleware(t) \/ CountryMiddleware(t) \/ RobotsExclusionMiddleware(t)
  \/ \E k \in Fact : SaveFact(t, k) \/ ExpireFact(t, k)

LEMMA FrontierAlone ==
  ASSUME TypeOK, NEW t \in Task, FrontierStep(t)
  PROVE  /\ {at[t], at'[t]} \cap {"fetch", "block", "ban", "write", "ack"} = {}
         /\ \A s \in Task \ {t} : at'[s] = at[s]
         /\ UNCHANGED <<document, queued, total, counting, errors, misses>>
<1> DEFINE Others == {"fetch", "block", "ban", "write", "ack"}
<1>1. UNCHANGED <<document, queued, total, counting, errors, misses>>
  BY DEF FrontierStep, DNSMiddleware, CountryMiddleware, RobotsExclusionMiddleware,
         Lookup, SaveFact, ExpireFact
<1>2. {"status", "country", "robots"} \subseteq Fact
  BY DEF Fact
<1>3. \/ at[t] \in {"idle", "country", "robots"}
      \/ \E k \in Fact : at[t] \in {Saving[k], Expiring[k]}
  BY DEF FrontierStep, DNSMiddleware, CountryMiddleware, RobotsExclusionMiddleware,
         Begins, SaveFact, ExpireFact
<1>4. \/ Goto(t, "idle") \/ Goto(t, "robots")
      \/ \E k \in Fact : Goto(t, Saving[k]) \/ Goto(t, Expiring[k]) \/ Goto(t, After[k])
  BY <1>2 DEF FrontierStep, DNSMiddleware, CountryMiddleware,
              RobotsExclusionMiddleware, Lookup, SaveFact, ExpireFact
<1>5. \A k \in Fact : {Saving[k], Expiring[k], After[k]} \cap Others = {}
  BY Places
<1>6. at[t] \notin Others
  BY <1>3, <1>5
<1>7. \E p : Goto(t, p) /\ p \notin Others
  <2>1. CASE Goto(t, "idle") \/ Goto(t, "robots")
    BY <2>1
  <2>2. ASSUME NEW k \in Fact,
               Goto(t, Saving[k]) \/ Goto(t, Expiring[k]) \/ Goto(t, After[k])
        PROVE  \E p : Goto(t, p) /\ p \notin Others
    BY <1>5, <2>2
  <2> QED
    BY <1>4, <2>1, <2>2
<1>8. at'[t] \notin Others /\ \A s \in Task \ {t} : at'[s] = at[s]
  BY <1>7 DEF Goto, TypeOK
<1> QED
  BY <1>1, <1>6, <1>8

-----------------------------------------------------------------------------
(***************************************************************************)
(* Locks and blocks.  LimitBlocks is not inductive: several fetches may    *)
(* pass the limit before one of them has blocked the domain, and each may  *)
(* fail in between.  The count has passed it by less than their number and *)
(* that of the failures.                                                   *)
(***************************************************************************)
Blocking == {t \in Task : at[t] = "block"}
LockInv == blockedAt \/ lockCount < MaxLocks + errors + Cardinality(Blocking)

LEMMA BlockingType ==
  IsFiniteSet(Blocking) /\ Cardinality(Blocking) \in Nat
BY RecordsAssumption, FS_Subset, FS_CardinalityType DEF Blocking

LEMMA LockInit == Init => LockInv
BY BlockingType, RecordsAssumption DEF Init, LockInv

\* A step that neither locks nor fails leaves those who are to block alone.
LEMMA LockQuiet ==
  ASSUME LockInv, UNCHANGED <<blockedAt, lockCount, errors>>, Blocking' = Blocking
  PROVE  LockInv'
BY DEF LockInv

\* Most steps move one task between places that are not "block".
LEMMA BlockingKept ==
  ASSUME TypeOK, NEW t \in Task, at[t] # "block", at'[t] # "block",
         \A s \in Task \ {t} : at'[s] = at[s]
  PROVE  Blocking' = Blocking
BY DEF Blocking

LEMMA LockStep == TypeOK /\ LockInv /\ [Next]_vars => LockInv'
<1> SUFFICES ASSUME TypeOK, LockInv, [Next]_vars PROVE LockInv'
  OBVIOUS
<1>1. CASE UNCHANGED vars
  BY <1>1, LockQuiet DEF vars, Blocking
<1>2. ASSUME NEW t \in Task, LockDomain(t) PROVE LockInv'
  <2>1. /\ lockCount' = lockCount + 1 /\ at[t] = "fetch"
        /\ UNCHANGED <<blockedAt, errors>>
    BY <1>2 DEF LockDomain
  <2>2. CASE lockCount' >= MaxLocks
    <3>1. Blocking' = Blocking \cup {t} /\ t \notin Blocking
      BY <1>2, <2>1, <2>2 DEF LockDomain, Goto, Blocking, TypeOK
    <3>2. Cardinality(Blocking') = Cardinality(Blocking) + 1
      BY <3>1, BlockingType, FS_AddElement
    <3>3. CASE blockedAt
      BY <2>1, <3>3, Zenon DEF LockInv
    <3>4. CASE lockCount < MaxLocks + errors + Cardinality(Blocking)
      BY <2>1, <3>2, <3>4, BlockingType, RecordsAssumption DEF LockInv, TypeOK
    <3> QED
      BY <3>3, <3>4 DEF LockInv
  <2>3. CASE lockCount' < MaxLocks
    <3>1. Blocking' = Blocking
      BY <1>2, <2>1, <2>3, BlockingKept, RecordsAssumption DEF LockDomain, Goto, TypeOK
    <3> QED
      BY <2>1, <2>3, <3>1, BlockingType, RecordsAssumption DEF LockInv, TypeOK
  <2> QED
    BY <2>1, <2>2, <2>3, RecordsAssumption DEF TypeOK
<1>3. ASSUME NEW t \in Task, BlockDomain(t) \/ BanLanguage(t) PROVE LockInv'
  BY <1>3, Zenon DEF BlockDomain, BanLanguage, LockInv
<1>4. ASSUME NEW t \in Task, UnlockDomain(t) PROVE LockInv'
  <2>1. /\ lockCount' = 0 /\ UNCHANGED <<blockedAt, errors>>
        /\ at[t] = "fetch" /\ Goto(t, "idle")
    BY <1>4 DEF UnlockDomain, TypeOK
  <2>2. Blocking' = Blocking
    BY <2>1, BlockingKept DEF Goto, TypeOK
  <2> QED
    BY <2>1, <2>2, BlockingType, RecordsAssumption DEF LockInv, TypeOK
<1>5. ASSUME NEW t \in Task,
             \/ Fetch(t) \/ Unanswered(t) \/ RecordLanguage(t) \/ GetMetrics(t)
             \/ SaveMetrics(t) \/ Acknowledge(t) \/ Refuse(t) \/ SaveDomain(t)
      PROVE  LockInv'
  <2>1. at[t] # "block" /\ at'[t] # "block" /\ \A s \in Task \ {t} : at'[s] = at[s]
    BY <1>5 DEF Fetch, Unanswered, RecordLanguage, GetMetrics, SaveMetrics,
                Acknowledge, Refuse, SaveDomain, Begins, Goto, TypeOK
  <2>2. UNCHANGED <<blockedAt, lockCount, errors>>
    BY <1>5 DEF Fetch, Unanswered, RecordLanguage, GetMetrics, SaveMetrics,
                Acknowledge, Refuse, SaveDomain
  <2> QED
    BY <2>1, <2>2, LockQuiet, BlockingKept
<1>6. ASSUME NEW t \in Task, FrontierStep(t) PROVE LockInv'
  BY <1>6, FrontierAlone, LockQuiet, BlockingKept
<1>7. ASSUME NEW t \in Task, Redeliver(t) PROVE LockInv'
  <2>1. errors' = errors + 1 /\ UNCHANGED <<at, blockedAt, lockCount>>
    BY <1>7 DEF Redeliver
  <2>2. Blocking' = Blocking
    BY <2>1 DEF Blocking
  <2>3. CASE blockedAt
    BY <2>1, <2>3, Zenon DEF LockInv
  <2>4. CASE lockCount < MaxLocks + errors + Cardinality(Blocking)
    BY <2>1, <2>2, <2>4, BlockingType, RecordsAssumption DEF LockInv, TypeOK
  <2> QED
    BY <2>3, <2>4 DEF LockInv
<1>8. ASSUME NEW t \in Task, Fails(t) PROVE LockInv'
  <2>1. errors' = errors + 1 /\ UNCHANGED <<blockedAt, lockCount>> /\ Goto(t, "idle")
    BY <1>8 DEF Fails
  <2>2. Cardinality(Blocking') \in {Cardinality(Blocking), Cardinality(Blocking) - 1}
    <3>1. Blocking' = Blocking \ {t}
      BY <2>1 DEF Goto, Blocking, TypeOK
    <3> QED
      BY <3>1, BlockingType, FS_RemoveElement
  <2>3. CASE blockedAt
    BY <2>1, <2>3, Zenon DEF LockInv
  <2>4. CASE lockCount < MaxLocks + errors + Cardinality(Blocking)
    BY <2>1, <2>2, <2>4, BlockingType, RecordsAssumption DEF LockInv, TypeOK
  <2> QED
    BY <2>3, <2>4 DEF LockInv
<1>9. CASE Enqueue \/ Cleanup \/ LockEnds \/ FactExpires
  BY <1>9, LockQuiet DEF Enqueue, Cleanup, LockEnds, FactExpires, Blocking
<1> QED
  BY <1>1, <1>2, <1>3, <1>4, <1>5, <1>6, <1>7, <1>8, <1>9 DEF Next, FrontierStep

(***************************************************************************)
(* Consecutive locks end in a block (lock_domain), however fetches, blocks *)
(* for the language and failed writes follow one another.                  *)
(***************************************************************************)
THEOREM LimitHolds == Spec => []LimitBlocks
<1>1. TypeOK /\ LockInv => LimitBlocks
  <2> SUFFICES ASSUME TypeOK, LockInv, lockCount >= MaxLocks + errors, ~blockedAt
               PROVE  \E t \in Task : at[t] = "block"
    BY DEF LimitBlocks
  <2>1. Cardinality(Blocking) # 0
    BY BlockingType, RecordsAssumption DEF LockInv, TypeOK
  <2>2. Blocking # {}
    BY <2>1, FS_EmptySet
  <2> QED
    BY <2>2 DEF Blocking
<1> QED
  BY <1>1, TypeInit, TypeStep, LockInit, LockStep, PTL DEF Spec

-----------------------------------------------------------------------------
(***************************************************************************)
(* Languages.  Parsers may count pages while others are about to block the *)
(* domain: the count has passed the threshold by less than the number of   *)
(* those and of the failures.                                              *)
(***************************************************************************)
Banning == {t \in Task : at[t] = "ban"}
LanguageInv ==
  blockedAt \/ foreign < LanguageThreshold + errors + Cardinality(Banning)

LEMMA BanningType ==
  IsFiniteSet(Banning) /\ Cardinality(Banning) \in Nat
BY RecordsAssumption, FS_Subset, FS_CardinalityType DEF Banning

LEMMA LanguageInit == Init => LanguageInv
BY BanningType, RecordsAssumption DEF Init, LanguageInv

\* A step that neither counts nor fails leaves those who are to block alone.
LEMMA LanguageQuiet ==
  ASSUME LanguageInv, UNCHANGED <<blockedAt, foreign, errors>>, Banning' = Banning
  PROVE  LanguageInv'
BY DEF LanguageInv

\* Most steps move one task between places that are not "ban".
LEMMA BanningKept ==
  ASSUME TypeOK, NEW t \in Task, at[t] # "ban", at'[t] # "ban",
         \A s \in Task \ {t} : at'[s] = at[s]
  PROVE  Banning' = Banning
BY DEF Banning

LEMMA LanguageStep == TypeOK /\ LanguageInv /\ [Next]_vars => LanguageInv'
<1> SUFFICES ASSUME TypeOK, LanguageInv, [Next]_vars PROVE LanguageInv'
  OBVIOUS
<1>1. CASE UNCHANGED vars
  BY <1>1, LanguageQuiet DEF vars, Banning
<1>2. ASSUME NEW t \in Task, RecordLanguage(t) PROVE LanguageInv'
  <2>1. UNCHANGED <<blockedAt, errors>> /\ at[t] = "idle"
    BY <1>2 DEF RecordLanguage, Begins
  <2>2. CASE UNCHANGED <<at, foreign>>
    BY <2>1, <2>2, LanguageQuiet DEF Banning
  <2>3. CASE /\ foreign' = foreign + 1
             /\ Goto(t, IF foreign' >= LanguageThreshold THEN "ban" ELSE "idle")
    <3>1. CASE foreign' >= LanguageThreshold
      <4>1. Banning' = Banning \cup {t} /\ t \notin Banning
        BY <2>1, <2>3, <3>1 DEF Goto, Banning, TypeOK
      <4>2. Cardinality(Banning') = Cardinality(Banning) + 1
        BY <4>1, BanningType, FS_AddElement
      <4>3. CASE blockedAt
        BY <2>1, <4>3, Zenon DEF LanguageInv
      <4>4. CASE foreign < LanguageThreshold + errors + Cardinality(Banning)
        BY <2>1, <2>3, <4>2, <4>4, BanningType, RecordsAssumption DEF LanguageInv, TypeOK
      <4> QED
        BY <4>3, <4>4 DEF LanguageInv
    <3>2. CASE foreign' < LanguageThreshold
      <4>1. Banning' = Banning
        BY <2>1, <2>3, <3>2, BanningKept, RecordsAssumption DEF Goto, TypeOK
      <4> QED
        BY <2>1, <2>3, <3>2, <4>1, BanningType, RecordsAssumption DEF LanguageInv, TypeOK
    <3> QED
      BY <2>3, <3>1, <3>2, RecordsAssumption DEF TypeOK
  <2> QED
    BY <1>2, <2>2, <2>3 DEF RecordLanguage
<1>3. ASSUME NEW t \in Task, BlockDomain(t) \/ BanLanguage(t) PROVE LanguageInv'
  BY <1>3, Zenon DEF BlockDomain, BanLanguage, LanguageInv
<1>4. ASSUME NEW t \in Task,
             \/ Fetch(t) \/ LockDomain(t) \/ UnlockDomain(t) \/ Unanswered(t)
             \/ GetMetrics(t) \/ SaveMetrics(t) \/ Acknowledge(t)
             \/ Refuse(t) \/ SaveDomain(t)
      PROVE  LanguageInv'
  <2>1. UNCHANGED <<blockedAt, foreign, errors>>
    BY <1>4 DEF Fetch, LockDomain, UnlockDomain, Unanswered, GetMetrics, SaveMetrics,
                Acknowledge, Refuse, SaveDomain
  <2>2. at[t] # "ban" /\ at'[t] # "ban" /\ \A s \in Task \ {t} : at'[s] = at[s]
    BY <1>4 DEF Fetch, LockDomain, UnlockDomain, Unanswered, GetMetrics, SaveMetrics,
                Acknowledge, Refuse, SaveDomain, Begins, Goto, TypeOK
  <2> QED
    BY <2>1, <2>2, LanguageQuiet, BanningKept
<1>5. ASSUME NEW t \in Task, FrontierStep(t) PROVE LanguageInv'
  BY <1>5, FrontierAlone, LanguageQuiet, BanningKept
<1>6. ASSUME NEW t \in Task, Fails(t) PROVE LanguageInv'
  <2>1. errors' = errors + 1 /\ UNCHANGED <<blockedAt, foreign>>
    BY <1>6 DEF Fails
  <2>2. Banning' = Banning \ {t}
    BY <1>6 DEF Fails, Goto, Banning, TypeOK
  <2>3. Cardinality(Banning') >= Cardinality(Banning) - 1
    <3>1. Cardinality(Banning \ {t}) \in {Cardinality(Banning), Cardinality(Banning) - 1}
      BY BanningType, FS_RemoveElement
    <3> QED
      BY <2>2, <3>1, BanningType
  <2>4. IsFiniteSet(Banning') /\ Cardinality(Banning') \in Nat
    BY <2>2, BanningType, FS_RemoveElement, FS_CardinalityType
  <2>5. CASE blockedAt
    BY <2>1, <2>5, Zenon DEF LanguageInv
  <2>6. CASE foreign < LanguageThreshold + errors + Cardinality(Banning)
    BY <2>1, <2>3, <2>4, <2>6, BanningType, RecordsAssumption DEF LanguageInv, TypeOK
  <2> QED
    BY <2>5, <2>6 DEF LanguageInv
<1>7. ASSUME NEW t \in Task, Redeliver(t) PROVE LanguageInv'
  <2>1. errors' = errors + 1 /\ UNCHANGED <<at, blockedAt, foreign>>
    BY <1>7 DEF Redeliver
  <2>2. Banning' = Banning
    BY <2>1 DEF Banning
  <2>3. CASE blockedAt
    BY <2>1, <2>3, Zenon DEF LanguageInv
  <2>4. CASE foreign < LanguageThreshold + errors + Cardinality(Banning)
    BY <2>1, <2>2, <2>4, BanningType, RecordsAssumption DEF LanguageInv, TypeOK
  <2> QED
    BY <2>3, <2>4 DEF LanguageInv
<1>8. CASE Enqueue \/ Cleanup \/ LockEnds \/ FactExpires
  BY <1>8, LanguageQuiet DEF Enqueue, Cleanup, LockEnds, FactExpires, Banning
<1> QED
  BY <1>1, <1>2, <1>3, <1>4, <1>5, <1>6, <1>7, <1>8 DEF Next, FrontierStep

(***************************************************************************)
(* Enough pages in another language get the domain blocked                 *)
(* (record_language), however many Parsers count them at the same time.    *)
(***************************************************************************)
THEOREM LanguageHolds == Spec => []LanguageBlocks
<1>1. TypeOK /\ LanguageInv => LanguageBlocks
  <2> SUFFICES ASSUME TypeOK, LanguageInv, foreign >= LanguageThreshold + errors,
                      ~blockedAt
               PROVE  \E t \in Task : at[t] = "ban"
    BY DEF LanguageBlocks
  <2>1. Cardinality(Banning) # 0
    BY BanningType, RecordsAssumption DEF LanguageInv, TypeOK
  <2>2. Banning # {}
    BY <2>1, FS_EmptySet
  <2> QED
    BY <2>2 DEF Banning
<1> QED
  BY <1>1, TypeInit, TypeStep, LanguageInit, LanguageStep, PTL DEF Spec

-----------------------------------------------------------------------------
(***************************************************************************)
(* Cached facts.  A fact is stuck when it is kept and nobody is about to   *)
(* give it an expiry.                                                      *)
(***************************************************************************)
Stuck == {k \in Fact : fact[k] = "kept" /\ \A t \in Task : at[t] # Expiring[k]}

LEMMA StuckType == IsFiniteSet(Stuck) /\ Cardinality(Stuck) \in Nat
BY FactFinite, FS_Subset, FS_CardinalityType DEF Stuck

LEMMA StuckGrows ==
  ASSUME TypeOK, FactsExpire, UNCHANGED errors, Stuck' \subseteq Stuck
  PROVE  FactsExpire'
<1>1. Cardinality(Stuck') <= Cardinality(Stuck) /\ Cardinality(Stuck') \in Nat
  BY StuckType, FS_Subset, FS_CardinalityType
<1>2. Cardinality(Stuck) <= errors
  BY DEF FactsExpire, Stuck
<1>3. Cardinality(Stuck') <= errors'
  BY <1>1, <1>2, StuckType DEF TypeOK
<1> QED
  BY <1>3 DEF FactsExpire, Stuck

\* A task that is not about to give an expiry may go wherever it likes.
LEMMA StuckKept ==
  ASSUME TypeOK, FactsExpire, UNCHANGED <<fact, errors>>, NEW t \in Task,
         \A k \in Fact : at[t] # Expiring[k],
         \A s \in Task \ {t} : at'[s] = at[s]
  PROVE  FactsExpire'
<1>1. Stuck' \subseteq Stuck
  BY DEF Stuck
<1> QED
  BY <1>1, StuckGrows

LEMMA FactsInit == Init => FactsExpire
<1> SUFFICES ASSUME Init PROVE FactsExpire
  OBVIOUS
<1>1. Stuck = {}
  BY DEF Init, Stuck
<1>2. Cardinality(Stuck) = 0
  BY <1>1, FS_EmptySet
<1>3. Cardinality(Stuck) <= errors
  BY <1>2 DEF Init
<1> QED
  BY <1>3 DEF FactsExpire, Stuck

LEMMA FactsStep == TypeOK /\ FactsExpire /\ [Next]_vars => FactsExpire'
<1> SUFFICES ASSUME TypeOK, FactsExpire, [Next]_vars PROVE FactsExpire'
  OBVIOUS
<1>1. CASE UNCHANGED vars
  BY <1>1, StuckGrows DEF vars, Stuck
<1>2. ASSUME NEW t \in Task,
             \/ Fetch(t) \/ LockDomain(t) \/ BlockDomain(t) \/ UnlockDomain(t)
             \/ Unanswered(t) \/ RecordLanguage(t) \/ BanLanguage(t)
             \/ GetMetrics(t) \/ SaveMetrics(t) \/ Acknowledge(t)
             \/ Refuse(t) \/ SaveDomain(t)
      PROVE  FactsExpire'
  <2>1. at[t] \in {"idle", "fetch", "block", "ban", "write", "ack",
                    "country", "robots", "register"}
    BY <1>2 DEF Fetch, LockDomain, BlockDomain, UnlockDomain, Unanswered,
                RecordLanguage, BanLanguage, GetMetrics, SaveMetrics, Acknowledge,
                Refuse, SaveDomain, Begins
  <2>2. UNCHANGED <<fact, errors>> /\ \A s \in Task \ {t} : at'[s] = at[s]
    BY <1>2 DEF Fetch, LockDomain, BlockDomain, UnlockDomain, Unanswered,
                RecordLanguage, BanLanguage, GetMetrics, SaveMetrics, Acknowledge,
                Refuse, SaveDomain, Begins, Goto, TypeOK
  <2>3. \A k \in Fact : at[t] # Expiring[k]
    BY <2>1, Places
  <2> QED
    BY <2>2, <2>3, StuckKept
<1>3. ASSUME NEW t \in Task,
             \/ DNSMiddleware(t) \/ CountryMiddleware(t)
             \/ RobotsExclusionMiddleware(t)
      PROVE  FactsExpire'
  <2>1. at[t] \in {"idle", "country", "robots"}
    BY <1>3 DEF DNSMiddleware, CountryMiddleware, RobotsExclusionMiddleware, Begins
  <2>2. UNCHANGED <<fact, errors>> /\ \A s \in Task \ {t} : at'[s] = at[s]
    BY <1>3 DEF DNSMiddleware, CountryMiddleware, RobotsExclusionMiddleware,
                Lookup, Goto, TypeOK
  <2>3. \A k \in Fact : at[t] # Expiring[k]
    BY <2>1, Places
  <2> QED
    BY <2>2, <2>3, StuckKept
<1>4. ASSUME NEW t \in Task, NEW k \in Fact, SaveFact(t, k) PROVE FactsExpire'
  <2>1. /\ at[t] = Saving[k] /\ at'[t] = Expiring[k]
        /\ \A s \in Task \ {t} : at'[s] = at[s]
    BY <1>4 DEF SaveFact, Goto, TypeOK
  <2>2. \A l \in Fact \ {k} : fact'[l] = fact[l]
    BY <1>4 DEF SaveFact, TypeOK
  <2>3. \A l \in Fact : at[t] # Expiring[l]
    BY <2>1, Places
  <2>4. Stuck' \subseteq Stuck
    BY <2>1, <2>2, <2>3 DEF Stuck
  <2> QED
    BY <1>4, <2>4, StuckGrows DEF SaveFact
<1>5. ASSUME NEW t \in Task, NEW k \in Fact, ExpireFact(t, k) PROVE FactsExpire'
  <2>1. /\ at[t] = Expiring[k]
        /\ \A s \in Task \ {t} : at'[s] = at[s]
    BY <1>5 DEF ExpireFact, Goto, TypeOK
  <2>2. \A l \in Fact \ {k} : fact'[l] = fact[l]
    BY <1>5 DEF ExpireFact, TypeOK
  <2>3. fact'[k] # "kept" \/ (fact'[k] = fact[k] /\ fact[k] = "absent")
    BY <1>5 DEF ExpireFact, TypeOK
  <2>4. \A l \in Fact \ {k} : at[t] # Expiring[l]
    BY <2>1, Places
  <2>5. Stuck' \subseteq Stuck
    BY <2>1, <2>2, <2>3, <2>4 DEF Stuck
  <2> QED
    BY <1>5, <2>5, StuckGrows DEF ExpireFact
<1>6. ASSUME NEW t \in Task, Fails(t) PROVE FactsExpire'
  <2>1. /\ errors' = errors + 1 /\ UNCHANGED fact
        /\ \A s \in Task \ {t} : at'[s] = at[s]
    BY <1>6 DEF Fails, Goto, TypeOK
  <2>2. \E k \in Fact : Stuck' \subseteq Stuck \cup {k}
    <3>1. CASE \E k \in Fact : at[t] = Expiring[k]
      <4>1. PICK k \in Fact : at[t] = Expiring[k]
        BY <3>1
      <4>2. \A l \in Fact \ {k} : at[t] # Expiring[l]
        BY <4>1, Places
      <4> QED
        BY <2>1, <4>2 DEF Stuck
    <3>2. CASE \A k \in Fact : at[t] # Expiring[k]
      BY <2>1, <3>2 DEF Stuck, Fact
    <3> QED
      BY <3>1, <3>2
  <2>3. PICK k \in Fact : Stuck' \subseteq Stuck \cup {k}
    BY <2>2
  <2>4. /\ IsFiniteSet(Stuck \cup {k})
        /\ Cardinality(Stuck \cup {k}) \in {Cardinality(Stuck), Cardinality(Stuck) + 1}
    BY StuckType, FS_AddElement
  <2>5. Cardinality(Stuck') <= Cardinality(Stuck \cup {k}) /\ Cardinality(Stuck') \in Nat
    BY <2>3, <2>4, FS_Subset, FS_CardinalityType
  <2>6. Cardinality(Stuck) <= errors
    BY DEF FactsExpire, Stuck
  <2>7. Cardinality(Stuck') <= errors'
    BY <2>1, <2>4, <2>5, <2>6, StuckType DEF TypeOK
  <2> QED
    BY <2>7 DEF FactsExpire, Stuck
<1>7. CASE Enqueue \/ Cleanup \/ LockEnds
  BY <1>7, StuckGrows DEF Enqueue, Cleanup, LockEnds, Stuck
<1>8. CASE FactExpires
  <2>1. \A k \in Fact : fact'[k] = "kept" => fact[k] = "kept"
    BY <1>8 DEF FactExpires, TypeOK
  <2>2. Stuck' \subseteq Stuck
    BY <1>8, <2>1 DEF FactExpires, Stuck
  <2> QED
    BY <1>8, <2>2, StuckGrows DEF FactExpires
<1>9. ASSUME NEW t \in Task, Redeliver(t) PROVE FactsExpire'
  <2>1. errors' = errors + 1 /\ Stuck' = Stuck
    BY <1>9 DEF Redeliver, Stuck
  <2>2. Cardinality(Stuck') <= errors'
    BY <2>1, StuckType DEF FactsExpire, Stuck, TypeOK
  <2> QED
    BY <2>2 DEF FactsExpire, Stuck
<1> QED
  BY <1>1, <1>2, <1>3, <1>4, <1>5, <1>6, <1>7, <1>8, <1>9 DEF Next

(***************************************************************************)
(* Every cached fact gets its expiry, but for one for each failure between *)
(* hset and expire.                                                        *)
(***************************************************************************)
THEOREM ExpiryHolds == Spec => []FactsExpire
BY TypeInit, TypeStep, FactsInit, FactsStep, PTL DEF Spec

-----------------------------------------------------------------------------
(***************************************************************************)
(* Metrics.  Each update under way, and each message that is to come back, *)
(* may yet count one page.                                                 *)
(***************************************************************************)
Writers == {t \in Task : at[t] = "write"}
Coming == Cardinality(Writers) + waiting
USE DEF Coming
PagesInv ==
  /\ total + Coming <= pages + errors
  /\ \A t \in Writers : read[t] + Coming <= pages + errors
  /\ ~overlapped => /\ pages <= total + Coming + errors
                    /\ Cardinality(Writers) <= 1
                    /\ \A t \in Writers : read[t] = total

LEMMA WritersType == IsFiniteSet(Writers) /\ Cardinality(Writers) \in Nat
BY RecordsAssumption, FS_Subset, FS_CardinalityType DEF Writers

LEMMA PagesInit == Init => PagesInv
<1> SUFFICES ASSUME Init PROVE PagesInv
  OBVIOUS
<1>1. Writers = {}
  BY DEF Init, Writers
<1> QED
  BY <1>1, FS_EmptySet DEF Init, PagesInv

\* A step that neither reads nor writes the metrics.
LEMMA PagesQuiet ==
  ASSUME PagesInv, UNCHANGED <<total, counting, errors>>, Writers' = Writers
  PROVE  PagesInv'
<1>1. /\ total' = total /\ read' = read /\ waiting' = waiting /\ errors' = errors
      /\ pages' = pages /\ overlapped' = overlapped
  OBVIOUS
<1> QED
  BY <1>1 DEF PagesInv

\* Most steps move one task between places that are not "write".
LEMMA WritersKept ==
  ASSUME TypeOK, NEW t \in Task, at[t] # "write", at'[t] # "write",
         \A s \in Task \ {t} : at'[s] = at[s]
  PROVE  Writers' = Writers
BY DEF Writers

\* A read begins an update.
LEMMA PagesRead ==
  ASSUME TypeOK, PagesInv, NEW t \in Task, GetMetrics(t)
  PROVE  PagesInv'
<1>1. /\ at' = [at EXCEPT ![t] = "write"] /\ at[t] = "idle"
      /\ read' = [read EXCEPT ![t] = total]
      /\ UNCHANGED <<total, errors>>
      /\ overlapped' = (overlapped \/ \E s \in Task : at[s] = "write")
  BY DEF GetMetrics, Begins, Goto
<1>2. \/ pages' = pages + 1 /\ waiting' = waiting
      \/ pages' = pages /\ waiting > 0 /\ waiting' = waiting - 1
  BY DEF GetMetrics
<1>3. Writers' = Writers \cup {t} /\ t \notin Writers
  BY <1>1 DEF Writers, TypeOK
<1>4. Cardinality(Writers') = Cardinality(Writers) + 1
  BY <1>3, WritersType, FS_AddElement
<1>5. pages' - Coming' = pages - Coming
  BY <1>2, <1>4, WritersType DEF TypeOK
<1>6. \A s \in Task : read'[s] = IF s = t THEN total ELSE read[s]
  BY <1>1 DEF TypeOK
<1>7. pages' \in Nat /\ Coming' \in Nat /\ Coming \in Nat
  BY <1>2, <1>4, WritersType DEF TypeOK
<1>8. /\ total' + Coming' <= pages' + errors'
      /\ \A s \in Writers' : read'[s] + Coming' <= pages' + errors'
  <2>1. /\ total' = total /\ errors' = errors /\ pages' = pages + (Coming' - Coming)
        /\ total \in Nat /\ errors \in Nat /\ pages \in Nat
    BY <1>1, <1>5, <1>7, RecordsAssumption DEF TypeOK
  <2>2. total + Coming <= pages + errors
    BY DEF PagesInv
  <2>3. total' + Coming' <= pages' + errors'
    BY <1>7, <2>1, <2>2
  <2>4. ASSUME NEW s \in Writers' PROVE read'[s] + Coming' <= pages' + errors'
    <3>1. CASE s = t
      BY <1>6, <2>1, <2>3, <3>1
    <3>2. CASE s # t
      <4>1. s \in Writers /\ read'[s] = read[s] /\ read[s] \in Nat
        BY <1>3, <1>6, <2>4, <3>2 DEF Writers, TypeOK
      <4>2. read[s] + Coming <= pages + errors
        BY <4>1 DEF PagesInv
      <4> QED
        BY <1>7, <2>1, <4>1, <4>2
    <3> QED
      BY <3>1, <3>2
  <2> QED
    BY <2>3, <2>4
<1>9. ASSUME ~overlapped'
      PROVE  /\ pages' <= total' + Coming' + errors'
             /\ Cardinality(Writers') <= 1
             /\ \A s \in Writers' : read'[s] = total'
  <2>1. ~overlapped /\ Writers = {}
    BY <1>1, <1>9, Zenon DEF Writers
  <2>2. Cardinality(Writers') <= 1
    BY <1>4, <2>1, FS_EmptySet
  <2>3. pages <= total + Coming + errors
    BY <2>1 DEF PagesInv
  <2>4. pages' <= total' + Coming' + errors'
    BY <1>1, <1>5, <1>7, <2>3, RecordsAssumption DEF TypeOK
  <2>5. Writers' = {t}
    BY <1>3, <2>1
  <2> QED
    BY <1>1, <1>6, <2>2, <2>4, <2>5
<1> QED
  BY <1>8, <1>9 DEF PagesInv

\* A write ends an update.
LEMMA PagesWritten ==
  ASSUME TypeOK, PagesInv, NEW t \in Task, SaveMetrics(t)
  PROVE  PagesInv'
<1>1. /\ at' = [at EXCEPT ![t] = "ack"] /\ at[t] = "write"
      /\ read' = [read EXCEPT ![t] = 0]
      /\ total' = read[t] + 1
      /\ UNCHANGED <<waiting, pages, overlapped, errors>>
  BY DEF SaveMetrics, Goto
<1>2. Writers' = Writers \ {t} /\ t \in Writers
  BY <1>1 DEF Writers, TypeOK
<1>3. Cardinality(Writers') = Cardinality(Writers) - 1
  BY <1>2, WritersType, FS_RemoveElement
<1>4. Coming' = Coming - 1 /\ Coming \in Nat
  BY <1>1, <1>3, WritersType DEF TypeOK
<1>5. \A s \in Writers' : s \in Task /\ s \in Writers /\ read'[s] = read[s]
  BY <1>1, <1>2 DEF Writers, TypeOK
<1>6. /\ total' + Coming' <= pages' + errors'
      /\ \A s \in Writers' : read'[s] + Coming' <= pages' + errors'
  <2>1. /\ pages' = pages /\ errors' = errors /\ pages \in Nat /\ errors \in Nat
        /\ \A s \in Task : read[s] \in Nat
    BY <1>1, RecordsAssumption DEF TypeOK
  <2>2. total' + Coming' <= pages' + errors'
    <3>1. read[t] + Coming <= pages + errors
      BY <1>2 DEF PagesInv
    <3> QED
      BY <1>1, <1>4, <2>1, <3>1
  <2>3. ASSUME NEW s \in Writers' PROVE read'[s] + Coming' <= pages' + errors'
    <3>1. read[s] + Coming <= pages + errors
      BY <1>5, <2>3 DEF PagesInv
    <3> QED
      BY <1>4, <1>5, <2>1, <2>3, <3>1
  <2> QED
    BY <2>2, <2>3
<1>7. ASSUME ~overlapped'
      PROVE  /\ pages' <= total' + Coming' + errors'
             /\ Cardinality(Writers') <= 1
             /\ \A s \in Writers' : read'[s] = total'
  <2>1. ~overlapped
    BY <1>1, <1>7, Zenon
  <2>2. Cardinality(Writers) <= 1 /\ read[t] = total
    BY <1>2, <2>1 DEF PagesInv
  <2>3. Cardinality(Writers') = 0
    BY <1>2, <1>3, <2>2, WritersType, FS_RemoveElement, FS_CardinalityType
  <2>4. Writers' = {}
    BY <1>2, <2>3, WritersType, FS_RemoveElement, FS_EmptySet
  <2> QED
    BY <1>1, <1>4, <2>1, <2>2, <2>3, <2>4 DEF PagesInv, TypeOK
<1> QED
  BY <1>6, <1>7 DEF PagesInv

\* A failure costs at most one page, or counts it at most once more.
LEMMA PagesFailed ==
  ASSUME TypeOK, PagesInv, NEW t \in Task, Redeliver(t) \/ Fails(t)
  PROVE  PagesInv'
<1>1. /\ errors' = errors + 1 /\ UNCHANGED <<total, pages, overlapped>>
      /\ waiting' = waiting \/ waiting' = waiting + 1
      /\ \/ UNCHANGED <<at, read>>
         \/ at' = [at EXCEPT ![t] = "idle"] /\ read' = [read EXCEPT ![t] = 0]
  BY DEF Redeliver, Fails, Goto
<1>2. Writers' = Writers \/ Writers' = Writers \ {t}
  BY <1>1 DEF Writers, TypeOK
<1>3. Cardinality(Writers') \in {Cardinality(Writers), Cardinality(Writers) - 1}
  BY <1>2, WritersType, FS_RemoveElement
<1>4. IsFiniteSet(Writers') /\ Cardinality(Writers') \in Nat
  BY <1>2, WritersType, FS_RemoveElement, FS_CardinalityType
<1>5. Coming' <= Coming + 1 /\ Coming <= Coming' + 1 /\ Coming \in Nat /\ Coming' \in Nat
  BY <1>1, <1>3, <1>4, WritersType DEF TypeOK
<1>6. \A s \in Writers' : s \in Task /\ s \in Writers /\ read'[s] = read[s]
  <2>1. CASE UNCHANGED <<at, read>>
    BY <2>1 DEF Writers
  <2>2. CASE at' = [at EXCEPT ![t] = "idle"] /\ read' = [read EXCEPT ![t] = 0]
    BY <2>2 DEF Writers, TypeOK
  <2> QED
    BY <1>1, <2>1, <2>2
<1>7. /\ total' = total /\ pages' = pages /\ errors' = errors + 1
      /\ total \in Nat /\ pages \in Nat /\ errors \in Nat
  BY <1>1, RecordsAssumption DEF TypeOK
<1>8. total' + Coming' <= pages' + errors'
  BY <1>5, <1>7 DEF PagesInv
<1>9. ASSUME NEW s \in Writers' PROVE read'[s] + Coming' <= pages' + errors'
  <2>1. s \in Writers /\ read'[s] = read[s] /\ read[s] \in Nat
    BY <1>6, <1>9 DEF TypeOK
  <2>2. read[s] + Coming <= pages + errors
    BY <2>1 DEF PagesInv
  <2> QED
    BY <1>5, <1>7, <2>1, <2>2
<1>10. ASSUME ~overlapped'
       PROVE  /\ pages' <= total' + Coming' + errors'
              /\ Cardinality(Writers') <= 1
              /\ \A s \in Writers' : read'[s] = total'
  <2>1. ~overlapped
    BY <1>1, <1>10, Zenon
  <2>2. pages <= total + Coming + errors /\ Cardinality(Writers) <= 1
    BY <2>1 DEF PagesInv
  <2>3. Cardinality(Writers') <= 1
    BY <1>3, <1>4, <2>2, WritersType
  <2>4. \A s \in Writers' : read'[s] = total'
    BY <1>6, <1>7, <2>1 DEF PagesInv
  <2> QED
    BY <1>5, <1>7, <2>2, <2>3, <2>4
<1> QED
  BY <1>8, <1>9, <1>10 DEF PagesInv

LEMMA PagesStep == TypeOK /\ PagesInv /\ [Next]_vars => PagesInv'
<1> SUFFICES ASSUME TypeOK, PagesInv, [Next]_vars PROVE PagesInv'
  OBVIOUS
<1>1. CASE UNCHANGED vars
  BY <1>1, PagesQuiet DEF vars, Writers
<1>2. ASSUME NEW t \in Task,
             \/ Fetch(t) \/ LockDomain(t) \/ BlockDomain(t) \/ UnlockDomain(t)
             \/ Unanswered(t) \/ RecordLanguage(t) \/ BanLanguage(t)
             \/ Acknowledge(t) \/ Refuse(t) \/ SaveDomain(t)
      PROVE  PagesInv'
  <2>1. UNCHANGED <<total, counting, errors>>
    BY <1>2 DEF Fetch, LockDomain, BlockDomain, UnlockDomain, Unanswered,
                RecordLanguage, BanLanguage, Acknowledge, Refuse, SaveDomain
  <2>2. at[t] # "write" /\ at'[t] # "write" /\ \A s \in Task \ {t} : at'[s] = at[s]
    BY <1>2 DEF Fetch, LockDomain, BlockDomain, UnlockDomain, Unanswered,
                RecordLanguage, BanLanguage, Acknowledge, Refuse, SaveDomain,
                Begins, Goto, TypeOK
  <2> QED
    BY <2>1, <2>2, PagesQuiet, WritersKept
<1>3. ASSUME NEW t \in Task, FrontierStep(t) PROVE PagesInv'
  BY <1>3, FrontierAlone, PagesQuiet, WritersKept
<1>4. ASSUME NEW t \in Task,
             GetMetrics(t) \/ SaveMetrics(t) \/ Redeliver(t) \/ Fails(t)
      PROVE  PagesInv'
  BY <1>4, PagesRead, PagesWritten, PagesFailed
<1>5. CASE Enqueue \/ Cleanup \/ LockEnds \/ FactExpires
  BY <1>5, PagesQuiet DEF Enqueue, Cleanup, LockEnds, FactExpires, Writers
<1> QED
  BY <1>1, <1>2, <1>3, <1>4, <1>5 DEF Next, FrontierStep

(***************************************************************************)
(* total_crawled never counts more than the pages that came to a Storage   *)
(* and one for each failure, and no fewer than those but one for each      *)
(* failure while updates do not overlap (update_domain_metrics).           *)
(***************************************************************************)
THEOREM PagesHold == Spec => []PagesCounted
<1>1. TypeOK /\ PagesInv => PagesCounted
  <2> SUFFICES ASSUME TypeOK, PagesInv PROVE PagesCounted
    OBVIOUS
  <2>1. total <= pages + errors
    BY WritersType DEF PagesInv, TypeOK
  <2>2. ASSUME ~overlapped, waiting = 0, \A t \in Task : at[t] # "write"
        PROVE  pages <= total + errors
    <3>1. Writers = {}
      BY <2>2 DEF Writers
    <3>2. Coming = 0
      BY <2>2, <3>1, FS_EmptySet
    <3> QED
      BY <2>2, <3>2 DEF PagesInv, TypeOK
  <2> QED
    BY <2>1, <2>2 DEF PagesCounted
<1> QED
  BY <1>1, TypeInit, TypeStep, PagesInit, PagesStep, PTL DEF Spec

-----------------------------------------------------------------------------
(***************************************************************************)
(* An exclusion stands once no page let in before it is left: neither a    *)
(* registration nor a language nor a late report readmits the domain, and  *)
(* no page is let in but by a scan whose exclusion query failed.           *)
(***************************************************************************)
THEOREM ReadmissionHolds == Spec => Readmission
<1> DEFINE Stands ==
      Excluded /\ ~Fetchable =>
        /\ status = "blocked" => status' = "blocked"
        /\ Excluded' \/ until' = "past"
        /\ Fetchable' => misses' > misses
<1>1. TypeOK /\ [Next]_vars => [Stands]_vars
  <2> SUFFICES ASSUME TypeOK, Next, Excluded, ~Fetchable PROVE Stands
    OBVIOUS
  <2>1. ~queued /\ \A t \in Task : at[t] # "fetch"
    BY DEF Fetchable
  <2>2. ASSUME NEW t \in Task,
               \/ Fetch(t) \/ LockDomain(t) \/ UnlockDomain(t) \/ Unanswered(t)
        PROVE  FALSE
    BY <2>1, <2>2 DEF Fetch, LockDomain, UnlockDomain, Unanswered
  <2>3. ASSUME NEW t \in Task, ~queued', at'[t] # "fetch",
               \A s \in Task \ {t} : at'[s] = at[s]
        PROVE  ~Fetchable'
    BY <2>1, <2>3 DEF Fetchable
  <2>4. ASSUME NEW t \in Task,
               \/ BlockDomain(t) \/ RecordLanguage(t) \/ BanLanguage(t) \/ SaveDomain(t)
        PROVE  Stands
    <3>1. /\ status = "blocked" => status' = "blocked"
          /\ Excluded'
      BY <2>4 DEF BlockDomain, RecordLanguage, BanLanguage, SaveDomain, Excluded
    <3>2. queued' = queued
      BY <2>4 DEF BlockDomain, RecordLanguage, BanLanguage, SaveDomain
    <3>3. at'[t] # "fetch" /\ \A s \in Task \ {t} : at'[s] = at[s]
      BY <2>1, <2>4 DEF BlockDomain, RecordLanguage, BanLanguage, SaveDomain, Goto, TypeOK
    <3> QED
      BY <2>1, <2>3, <3>1, <3>2, <3>3
  <2>5. ASSUME NEW t \in Task,
               \/ GetMetrics(t) \/ SaveMetrics(t) \/ Acknowledge(t) \/ Redeliver(t)
               \/ Fails(t) \/ Refuse(t) \/ FrontierStep(t)
        PROVE  Stands
    <3>1. UNCHANGED <<document, queued>>
      BY <2>5, FrontierAlone DEF GetMetrics, SaveMetrics, Acknowledge, Redeliver,
                                 Fails, Refuse
    <3>2. at'[t] # "fetch" /\ \A s \in Task \ {t} : at'[s] = at[s]
      BY <2>1, <2>5, FrontierAlone DEF GetMetrics, SaveMetrics, Acknowledge, Redeliver,
                                       Fails, Refuse, Goto, TypeOK
    <3>3. Excluded' /\ status' = status
      BY <3>1 DEF Excluded
    <3> QED
      BY <2>1, <2>3, <3>1, <3>2, <3>3
  <2>6. CASE Enqueue \/ Cleanup
    BY <2>1, <2>6 DEF Enqueue, Cleanup, Excluded, TypeOK
  <2>7. CASE LockEnds \/ FactExpires
    BY <2>1, <2>7 DEF LockEnds, FactExpires, Excluded, Fetchable
  <2> QED
    BY <2>2, <2>4, <2>5, <2>6, <2>7 DEF Next, FrontierStep
<1> QED
  BY <1>1, TypeInit, TypeStep, PTL DEF Spec, Readmission
=============================================================================
