--------------------------- MODULE RolloutProofs ---------------------------
(***************************************************************************)
(* What the rollout guarantees whatever the stores, their buckets and the  *)
(* percentages, and however many versions are published.                   *)
(***************************************************************************)
EXTENDS Rollout, SequenceTheorems, WellFoundedInduction, TLAPS

\* Max finds the largest element of a set of bounded naturals.
LEMMA MaxExists ==
  ASSUME NEW n \in Nat, NEW S \in SUBSET (0..n), S # {}
  PROVE  Max(S) \in S /\ \A y \in S : y <= Max(S)
<1> DEFINE T == {n - y : y \in S}
           R == OpToRel(<, Nat)
<1>1. T \subseteq Nat /\ T # {}
  <2>1. \A y \in S : n - y \in Nat
    OBVIOUS
  <2>2. PICK y \in S : TRUE
    OBVIOUS
  <2> QED
    BY <2>1, <2>2
<1>2. PICK m \in T : \A y \in T : ~ (<<y, m>> \in R)
  <2> HIDE DEF T, R
  <2>1. IsWellFoundedOn(R, Nat)
    BY NatLessThanWellFounded DEF R
  <2> QED
    BY <1>1, <2>1, WFMin
<1>3. \A y \in T : ~ (y < m)
  BY <1>1, <1>2 DEF OpToRel
<1>4. PICK x \in S : m = n - x
  BY <1>2
<1>5. \A y \in S : x >= y
  <2> TAKE y \in S
  <2>1. ~ (n - y < n - x)
    BY <1>3, <1>4
  <2> QED
    BY <2>1
<1>6. \E z \in S : \A y \in S : z >= y
  BY <1>5
<1>7. Max(S) \in S /\ \A y \in S : Max(S) >= y
  BY <1>6 DEF Max
<1> QED
  BY <1>7

\* What a store is served is a version that is meant for it, or the first.
LEMMA ActiveIsMeant ==
  ASSUME versions \in Seq(configVersion), NEW s \in Stores
  PROVE  /\ active(s) = None <=> versions = <<>>
         /\ active(s) # None => Known(active(s))
         /\ active(s) > 1 => Targeted(s, active(s))
<1>1. Newest \in Nat /\ DOMAIN versions = 1..Newest
  BY LenProperties DEF Newest
<1>2. CASE versions = <<>>
  BY <1>2 DEF active, None
<1>3. CASE versions # <<>>
  <2>1. Newest > 0
    BY <1>1, <1>3, EmptySeq DEF Newest
  <2>2. CASE ~versions[Newest].rolledBack /\ Targeted(s, Newest)
    <3>1. active(s) = Newest
      BY <1>3, <2>2 DEF active
    <3> QED
      BY <1>1, <1>3, <2>1, <2>2, <3>1 DEF None, Known
  <2>3. CASE ~(~versions[Newest].rolledBack /\ Targeted(s, Newest))
    <3>1. active(s) = IF Good # {} THEN Max(Good) ELSE 1
      BY <1>3, <2>3 DEF active
    <3>2. CASE Good = {}
      BY <1>1, <1>3, <2>1, <3>1, <3>2 DEF None, Known
    <3>3. CASE Good # {}
      <4>1. Good \in SUBSET (0..Newest)
        BY <1>1 DEF Good
      <4>2. Max(Good) \in Good
        BY <1>1, <3>3, <4>1, MaxExists
      <4> QED
        BY <1>1, <1>3, <3>1, <3>3, <4>2 DEF None, Known, Good, Targeted
    <3> QED
      BY <3>2, <3>3
  <2> QED
    BY <2>2, <2>3
<1> QED
  BY <1>2, <1>3

\* A version stays in the list, and its percentage changes only to 100.
Keeps ==
  \A v \in DOMAIN versions :
    v \in DOMAIN versions' /\ versions'[v].pct \in {versions[v].pct, 100}

LEMMA StoreKeeps ==
  ASSUME versions \in Seq(configVersion),
         \/ \E p \in Pcts : publish(p)
         \/ \E v \in DOMAIN versions : promote(v)
         \/ \E v \in Nat : rollback(v)
  PROVE  versions' \in Seq(configVersion) /\ Keeps
<1>1. Len(versions) \in Nat /\ DOMAIN versions = 1..Len(versions)
  BY LenProperties
<1>2. \A v \in DOMAIN versions : versions[v] \in configVersion
  BY <1>1, ElementOfSeq
<1>3. ASSUME NEW p \in Pcts, publish(p)
      PROVE  versions' \in Seq(configVersion) /\ Keeps
  <2>1. [pct |-> p, rolledBack |-> FALSE] \in configVersion
    BY ConfigAssumption DEF configVersion
  <2>2. versions' = Append(versions, [pct |-> p, rolledBack |-> FALSE])
    BY <1>3 DEF publish
  <2>3. /\ versions' \in Seq(configVersion)
        /\ Len(versions') = Len(versions) + 1
        /\ \A i \in 1..Len(versions) : versions'[i] = versions[i]
    BY <2>1, <2>2, AppendProperties
  <2>4. DOMAIN versions' = 1..(Len(versions) + 1)
    BY <2>3, LenProperties
  <2> QED
    BY <1>1, <2>3, <2>4 DEF Keeps
<1>4. ASSUME NEW v \in DOMAIN versions, NEW c \in configVersion,
             versions' = [versions EXCEPT ![v] = c],
             c.pct \in {versions[v].pct, 100}
      PROVE  versions' \in Seq(configVersion) /\ Keeps
  <2>1. /\ versions' \in Seq(configVersion)
        /\ \A j \in 1..Len(versions) :
             versions'[j] = IF j = v THEN c ELSE versions[j]
    BY <1>1, <1>4, ExceptSeq
  <2>2. DOMAIN versions' = DOMAIN versions
    BY <1>4
  <2> QED
    BY <1>1, <1>4, <2>1, <2>2 DEF Keeps
<1>5. ASSUME NEW v \in DOMAIN versions, promote(v)
      PROVE  versions' \in Seq(configVersion) /\ Keeps
  <2>1. [pct |-> 100, rolledBack |-> FALSE] \in configVersion
    BY DEF configVersion
  <2> QED
    BY <1>4, <1>5, <2>1 DEF promote
<1>6. ASSUME NEW v \in Nat, rollback(v)
      PROVE  versions' \in Seq(configVersion) /\ Keeps
  <2>1. v \in DOMAIN versions
    BY <1>6 DEF rollback, Known
  <2> DEFINE c == [versions[v] EXCEPT !.rolledBack = TRUE]
  <2>2. c \in configVersion /\ c.pct = versions[v].pct
    BY <1>2, <2>1 DEF configVersion
  <2>3. versions' = [versions EXCEPT ![v] = c]
    BY <1>6 DEF rollback
  <2> QED
    BY <1>4, <2>1, <2>2, <2>3
<1> QED
  BY <1>3, <1>5, <1>6

-----------------------------------------------------------------------------
\* The type invariant, for every choice of the constants.
THEOREM TypeCorrect == Spec => []TypeOK
<1>1. Init => TypeOK
  <2> SUFFICES ASSUME Init PROVE TypeOK
    OBVIOUS
  <2>1. Nothing \in Copy
    BY DEF Nothing, Copy, None
  <2>2. versions \in Seq(configVersion)
    BY EmptySeq DEF Init
  <2> QED
    BY <2>1, <2>2 DEF Init, TypeOK, PC, Nothing, None
<1>2. TypeOK /\ [Next]_vars => TypeOK'
  <2> SUFFICES ASSUME TypeOK, [Next]_vars PROVE TypeOK'
    OBVIOUS
  <2> USE DEF TypeOK
  <2>0. /\ Nothing \in Copy
        /\ DOMAIN versions = 1..Len(versions) /\ Len(versions) \in Nat
        /\ \A v \in DOMAIN versions : versions[v].pct \in Int
    <3>1. Nothing \in Copy
      BY DEF Nothing, Copy, None
    <3>2. DOMAIN versions = 1..Len(versions) /\ Len(versions) \in Nat
      BY LenProperties
    <3>3. \A v \in DOMAIN versions : versions[v] \in configVersion
      BY <3>2, ElementOfSeq
    <3> QED
      BY <3>1, <3>2, <3>3 DEF configVersion
  <2>1. CASE Operate
    <3>1. versions' \in Seq(configVersion) /\ Keeps
      BY <2>0, <2>1, StoreKeeps DEF Operate
    <3>2. UNCHANGED <<agentVars, calm>>
      BY <2>1 DEF Operate
    <3> QED
      BY <3>1, <3>2 DEF agentVars, Keeps, Known
  <2>2. ASSUME NEW s \in Stores, Poll(s) PROVE TypeOK'
    <3> DEFINE c == [version |-> active(s), pct |-> 0, current |-> TRUE]
    <3>1. active(s) # None /\ Known(active(s))
      BY <2>2, ActiveIsMeant DEF Poll
    <3>2. active(s) \in Nat
      BY <2>0, <3>1 DEF Known
    <3>3. c \in Copy
      BY <3>2 DEF Copy
    <3>4. /\ answer' = [answer EXCEPT ![s] = c]
          /\ pc' = [pc EXCEPT ![s] = "selected"]
      BY <2>2 DEF Poll, Goto
    <3>5. answer' \in [Stores -> Copy] /\ pc' \in [Stores -> PC]
      BY <3>3, <3>4 DEF PC
    <3>6. UNCHANGED <<versions, deployed, calm>>
      BY <2>2 DEF Poll
    <3> HIDE DEF c
    <3>7. c.version = active(s)
      BY DEF c
    <3> QED
      BY <3>1, <3>4, <3>5, <3>6, <3>7 DEF Known
  <2>3. ASSUME NEW s \in Stores, Encode(s) PROVE TypeOK'
    <3> DEFINE c == [answer[s] EXCEPT !.pct = versions[answer[s].version].pct]
    <3>1. pc[s] = "selected" /\ pc' = [pc EXCEPT ![s] = "answered"]
      BY <2>3 DEF Encode, Goto
    <3>2. versions[answer[s].version].pct \in Int /\ answer[s].version # None
      BY <2>0, <3>1 DEF Known
    <3>3. c \in Copy /\ c.version = answer[s].version
      BY <3>2 DEF Copy
    <3>4. /\ answer' = [answer EXCEPT ![s] = c]
          /\ UNCHANGED <<versions, deployed, calm>>
      BY <2>3 DEF Encode
    <3> HIDE DEF c
    <3>5. answer' \in [Stores -> Copy] /\ pc' \in [Stores -> PC]
      BY <3>1, <3>3, <3>4 DEF PC
    <3> QED
      BY <3>1, <3>2, <3>3, <3>4, <3>5 DEF Known
  <2>4. ASSUME NEW s \in Stores, GetFails(s) \/ AgentRestarts(s) PROVE TypeOK'
    <3>1. /\ pc' = [pc EXCEPT ![s] = "idle"]
          /\ answer' = [answer EXCEPT ![s] = Nothing]
          /\ deployed' \in {deployed, [deployed EXCEPT ![s] = Nothing]}
          /\ UNCHANGED <<versions, calm>>
      BY <2>4 DEF GetFails, AgentRestarts
    <3> QED
      BY <2>0, <3>1 DEF PC, Known
  <2>5. ASSUME NEW s \in Stores, Deploy(s) PROVE TypeOK'
    <3>1. /\ pc[s] = "answered"
          /\ \/ pc' = [pc EXCEPT ![s] = "rolling_back"] /\ UNCHANGED answer
             \/ /\ pc' = [pc EXCEPT ![s] = "idle"]
                /\ answer' = [answer EXCEPT ![s] = Nothing]
          /\ deployed' = [deployed EXCEPT ![s] = Current(s)]
          /\ UNCHANGED <<versions, calm>>
      BY <2>5 DEF Deploy
    <3>2. Current(s) \in Copy
      BY DEF Current
    <3> QED
      BY <2>0, <3>1, <3>2 DEF PC, Known
  <2>6. ASSUME NEW s \in Stores, RollBack(s) \/ RollBackFails(s) PROVE TypeOK'
    <3>1. /\ pc' = [pc EXCEPT ![s] = "idle"]
          /\ answer' = [answer EXCEPT ![s] = Nothing]
          /\ UNCHANGED <<deployed, calm>>
      BY <2>6 DEF RollBack, RollBackFails, EndTick, Goto
    <3>2. answer[s].version \in Nat
      BY DEF Copy
    <3>3. CASE RollBack(s)
      <4>1. versions' \in Seq(configVersion) /\ Keeps
        BY <3>2, <3>3, StoreKeeps DEF RollBack
      <4> QED
        BY <2>0, <3>1, <4>1 DEF PC, Known, Keeps
    <3>4. CASE RollBackFails(s)
      BY <2>0, <3>1, <3>4 DEF RollBackFails, PC, Known
    <3> QED
      BY <2>6, <3>3, <3>4
  <2>7. CASE ConfigRestarts
    <3>1. \A s \in Stores :
            /\ [answer[s] EXCEPT !.current = FALSE] \in Copy
            /\ [answer[s] EXCEPT !.current = FALSE].version = answer[s].version
            /\ [deployed[s] EXCEPT !.current = FALSE] \in Copy
      BY DEF Copy
    <3>2. deployed' \in [Stores -> Copy] /\ answer' \in [Stores -> Copy]
      BY <2>0, <2>7, <3>1 DEF ConfigRestarts
    <3>3. pc' \in [Stores -> PC] /\ versions' \in Seq(configVersion)
      BY <2>7, EmptySeq DEF ConfigRestarts, PC
    <3>4. ASSUME NEW s \in Stores
          PROVE  /\ pc'[s] # "idle" => answer'[s].version # None
                 /\ pc'[s] # "selected"
      BY <2>7, <3>1 DEF ConfigRestarts
    <3> QED
      BY <2>7, <3>2, <3>3, <3>4 DEF ConfigRestarts
  <2>8. ASSUME Calm \/ UNCHANGED vars \/ \E s \in Stores : NotPublished(s)
        PROVE  TypeOK'
    BY <2>8 DEF Calm, NotPublished, vars, agentVars, Known
  <2> QED
    BY <2>1, <2>2, <2>3, <2>4, <2>5, <2>6, <2>7, <2>8 DEF Next, AgentStep
<1> QED
  BY <1>1, <1>2, PTL DEF Spec

-----------------------------------------------------------------------------
(***************************************************************************)
(* BlastRadius speaks of what is deployed; what is deployed was in an      *)
(* answer before, so the invariant that is inductive covers both.          *)
(***************************************************************************)
Meant(s, c) ==
  c.current /\ c.version > 1 => Known(c.version) /\ Targeted(s, c.version)

MeantInv == \A s \in Stores : Meant(s, answer[s]) /\ Meant(s, deployed[s])

\* Once meant for a store, a version stays so while vertex-config is up.
LEMMA StaysMeant ==
  ASSUME versions \in Seq(configVersion), Keeps, NEW s \in Stores,
         NEW v \in Nat, Known(v), Targeted(s, v)
  PROVE  Known(v)' /\ Targeted(s, v)'
<1>1. v \in DOMAIN versions' /\ versions'[v].pct \in {versions[v].pct, 100}
  BY DEF Keeps, Known
<1>2. CASE versions'[v].pct = versions[v].pct
  BY <1>1, <1>2 DEF Known, Targeted, IsFull, inCanaryBucket
<1>3. CASE versions'[v].pct = 100
  BY <1>1, <1>3 DEF Known, Targeted, IsFull
<1> QED
  BY <1>1, <1>2, <1>3

\* A step of vertex-config that touches no agent.
LEMMA KeepsMeant ==
  ASSUME TypeOK, MeantInv, Keeps,
         \A s \in Stores : /\ answer'[s] \in {answer[s], Nothing}
                           /\ deployed'[s] \in {deployed[s], Nothing}
  PROVE  MeantInv'
<1> SUFFICES ASSUME NEW s \in Stores,
                    NEW c \in {answer[s], deployed[s], Nothing}
             PROVE  Meant(s, c)'
  BY DEF MeantInv, Meant
<1>1. c \in Copy /\ Meant(s, c)
  <2>1. answer[s] \in Copy /\ deployed[s] \in Copy
    BY DEF TypeOK
  <2>2. Nothing \in Copy /\ ~Nothing.current
    BY DEF Nothing, Copy, None
  <2>3. Meant(s, Nothing)
    BY <2>2 DEF Meant
  <2>4. Meant(s, answer[s]) /\ Meant(s, deployed[s])
    BY DEF MeantInv
  <2> QED
    BY <2>1, <2>2, <2>3, <2>4
<1>2. c.version \in Nat
  BY <1>1 DEF Copy
<1> QED
  BY <1>1, <1>2, StaysMeant DEF Meant, TypeOK

LEMMA SameVersionsKept ==
  ASSUME UNCHANGED versions PROVE Keeps
BY DEF Keeps

\* A bad version reaches only the stores of its canary: a store runs a
\* version after the first only if it is in its canary or the version is full.
THEOREM RadiusCapped == Spec => []BlastRadius
<1>1. Init => MeantInv
  BY DEF Init, MeantInv, Meant, Nothing
<1>2. TypeOK /\ MeantInv /\ [Next]_vars => MeantInv'
  <2> SUFFICES ASSUME TypeOK, MeantInv, [Next]_vars PROVE MeantInv'
    OBVIOUS
  <2>1. CASE Operate
    <3>1. Keeps
      BY <2>1, StoreKeeps DEF Operate, TypeOK
    <3> QED
      BY <2>1, <3>1, KeepsMeant DEF Operate, agentVars
  <2>2. ASSUME NEW s \in Stores, Poll(s) PROVE MeantInv'
    <3> DEFINE c == [version |-> active(s), pct |-> 0, current |-> TRUE]
    <3>1. Meant(s, c)
      BY <2>2, ActiveIsMeant DEF Poll, Meant, TypeOK
    <3>2. /\ answer' = [answer EXCEPT ![s] = c]
          /\ UNCHANGED <<versions, deployed>>
      BY <2>2 DEF Poll
    <3> HIDE DEF c
    <3>3. \A t \in Stores : Meant(t, answer'[t]) /\ Meant(t, deployed'[t])
      BY <3>1, <3>2 DEF MeantInv, TypeOK
    <3> QED
      BY <3>2, <3>3 DEF MeantInv, Meant, Known, Targeted, IsFull
  <2>3. ASSUME NEW s \in Stores, Encode(s) PROVE MeantInv'
    <3>1. /\ UNCHANGED <<versions, deployed>>
          /\ \A t \in Stores : /\ answer'[t].version = answer[t].version
                               /\ answer'[t].current = answer[t].current
      BY <2>3 DEF Encode, TypeOK, Copy
    <3> QED
      BY <3>1 DEF MeantInv, Meant, Known, Targeted, IsFull
  <2>4. ASSUME NEW s \in Stores, GetFails(s) \/ AgentRestarts(s)
        PROVE  MeantInv'
    BY <2>4, SameVersionsKept, KeepsMeant DEF GetFails, AgentRestarts, TypeOK
  <2>5. ASSUME NEW s \in Stores, Deploy(s) PROVE MeantInv'
    <3>1. /\ \A t \in Stores : answer'[t] \in {answer[t], Nothing}
          /\ deployed' = [deployed EXCEPT ![s] = Current(s)]
          /\ UNCHANGED versions
      BY <2>5 DEF Deploy, TypeOK
    <3>2. Meant(s, Current(s))
      BY DEF Current, MeantInv
    <3>3. \A t \in Stores : Meant(t, deployed'[t])
      BY <3>1, <3>2 DEF MeantInv, TypeOK
    <3>4. \A t \in Stores : Meant(t, answer'[t])
      BY <3>1 DEF MeantInv, Meant, Nothing
    <3> QED
      BY <3>1, <3>3, <3>4 DEF MeantInv, Meant, Known, Targeted, IsFull
  <2>6. ASSUME NEW s \in Stores, RollBack(s) PROVE MeantInv'
    <3>1. answer[s].version \in Nat
      BY DEF TypeOK, Copy
    <3>2. Keeps
      BY <2>6, <3>1, StoreKeeps DEF RollBack, TypeOK
    <3> QED
      BY <2>6, <3>2, KeepsMeant DEF RollBack, EndTick, TypeOK
  <2>7. ASSUME NEW s \in Stores, RollBackFails(s) PROVE MeantInv'
    BY <2>7, SameVersionsKept, KeepsMeant DEF RollBackFails, EndTick, TypeOK
  <2>8. CASE ConfigRestarts
    <3>1. ASSUME NEW s \in Stores
          PROVE  ~answer'[s].current /\ ~deployed'[s].current
      BY <2>8 DEF ConfigRestarts, TypeOK, Copy, Nothing
    <3> QED
      BY <3>1 DEF MeantInv, Meant
  <2>9. ASSUME Calm \/ UNCHANGED vars \/ \E s \in Stores : NotPublished(s)
        PROVE  MeantInv'
    BY <2>9, SameVersionsKept, KeepsMeant
       DEF Calm, NotPublished, vars, agentVars
  <2> QED
    BY <2>1, <2>2, <2>3, <2>4, <2>5, <2>6, <2>7, <2>8, <2>9 DEF Next, AgentStep
<1>3. MeantInv => BlastRadius
  BY DEF MeantInv, Meant, BlastRadius
<1> QED
  BY <1>1, <1>2, <1>3, TypeCorrect, PTL DEF Spec

-----------------------------------------------------------------------------
LEMMA SameInterval ==
  ASSUME NEW m \in Nat, NEW n \in Nat, 1..m = 1..n
  PROVE  m = n
<1>1. ASSUME m < n PROVE FALSE
  <2>1. n \in 1..n /\ n \notin 1..m
    BY <1>1
  <2> QED
    BY <2>1
<1>2. ASSUME n < m PROVE FALSE
  <2>1. m \in 1..m /\ m \notin 1..n
    BY <1>2
  <2> QED
    BY <2>1
<1> QED
  BY <1>1, <1>2

\* The largest element of a set is the only one of its kind.
LEMMA MaxUnique ==
  ASSUME NEW n \in Nat, NEW S \in SUBSET (0..n), NEW x \in S,
         \A y \in S : y <= x
  PROVE  Max(S) = x
<1>1. Max(S) \in S /\ \A y \in S : y <= Max(S)
  BY MaxExists
<1>2. Max(S) <= x /\ x <= Max(S)
  BY <1>1
<1>3. Max(S) \in 0..n /\ x \in 0..n
  BY <1>1
<1> QED
  BY <1>2, <1>3

\* A store on a full version is on the newest good one, and off every canary.
LEMMA ActiveWhenGood ==
  ASSUME versions \in Seq(configVersion), NEW s \in Stores,
         active(s) \in Good
  PROVE  active(s) = Max(Good)
<1>1. /\ Len(versions) \in Nat
      /\ DOMAIN versions = 1..Len(versions)
      /\ Good \in SUBSET (0..Len(versions))
  BY LenProperties DEF Good
<1>2. CASE active(s) = Newest
  <2>1. \A v \in Good : v <= active(s)
    BY <1>1, <1>2 DEF Newest, Good
  <2> QED
    BY <1>1, <2>1, MaxUnique
<1>3. CASE active(s) # Newest
  <2>1. versions # <<>>
    BY EmptySeq DEF Good
  <2> QED
    BY <1>3, <2>1 DEF active
<1> QED
  BY <1>2, <1>3

\* What is served to one of the others after a step that makes no version
\* full and leaves its own version good: that version, or the newest canary.
LEMMA OthersAfterStep ==
  ASSUME versions \in Seq(configVersion), versions' \in Seq(configVersion),
         NEW s \in Stores,
         active(s) \in Good, active(s) \in Good', Good' \subseteq Good,
         active(s)' # active(s)
  PROVE  /\ active(s)' = Newest' /\ versions' # <<>>
         /\ ~versions'[Newest'].rolledBack
         /\ Targeted(s, Newest)' /\ ~IsFull(Newest)'
<1> DEFINE a == active(s)
<1>1. /\ Len(versions') \in Nat /\ Len(versions) \in Nat
      /\ DOMAIN versions' = 1..Len(versions')
      /\ DOMAIN versions = 1..Len(versions)
  BY LenProperties
<1>2. Good' \in SUBSET (0..Len(versions')) /\ Good \in SUBSET (0..Len(versions))
  BY <1>1 DEF Good
<1>3. \A y \in Good : y <= a
  <2>1. a = Max(Good)
    BY ActiveWhenGood
  <2> QED
    BY <1>1, <1>2, <2>1, MaxExists
<1>4. Max(Good') = a
  BY <1>1, <1>2, <1>3, MaxUnique
<1>5. versions' # <<>> /\ Good' # {}
  BY <1>1 DEF Good
<1>6. /\ active(s)' = Newest'
      /\ ~versions'[Newest'].rolledBack /\ Targeted(s, Newest)'
  BY <1>4, <1>5 DEF active
<1>7. ~IsFull(Newest)'
  <2> SUFFICES ASSUME IsFull(Newest)' PROVE FALSE
    OBVIOUS
  <2>1. Newest' \in DOMAIN versions' /\ a \in 1..Newest'
    BY <1>1 DEF Newest, Good
  <2>2. Newest' \in Good'
    BY <1>6, <2>1 DEF Good, IsFull
  <2>3. Newest' <= a
    BY <1>3, <2>2
  <2>4. Newest' = a
    BY <1>1, <2>1, <2>3 DEF Newest
  <2> QED
    BY <1>6, <2>4
<1> QED
  BY <1>5, <1>6, <1>7

\* A canary is published and taken back without the other stores noticing.
THEOREM OthersStay == Spec => OthersUndisturbed
<1>1. TypeOK /\ TypeOK' /\ [Next]_vars
        => [\A s \in Stores : OthersStayOn(s)]_vars
  <2> SUFFICES ASSUME TypeOK, TypeOK', Next, NEW s \in Stores,
                      active(s) \in Good, active(s)' # active(s),
                      Good' \subseteq Good, active(s) \in Good'
               PROVE  /\ Newest' > Newest
                      /\ inCanaryBucket(s, versions'[Newest'].pct)
    BY DEF OthersStayOn
  <2>1. versions \in Seq(configVersion) /\ versions' \in Seq(configVersion)
    BY DEF TypeOK
  <2>2. /\ active(s)' = Newest' /\ versions' # <<>>
        /\ ~versions'[Newest'].rolledBack
        /\ Targeted(s, Newest)' /\ ~IsFull(Newest)'
    BY <2>1, OthersAfterStep
  <2>3. inCanaryBucket(s, versions'[Newest'].pct)
    BY <2>2 DEF Targeted
  <2>4. /\ Len(versions) \in Nat
        /\ DOMAIN versions = 1..Len(versions)
        /\ DOMAIN versions' = 1..Len(versions')
    BY <2>1, LenProperties
  <2>5. ASSUME NEW p \in Pcts, publish(p) PROVE Newest' > Newest
    <3>1. [pct |-> p, rolledBack |-> FALSE] \in configVersion
      BY ConfigAssumption DEF configVersion
    <3>2. Len(versions') = Len(versions) + 1
      BY <2>1, <2>5, <3>1, AppendProperties DEF publish
    <3> QED
      BY <2>4, <3>2 DEF Newest
  <2>6. ASSUME NEW v \in DOMAIN versions, promote(v) PROVE FALSE
    <3>1. DOMAIN versions' = DOMAIN versions
      BY <2>6 DEF promote
    <3>2. Newest' = Newest /\ Newest \in DOMAIN versions
      <4>1. Len(versions') = Len(versions)
        BY <2>1, <2>4, <3>1, LenProperties, SameInterval
      <4>2. Len(versions) > 0
        BY <2>4 DEF Good
      <4> QED
        BY <2>4, <4>1, <4>2 DEF Newest
    <3>3. versions'[Newest] \in
            {versions[Newest], [pct |-> 100, rolledBack |-> FALSE]}
      BY <2>6, <3>2 DEF promote
    <3>4. versions'[Newest] = versions[Newest]
      BY <2>2, <3>2, <3>3 DEF IsFull
    <3>5. ~versions[Newest].rolledBack /\ Targeted(s, Newest)
      BY <2>2, <3>2, <3>4 DEF Targeted, IsFull
    <3>6. active(s) = Newest
      BY <3>2, <3>5 DEF active
    <3> QED
      BY <2>2, <3>2, <3>6
  <2>7. ASSUME NEW v \in Nat, rollback(v) PROVE FALSE
    <3>1. DOMAIN versions' = DOMAIN versions
      BY <2>7 DEF rollback
    <3>2. Newest' = Newest /\ Newest \in DOMAIN versions
      <4>1. Len(versions') = Len(versions)
        BY <2>1, <2>4, <3>1, LenProperties, SameInterval
      <4>2. Len(versions) > 0
        BY <2>4 DEF Good
      <4> QED
        BY <2>4, <4>1, <4>2 DEF Newest
    <3>3. versions[Newest] \in configVersion
      BY <2>1, <2>4, <3>2, ElementOfSeq
    <3>4. versions'[Newest] = versions[Newest]
      BY <2>2, <2>7, <3>2, <3>3 DEF rollback, configVersion
    <3>5. ~versions[Newest].rolledBack /\ Targeted(s, Newest)
      BY <2>2, <3>2, <3>4 DEF Targeted, IsFull
    <3>6. active(s) = Newest
      BY <3>2, <3>5 DEF active
    <3> QED
      BY <2>2, <3>2, <3>6
  <2>8. CASE Operate
    <3>1. \A v \in DOMAIN versions : v \in Nat
      BY <2>4
    <3> QED
      BY <2>3, <2>5, <2>6, <2>7, <2>8, <3>1 DEF Operate
  <2>9. ASSUME NEW t \in Stores, RollBack(t) PROVE FALSE
    <3>1. answer[t].version \in Nat
      BY DEF TypeOK, Copy
    <3> QED
      BY <2>7, <2>9, <3>1 DEF RollBack
  <2>10. CASE ConfigRestarts
    BY <2>2, <2>10 DEF ConfigRestarts
  <2>11. ASSUME UNCHANGED versions PROVE FALSE
    BY <2>11 DEF active, Newest, Targeted, IsFull, Good
  <2>12. ASSUME NEW t \in Stores,
                AgentStep(t) \/ AgentRestarts(t), ~RollBack(t)
         PROVE  FALSE
    BY <2>11, <2>12 DEF AgentStep, NotPublished, Poll, Encode, GetFails,
       Deploy, RollBackFails, AgentRestarts, vars
  <2>13. CASE Calm
    BY <2>11, <2>13 DEF Calm
  <2> QED
    BY <2>8, <2>9, <2>10, <2>12, <2>13 DEF Next
<1> QED
  BY <1>1, TypeCorrect, PTL DEF Spec, OthersUndisturbed
=============================================================================
