-------------------------- MODULE KeyRotationProofs --------------------------
(***************************************************************************)
(* Facts about the key operators of module KeyRotation, for every set of   *)
(* keys and every environment.                                             *)
(***************************************************************************)
EXTENDS KeyRotation, TLAPS

\* Every position of the search order names a key variable.
LEMMA OrderInSlots == \A i \in 1..7 : envKeys[i] \in Slots
<1>1. SUFFICES ASSUME NEW i \in 1..7 PROVE envKeys[i] \in Slots
  OBVIOUS
<1>2. i = 1 \/ i = 2 \/ i = 3 \/ i = 4 \/ i = 5 \/ i = 6 \/ i = 7
  OBVIOUS
<1>3. QED
  BY <1>2 DEF envKeys, Slots

\* The first alternative is one of the alternatives, and no earlier one exists.
LEMMA FirstAlternativeIsFirst ==
  ASSUME NEW e, rotated(e)
  PROVE  \E i \in Alternatives(e) :
           /\ FirstAlternative(e) = envKeys[i]
           /\ \A j \in Alternatives(e) : i <= j
<1>1. \E i \in Alternatives(e) : \A j \in Alternatives(e) : i <= j
  <2> DEFINE A(k) == k \in Alternatives(e)
  <2>1. \A i \in Alternatives(e) : i \in 1..7
    BY DEF Alternatives
  <2>2. \/ A(1) \/ A(2) \/ A(3) \/ A(4) \/ A(5) \/ A(6) \/ A(7)
    <3>1. PICK i \in Alternatives(e) : TRUE
      BY DEF rotated
    <3>2. i = 1 \/ i = 2 \/ i = 3 \/ i = 4 \/ i = 5 \/ i = 6 \/ i = 7
      BY <2>1
    <3>3. QED
      BY <3>2
  <2>3. QED
    BY <2>1, <2>2
<1>2. QED
  BY <1>1 DEF FirstAlternative

\* rotateApiKey leaves an environment.
LEMMA RotateType ==
  ASSUME NEW e \in Environments
  PROVE  rotateApiKey(e) \in Environments
<1>1. CASE ~rotated(e)
  BY <1>1 DEF rotateApiKey
<1>2. CASE rotated(e)
  <2>1. PICK i \in Alternatives(e) : FirstAlternative(e) = envKeys[i]
    BY <1>2, FirstAlternativeIsFirst
  <2>2. i \in 1..7
    BY <2>1 DEF Alternatives
  <2>3. FirstAlternative(e) \in Slots
    BY <2>1, <2>2, OrderInSlots
  <2>4. e[FirstAlternative(e)] \in Keys \cup {NoKey}
    BY <2>3 DEF Environments
  <2>5. QED
    BY <1>2, <2>4 DEF rotateApiKey, Environments
<1>3. QED
  BY <1>1, <1>2

\* reloadEnv leaves an environment.
LEMMA ReloadType ==
  ASSUME NEW e \in Environments, NEW file \in Environments
  PROVE  reloadEnv(e, file) \in Environments
BY DEF reloadEnv, Environments

-----------------------------------------------------------------------------
(* The key of a request *)

\* The first variable of a provider is its primary, and no other one is a primary.
LEMMA ProviderVariables ==
  ASSUME NEW p \in Providers
  PROVE  /\ DOMAIN Variables(p) \subseteq 1..3
         /\ 1 \in DOMAIN Variables(p)
         /\ Variables(p)[1] = p
         /\ \A i \in DOMAIN Variables(p) :
              Variables(p)[i] \in Slots /\ (Variables(p)[i] = p \/ Variables(p)[i] \notin Providers)
<1>1. CASE p = "OPENROUTER"
  BY <1>1 DEF Variables, Slots, Providers
<1>2. CASE p = "OPENAI"
  BY <1>2 DEF Variables, Slots, Providers
<1>3. CASE p = "ANTHROPIC"
  BY <1>3 DEF Variables, Slots, Providers
<1>4. QED
  BY <1>1, <1>2, <1>3 DEF Providers

\* The first filled variable exists.
LEMMA FirstFilled ==
  ASSUME NEW p \in Providers, NEW e, FilledIn(p, e) # {}
  PROVE  \E i \in FilledIn(p, e) : \A j \in FilledIn(p, e) : i <= j
<1> DEFINE F == FilledIn(p, e)
<1>1. F \subseteq 1..3
  BY ProviderVariables DEF FilledIn
<1>2. PICK i \in F : TRUE
  OBVIOUS
<1>3. 1 \in F \/ 2 \in F \/ 3 \in F
  BY <1>1, <1>2
<1> HIDE DEF F
<1>4. \E k \in F : \A j \in F : k <= j
  BY <1>1, <1>3
<1>5. QED
  BY <1>4 DEF F

LEMMA ResolveType ==
  ASSUME NEW p \in Providers, NEW e \in Environments
  PROVE  resolveEnvKeys(p, e) \in Keys \cup {NoKey}
<1>1. CASE FilledIn(p, e) = {}
  BY <1>1 DEF resolveEnvKeys
<1>2. CASE FilledIn(p, e) # {}
  <2>1. PICK i \in FilledIn(p, e) : resolveEnvKeys(p, e) = e[Variables(p)[i]]
    BY <1>2, FirstFilled DEF resolveEnvKeys
  <2>2. Variables(p)[i] \in Slots
    BY ProviderVariables DEF FilledIn
  <2>3. QED
    BY <2>1, <2>2 DEF Environments
<1>3. QED
  BY <1>1, <1>2

\* A filled primary is the key that is used.
LEMMA ResolvePrimary ==
  ASSUME NEW p \in Providers, NEW e, Filled(e[p])
  PROVE  resolveEnvKeys(p, e) = e[p]
<1> DEFINE First(i) == \A j \in FilledIn(p, e) : i <= j
<1>1. 1 \in FilledIn(p, e)
  BY ProviderVariables DEF FilledIn
<1>2. PICK i \in FilledIn(p, e) : First(i) /\ resolveEnvKeys(p, e) = e[Variables(p)[i]]
  BY <1>1, FirstFilled DEF resolveEnvKeys
<1>3. i = 1
  <2>1. i \in 1..3
    BY ProviderVariables DEF FilledIn
  <2>2. i <= 1
    BY <1>1, <1>2
  <2>3. QED
    BY <2>1, <2>2
<1>4. QED
  BY <1>2, <1>3, ProviderVariables

-----------------------------------------------------------------------------
(* Healing *)

\* Every variable is as in b, or a primary that holds a usable key.
KeptOrHealed(b, e) ==
  \A s \in Slots : e[s] = b[s] \/ (s \in Providers /\ e[s] \in UsableKeys)

\* Then a provider that has a usable key in b has one in e.
THEOREM KeptUsable ==
  ASSUME NEW b, NEW e, KeptOrHealed(b, e), NEW p \in Providers,
         resolveEnvKeys(p, b) \in UsableKeys
  PROVE  resolveEnvKeys(p, e) \in UsableKeys
<1>1. p \in Slots
  BY DEF Providers, Slots
<1>2. CASE e[p] \in UsableKeys
  <2>1. Filled(e[p])
    BY <1>2, KeyAssumption DEF Filled
  <2>2. QED
    BY <1>2, <2>1, ResolvePrimary
<1>3. CASE e[p] = b[p]
  <2>1. \A i \in DOMAIN Variables(p) : e[Variables(p)[i]] = b[Variables(p)[i]]
    BY <1>3, ProviderVariables DEF KeptOrHealed
  <2>2. FilledIn(p, e) = FilledIn(p, b)
    BY <2>1 DEF FilledIn
  <2>3. FilledIn(p, b) # {}
    BY KeyAssumption DEF resolveEnvKeys
  <2>4. PICK i \in FilledIn(p, b) : /\ resolveEnvKeys(p, b) = b[Variables(p)[i]]
                                    /\ resolveEnvKeys(p, e) = e[Variables(p)[i]]
    BY <2>2, <2>3, FirstFilled DEF resolveEnvKeys
  <2>5. i \in DOMAIN Variables(p)
    BY DEF FilledIn
  <2>6. QED
    BY <2>1, <2>4, <2>5
<1>4. QED
  BY <1>1, <1>2, <1>3 DEF KeptOrHealed

\* Rotation writes usable keys only, and to primaries only.
LEMMA RotateKeeps ==
  ASSUME NEW b, NEW e \in Environments, KeptOrHealed(b, e)
  PROVE  KeptOrHealed(b, rotateApiKey(e))
<1>1. CASE ~rotated(e)
  BY <1>1 DEF rotateApiKey
<1>2. CASE rotated(e)
  <2>1. PICK i \in Alternatives(e) : FirstAlternative(e) = envKeys[i]
    BY <1>2, FirstAlternativeIsFirst
  <2>2. e[FirstAlternative(e)] \in UsableKeys
    BY <2>1 DEF Alternatives
  <2>3. PrimaryOf(FirstAlternative(e)) \in Providers
    BY DEF PrimaryOf, Providers
  <2>4. QED
    BY <1>2, <2>2, <2>3 DEF rotateApiKey, KeptOrHealed, Environments
<1>3. QED
  BY <1>1, <1>2

\* Loading the file brings back what boot loaded from it.
LEMMA ReloadKeeps ==
  ASSUME NEW shell, NEW file, NEW e, KeptOrHealed(reloadEnv(shell, file), e)
  PROVE  KeptOrHealed(reloadEnv(shell, file), reloadEnv(e, file))
BY DEF reloadEnv, KeptOrHealed

\* A file that is loaded twice changes nothing the second time.
LEMMA ReloadTwice ==
  ASSUME NEW e, NEW file
  PROVE  reloadEnv(reloadEnv(e, file), file) = reloadEnv(e, file)
BY DEF reloadEnv
=============================================================================
