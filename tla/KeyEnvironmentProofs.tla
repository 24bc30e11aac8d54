------------------------ MODULE KeyEnvironmentProofs -------------------------
(***************************************************************************)
(* For any keys, any start-up and any mix of requests, healing, set-up     *)
(* pages, key tests and fallbacks: the settings keep their form, a         *)
(* rotation among the keys of the shell does what it reports, and what was *)
(* saved, tested or fallen back to is treated as such. TestsInv knows      *)
(* where the key of a running test can be: in the primary variable of its  *)
(* provider, out of which no rotation copies it, and nowhere else.         *)
(***************************************************************************)
EXTENDS KeyEnvironment, KeyRotationProofs

-----------------------------------------------------------------------------
(* The key of a request *)

LEMMA KeyOfType ==
  ASSUME NEW e \in Settings, runtime \in [Providers -> Keys \cup {NoKey}]
  PROVE  KeyOf(e) \in Keys \cup {NoKey} /\ ProviderOf(e) \in Providers
<1>1. ProviderOf(e) \in Providers /\ e.keys \in Environments
  BY DEF ProviderOf, Settings, Providers
<1>2. runtime[ProviderOf(e)] \in Keys \cup {NoKey}
  BY <1>1
<1>3. resolveEnvKeys(ProviderOf(e), e.keys) \in Keys \cup {NoKey}
  BY <1>1, ResolveType
<1>4. QED
  BY <1>1, <1>2, <1>3 DEF KeyOf, resolveApiKey

LEMMA ReloadedType ==
  ASSUME NEW e \in Settings, NEW f \in Settings
  PROVE  Reloaded(e, f) \in Settings
<1>1. e.keys \in Environments /\ f.keys \in Environments
  BY DEF Settings
<1>2. reloadEnv(e.keys, f.keys) \in Environments
  BY <1>1, ReloadType
<1>3. QED
  BY <1>2 DEF Reloaded, Settings

LEMMA SetKeyType ==
  ASSUME NEW e \in Environments, NEW p, NEW k \in Keys \cup {NoKey}
  PROVE  [e EXCEPT ![p] = k] \in Environments
BY DEF Environments

-----------------------------------------------------------------------------
(* Type correctness *)

\* A request after the environment became e.
LEMMA AskType ==
  ASSUME KeyTypeOK, NEW e \in Settings, Ask(e)
  PROVE  env' \in Settings /\ used' \in Keys \cup {NoKey} /\ asked' \subseteq Providers
<1>1. runtime \in [Providers -> Keys \cup {NoKey}]
  BY KeyEnvironmentAssumption, KeyAssumption DEF KeyTypeOK
<1>2. Reloaded(e, file) \in Settings
  BY ReloadedType DEF KeyTypeOK
<1>3. QED
  BY <1>1, <1>2, KeyOfType DEF Ask, KeyTypeOK

LEMMA RotatedSettings ==
  ASSUME NEW e \in Settings
  PROVE  [e EXCEPT !.keys = rotateApiKey(@)] \in Settings
<1>1. rotateApiKey(e.keys) \in Environments
  BY RotateType DEF Settings
<1>2. QED
  BY <1>1 DEF Settings

\* Every environment, file, override and remembered value stays what its
\* variable may hold, whoever writes it: healing, set-up pages, key tests and
\* the fallback (config-store.ts, provider.ts, orchestrator.ts, api.ts).
THEOREM KeysTyped == KeySpec => []KeyTypeOK
<1>1. KeyInit => KeyTypeOK
  <2> SUFFICES ASSUME KeyInit PROVE KeyTypeOK
    OBVIOUS
  <2>1. PICK s \in Starts : file = s[1] /\ env = Reloaded(s[2], s[1])
    BY DEF KeyInit
  <2>2. s[1] \in Settings /\ s[2] \in Settings
    BY KeyEnvironmentAssumption
  <2>3. env \in Settings
    BY <2>1, <2>2, ReloadedType
  <2>4. NoTest \in TestStates
    BY DEF NoTest, TestStates, Models
  <2>5. test \in [Tests -> TestStates]
    BY <2>4 DEF KeyInit
  <2>6. saves \in 0..MaxSaves
    BY KeyEnvironmentAssumption DEF KeyInit
  <2>7. file \in Settings
    BY <2>1, <2>2
  <2>8. runtime \in [Providers -> SavedKeys \cup {NoKey}]
    BY DEF KeyInit
  <2>9. QED
    BY <2>3, <2>5, <2>6, <2>7, <2>8 DEF KeyInit, KeyTypeOK
<1>2. KeyTypeOK /\ [KeyNext]_keyVars => KeyTypeOK'
  <2> SUFFICES ASSUME KeyTypeOK, [KeyNext]_keyVars PROVE KeyTypeOK'
    OBVIOUS
  <2>1. /\ TestKeys \subseteq Keys /\ SavedKeys \subseteq Keys
        /\ \A e : Reported(e) \in Keys \cup {NoKey}
    BY KeyEnvironmentAssumption, KeyAssumption DEF Reported, KeyTypeOK
  <2>2. CASE Request
    <3>1. env' \in Settings /\ used' \in Keys \cup {NoKey} /\ asked' \subseteq Providers
      BY <2>2, AskType DEF Request, KeyTypeOK
    <3>2. QED
      BY <2>2, <3>1 DEF Request, NoHealing, KeyTypeOK
  <2>3. CASE HealRateLimit
    <3>1. [env EXCEPT !.keys = rotateApiKey(@)] \in Settings
      BY RotatedSettings DEF KeyTypeOK
    <3>2. env' \in Settings /\ used' \in Keys \cup {NoKey} /\ asked' \subseteq Providers
      BY <2>3, <3>1, AskType DEF HealRateLimit
    <3>3. QED
      BY <2>1, <2>3, <3>2 DEF HealRateLimit, KeyTypeOK
  <2>4. CASE HealAuth
    <3>1. [Reloaded(env, file) EXCEPT !.keys = rotateApiKey(@)] \in Settings
      BY RotatedSettings, ReloadedType DEF KeyTypeOK
    <3>2. env' \in Settings /\ used' \in Keys \cup {NoKey} /\ asked' \subseteq Providers
      BY <2>4, <3>1, AskType DEF HealAuth
    <3>3. QED
      BY <2>1, <2>4, <3>2 DEF HealAuth, KeyTypeOK
  <2>5. CASE PaymentRequired
    <3>1. env' \in Settings
      BY <2>5 DEF PaymentRequired, KeyTypeOK, Settings, Models
    <3>2. QED
      BY <2>5, <3>1 DEF PaymentRequired, NoHealing, KeyTypeOK
  <2>6. ASSUME NEW p \in Providers, NEW k \in SavedKeys \cup {NoKey},
               NEW m \in {"chosen", NoKey}, Save(p, k, m)
        PROVE  file' \in Settings /\ env' \in Settings /\ saves' \in 0..MaxSaves
    <3>1. file.keys \in Environments /\ [file.keys EXCEPT ![p] = k] \in Environments
      BY <2>1, SetKeyType DEF KeyTypeOK, Settings
    <3>2. file' \in Settings
      BY <2>6, <3>1 DEF Save, Settings, Models, KeyTypeOK
    <3>3. env' \in Settings
      BY <2>6, <3>2, ReloadedType DEF Save, KeyTypeOK
    <3>4. QED
      BY <2>6, <3>2, <3>3, KeyEnvironmentAssumption DEF Save, KeyTypeOK
  <2>7. ASSUME NEW p \in Providers, NEW k \in SavedKeys \cup {NoKey}, UpdateKey(p, k)
        PROVE  KeyTypeOK'
    <3>1. file' \in Settings /\ env' \in Settings /\ saves' \in 0..MaxSaves
      BY <2>6, <2>7 DEF UpdateKey
    <3>2. QED
      BY <2>7, <3>1 DEF UpdateKey, Save, NoHealing, KeyTypeOK
  <2>8. ASSUME NEW p \in Providers, NEW k \in SavedKeys \cup {NoKey}, Setup(p, k)
        PROVE  KeyTypeOK'
    <3>1. file' \in Settings /\ env' \in Settings /\ saves' \in 0..MaxSaves
      BY <2>6, <2>8 DEF Setup
    <3>2. QED
      BY <2>8, <3>1 DEF Setup, Save, NoHealing, KeyTypeOK
  <2>9. ASSUME NEW t \in Tests, NEW p \in Providers, NEW k \in TestKeys,
               NEW m \in {"tested", NoKey}, TestBegins(t, p, k, m)
        PROVE  KeyTypeOK'
    <3>1. env.keys \in Environments /\ [env.keys EXCEPT ![p] = k] \in Environments
      BY <2>1, SetKeyType DEF KeyTypeOK, Settings
    <3>2. env' \in Settings
      BY <2>9, <3>1 DEF TestBegins, KeyTypeOK, Settings, Models
    <3>3. env.keys[p] \in Keys \cup {NoKey}
      BY <3>1 DEF Environments, Providers, Slots
    <3>4. test' \in [Tests -> TestStates]
      <4>1. [NoTest EXCEPT !.at = "importing", !.provider = p, !.key = k,
                           !.oldKey = env.keys[p], !.oldProvider = env.provider,
                           !.oldModel = env.model] \in TestStates
        BY <2>1, <3>3 DEF NoTest, TestStates, KeyTypeOK, Settings, Models
      <4>2. QED
        BY <2>9, <4>1 DEF TestBegins, KeyTypeOK
    <3>5. QED
      BY <2>9, <3>2, <3>4 DEF TestBegins, NoHealing, KeyTypeOK
  <2>10. ASSUME NEW t \in Tests, TestAsks(t) PROVE KeyTypeOK'
    <3>1. env' \in Settings /\ used' \in Keys \cup {NoKey} /\ asked' \subseteq Providers
      BY <2>10, AskType DEF TestAsks, KeyTypeOK
    <3>2. [test[t] EXCEPT !.at = "asking", !.asked = used'] \in TestStates
      BY <3>1 DEF TestStates, KeyTypeOK
    <3>3. test' = [test EXCEPT ![t] = [test[t] EXCEPT !.at = "asking", !.asked = used']]
      BY <2>10 DEF TestAsks, KeyTypeOK
    <3>4. QED
      BY <2>10, <3>1, <3>2, <3>3 DEF TestAsks, NoHealing, KeyTypeOK
  <2>11. ASSUME NEW t \in Tests, TestAnswered(t) PROVE KeyTypeOK'
    <3>1. test[t] \in TestStates
      BY DEF KeyTypeOK
    <3>2. /\ env.keys \in Environments
          /\ [env.keys EXCEPT ![test[t].provider] = test[t].oldKey] \in Environments
      BY <3>1, SetKeyType DEF KeyTypeOK, Settings, TestStates
    <3>3. env' \in Settings
      BY <2>11, <3>1, <3>2 DEF TestAnswered, KeyTypeOK, Settings, Models, TestStates
    <3>4. [NoTest EXCEPT !.at = "over"] \in TestStates
      BY DEF NoTest, TestStates, Models
    <3>5. QED
      BY <2>11, <3>3, <3>4 DEF TestAnswered, NoHealing, KeyTypeOK
  <2>12. ASSUME NEW t \in Tests, TestFailed(t) PROVE KeyTypeOK'
    <3>1. [NoTest EXCEPT !.at = "over"] \in TestStates
      BY DEF NoTest, TestStates, Models
    <3>2. QED
      BY <2>12, <3>1 DEF TestFailed, NoHealing, KeyTypeOK
  <2>13. CASE UNCHANGED keyVars
    BY <2>13 DEF keyVars, KeyTypeOK
  <2>14. QED
    BY <2>2, <2>3, <2>4, <2>5, <2>7, <2>8, <2>9, <2>10, <2>11, <2>12, <2>13 DEF KeyNext
<1>3. QED
  BY <1>1, <1>2, PTL DEF KeySpec

-----------------------------------------------------------------------------
(* Rotation among the keys of the shell *)

\* The family of a provider's variables is that of its primary.
LEMMA FamilyOfProvider ==
  ASSUME NEW F \in Families, NEW p \in Providers, p \in F, NEW s \in F
  PROVE  PrimaryOf(s) = p
BY DEF Families, Providers, PrimaryOf

\* With the keys of one provider, the filled primary is what rotateApiKey takes
\* for the active key.
LEMMA ActiveIsPrimary ==
  ASSUME NEW e \in Environments, NEW p \in Providers, SingleFamily(e), Filled(e[p])
  PROVE  activeKey(e) = e[p]
<1>1. PICK F \in Families : \A s \in Slots \ F : e[s] = NoKey
  BY DEF SingleFamily
<1>2. p \in F
  BY <1>1 DEF Filled, Providers, Slots
<1>3. QED
  BY <1>1, <1>2 DEF Families, Providers, Slots, activeKey, Filled

\* Where the keys that a rotation leaves are of one provider, it changed the
\* primary of that provider to another key, and a usable one.
LEMMA RotationInFamily ==
  ASSUME NEW e \in Environments, NEW p \in Providers, Filled(e[p]), rotated(e),
         SingleFamily(rotateApiKey(e))
  PROVE  rotateApiKey(e)[p] \in UsableKeys /\ rotateApiKey(e)[p] # e[p]
<1> DEFINE a == FirstAlternative(e)
           g == rotateApiKey(e)
<1>1. a \in Slots /\ e[a] \in UsableKeys /\ e[a] # activeKey(e)
  <2>1. PICK i \in Alternatives(e) : a = envKeys[i]
    BY FirstAlternativeIsFirst
  <2>2. QED
    BY <2>1, OrderInSlots DEF Alternatives
<1>2. PrimaryOf(a) \in Slots /\ g = [e EXCEPT ![PrimaryOf(a)] = e[a]]
  BY DEF rotateApiKey, PrimaryOf, Slots
<1>3. e[a] # NoKey /\ e[p] # NoKey
  BY <1>1, KeyAssumption DEF Filled
<1>4. p \in Slots
  BY DEF Providers, Slots
<1>5. g[PrimaryOf(a)] = e[a] /\ \A s \in Slots : s # PrimaryOf(a) => g[s] = e[s]
  BY <1>2 DEF Environments
<1> HIDE DEF a, g
<1>6. PICK F \in Families : \A s \in Slots \ F : g[s] = NoKey
  BY DEF SingleFamily, g
<1>7. PrimaryOf(a) \in F /\ p \in F
  BY <1>2, <1>3, <1>4, <1>5, <1>6
<1>8. \A s \in Slots \ F : e[s] = NoKey
  BY <1>5, <1>6, <1>7
<1>9. PrimaryOf(a) = p
  <2>1. PrimaryOf(a) \in {"OPENROUTER", "OPENAI", "ANTHROPIC"}
    BY DEF PrimaryOf
  <2>2. QED
    BY <2>1, <1>7 DEF Families, Providers
<1>10. activeKey(e) = e[p]
  BY <1>8, ActiveIsPrimary DEF SingleFamily
<1>11. QED
  BY <1>1, <1>5, <1>9, <1>10 DEF g

\* As long as nobody but the healing touched the settings, requests use the
\* environment as it is.
ShellInv ==
  Untouched =>
    /\ runtime = [p \in Providers |-> NoKey]
    /\ file.provider = NoKey \/ env.provider = file.provider
    /\ used = NoKey \/ used = resolveEnvKeys(ProviderOf(env), env.keys)

LEMMA ReloadNothing ==
  ASSUME NEW e \in Environments
  PROVE  reloadEnv(e, NoSettings.keys) = e
BY DEF reloadEnv, NoSettings, Environments

\* A request in those circumstances, after the environment became e.
LEMMA AskUntouched ==
  ASSUME KeyTypeOK, ShellInv, Untouched, NEW e \in Settings, e.provider = env.provider, Ask(e)
  PROVE  /\ env'.keys = e.keys
         /\ env'.provider = env.provider
         /\ used' = resolveEnvKeys(ProviderOf(env), e.keys)
<1>1. Reloaded(e, file).keys = e.keys
  BY ReloadNothing DEF Reloaded, Untouched, Settings
<1>2. Reloaded(e, file).provider = env.provider
  BY DEF Reloaded, ShellInv
<1>3. ProviderOf(Reloaded(e, file)) = ProviderOf(env)
  BY <1>2 DEF ProviderOf
<1>4. ProviderOf(env) \in Providers
  BY DEF ProviderOf, KeyTypeOK, Settings, Providers
<1>5. ~Filled(runtime[ProviderOf(env)])
  BY <1>4 DEF ShellInv, Filled
<1>6. KeyOf(Reloaded(e, file)) = resolveEnvKeys(ProviderOf(env), e.keys)
  BY <1>1, <1>3, <1>5 DEF KeyOf, resolveApiKey
<1>7. QED
  BY <1>1, <1>2, <1>6 DEF Ask

\* A healing in those circumstances.
LEMMA HealUntouched ==
  ASSUME KeyTypeOK, ShellInv, Untouched, refused' = Reported(env.keys),
         NEW e \in Settings, e.provider = env.provider,
         e.keys = rotateApiKey(env.keys), Ask(e)
  PROVE  RotationActivates'
<1> DEFINE p == ProviderOf(env)
<1>1. SUFFICES ASSUME refused' # NoKey, SingleFamily(env'.keys)
      PROVE used' # refused' /\ used' \in UsableKeys
  BY DEF RotationActivates
<1>2. env.keys \in Environments /\ p \in Providers
  BY DEF ProviderOf, KeyTypeOK, Settings, Providers
<1>3. env'.keys = rotateApiKey(env.keys) /\ used' = resolveEnvKeys(p, rotateApiKey(env.keys))
  BY AskUntouched
<1>4. rotated(env.keys) /\ Filled(env.keys[p]) /\ refused' = used
  BY <1>1 DEF Reported
<1>5. refused' = env.keys[p]
  BY <1>1, <1>2, <1>4, ResolvePrimary DEF ShellInv
<1>6. rotateApiKey(env.keys)[p] \in UsableKeys /\ rotateApiKey(env.keys)[p] # env.keys[p]
  BY <1>1, <1>2, <1>3, <1>4, RotationInFamily
<1>7. Filled(rotateApiKey(env.keys)[p])
  BY <1>6, KeyAssumption DEF Filled
<1>8. used' = rotateApiKey(env.keys)[p]
  BY <1>2, <1>3, <1>7, ResolvePrimary
<1>9. QED
  BY <1>5, <1>6, <1>8

\* Keys that come from the shell: a reported rotation away from a filled primary
\* is one to another, usable, key, in the request that follows
\* (orchestrator.ts:112-135, provider.ts:60).
THEOREM ShellRotates == KeySpec => []RotationActivates
<1>1. KeyInit => ShellInv /\ RotationActivates
  <2> SUFFICES ASSUME KeyInit PROVE ShellInv /\ RotationActivates
    OBVIOUS
  <2>1. PICK s \in Starts : file = s[1] /\ env = Reloaded(s[2], s[1])
    BY DEF KeyInit
  <2>2. file.provider = NoKey \/ env.provider = file.provider
    BY <2>1 DEF Reloaded
  <2>3. QED
    BY <2>2 DEF KeyInit, ShellInv, RotationActivates
<1>2. KeyTypeOK /\ ShellInv /\ RotationActivates /\ [KeyNext]_keyVars
        => ShellInv' /\ RotationActivates'
  <2> SUFFICES ASSUME KeyTypeOK, ShellInv, RotationActivates, [KeyNext]_keyVars
               PROVE  ShellInv' /\ RotationActivates'
    OBVIOUS
  <2>1. CASE Untouched'
    <3>1. CASE UNCHANGED keyVars
      BY <3>1 DEF keyVars, ShellInv, RotationActivates, Untouched, ProviderOf
    <3>2. CASE Request
      <4>1. Untouched /\ env \in Settings
        BY <2>1, <3>2 DEF Request, Untouched, KeyTypeOK
      <4>2. /\ env'.keys = env.keys
            /\ env'.provider = env.provider
            /\ used' = resolveEnvKeys(ProviderOf(env), env.keys)
        BY <3>2, <4>1, AskUntouched DEF Request
      <4>3. QED
        BY <3>2, <4>1, <4>2 DEF Request, NoHealing, ShellInv, RotationActivates, ProviderOf
    <3>3. CASE HealRateLimit
      <4> DEFINE e == [env EXCEPT !.keys = rotateApiKey(@)]
      <4>1. Untouched
        BY <2>1, <3>3 DEF HealRateLimit, Untouched
      <4>2. /\ e \in Settings /\ e.provider = env.provider
            /\ e.keys = rotateApiKey(env.keys)
        BY RotatedSettings DEF KeyTypeOK, Settings
      <4>3. Ask(e) /\ refused' = Reported(env.keys) /\ runtime' = runtime /\ file' = file
        BY <3>3 DEF HealRateLimit
      <4> HIDE DEF e
      <4>4. /\ env'.keys = e.keys /\ env'.provider = env.provider
            /\ used' = resolveEnvKeys(ProviderOf(env), e.keys)
        BY <4>1, <4>2, <4>3, AskUntouched
      <4>5. RotationActivates'
        BY <4>1, <4>2, <4>3, HealUntouched
      <4>6. QED
        BY <4>1, <4>3, <4>4, <4>5 DEF ShellInv, ProviderOf
    <3>4. CASE HealAuth
      <4> DEFINE e == [Reloaded(env, file) EXCEPT !.keys = rotateApiKey(@)]
      <4>1. Untouched
        BY <2>1, <3>4 DEF HealAuth, Untouched
      <4>2. /\ reloadEnv(env.keys, file.keys) = env.keys
            /\ Reloaded(env, file) \in Settings
            /\ Reloaded(env, file).keys = env.keys
            /\ Reloaded(env, file).provider = env.provider
        BY <4>1, ReloadNothing, ReloadedType DEF Reloaded, Untouched, ShellInv, KeyTypeOK, Settings
      <4>3. /\ e \in Settings /\ e.provider = env.provider
            /\ e.keys = rotateApiKey(env.keys)
        BY <4>2, RotatedSettings DEF Settings
      <4>4. Ask(e) /\ refused' = Reported(env.keys) /\ runtime' = runtime /\ file' = file
        BY <3>4, <4>2 DEF HealAuth
      <4> HIDE DEF e
      <4>5. /\ env'.keys = e.keys /\ env'.provider = env.provider
            /\ used' = resolveEnvKeys(ProviderOf(env), e.keys)
        BY <4>1, <4>3, <4>4, AskUntouched
      <4>6. RotationActivates'
        BY <4>1, <4>3, <4>4, HealUntouched
      <4>7. QED
        BY <4>1, <4>4, <4>5, <4>6 DEF ShellInv, ProviderOf
    <3>5. CASE PaymentRequired
      <4>1. Untouched /\ env'.keys = env.keys /\ env'.provider = env.provider
        BY <2>1, <3>5 DEF PaymentRequired, Untouched, KeyTypeOK, Settings
      <4>2. QED
        BY <3>5, <4>1 DEF PaymentRequired, NoHealing, ShellInv, RotationActivates, ProviderOf
    <3>6. ASSUME NEW q \in Providers, NEW k \in SavedKeys \cup {NoKey},
                 UpdateKey(q, k) \/ Setup(q, k)
          PROVE  FALSE
      BY <2>1, <3>6 DEF UpdateKey, Setup, Save, Untouched, KeyTypeOK
    <3>7. ASSUME NEW t \in Tests,
                 \/ \E q \in Providers, k \in TestKeys, m \in {"tested", NoKey} : TestBegins(t, q, k, m)
                 \/ TestAsks(t) \/ TestAnswered(t) \/ TestFailed(t)
          PROVE  FALSE
      <4>1. test \in [Tests -> TestStates]
        BY DEF KeyTypeOK
      <4>2. ASSUME NEW q \in Providers, NEW k \in TestKeys, NEW m \in {"tested", NoKey},
                   TestBegins(t, q, k, m)
            PROVE  test'[t].at = "importing"
        BY <4>1, <4>2 DEF TestBegins, NoTest
      <4>3. CASE TestAsks(t)
        <5>1. test'[t].at = "asking"
          BY <4>1, <4>3 DEF TestAsks, TestStates
        <5>2. QED
          BY <2>1, <5>1 DEF Untouched
      <4>4. CASE TestAnswered(t) \/ TestFailed(t)
        <5>1. test'[t].at = "over"
          BY <4>1, <4>4 DEF TestAnswered, TestFailed, NoTest
        <5>2. QED
          BY <2>1, <5>1 DEF Untouched
      <4>5. QED
        BY <2>1, <3>7, <4>2, <4>3, <4>4 DEF Untouched
    <3>8. QED
      BY <3>1, <3>2, <3>3, <3>4, <3>5, <3>6, <3>7 DEF KeyNext
  <2>2. CASE ~Untouched'
    BY <2>2 DEF ShellInv, RotationActivates
  <2>3. QED
    BY <2>1, <2>2
<1>3. QED
  BY <1>1, <1>2, KeysTyped, PTL DEF KeySpec

-----------------------------------------------------------------------------
(* What was saved, what fell back, what is tested *)

\* The keys that only tests use; at start-up nobody has them, nor a model under test.
TestOnly == TestKeys \ SavedKeys
TestsAreNew ==
  \A s \in Starts :
    /\ \A v \in Slots : s[1].keys[v] \notin TestOnly /\ s[2].keys[v] \notin TestOnly
    /\ s[1].model # "tested" /\ s[2].model # "tested"

\* The page that saved the key made its provider the one of .env.
SavedInv ==
  saved # NoKey => file.provider # NoKey /\ runtime[file.provider] = saved

\* A test that runs since the model is the free one will put that back.
FellBackInv ==
  fellBack /\ ~spoiled /\ file.model = NoKey =>
    env.model \in {"free", "tested"} /\ \A t \in Tests : InTest(t) => test[t].oldModel = "free"

\* No key of a test, except in the variables of S.
CleanBut(S, e) == \A s \in Slots \ S : e[s] \notin TestOnly

\* In .env there is no key of a test; in the environment, in good order, at most the
\* one under test, in the primary variable of its provider, which will be put back,
\* and with the model it is the same.
TestsInv ==
  /\ CleanBut({}, file.keys) /\ file.model # "tested"
  /\ ~spoiled =>
       /\ \A t, u \in Tests : InTest(t) /\ InTest(u) => t = u
       /\ (\A t \in Tests : ~InTest(t)) => CleanBut({}, env.keys) /\ env.model # "tested"
       /\ \A t \in Tests : InTest(t) =>
            /\ test[t].provider \in Providers /\ test[t].oldKey \notin TestOnly
            /\ test[t].oldModel # "tested"
            /\ CleanBut({test[t].provider}, env.keys)

\* A key that resolveEnvKeys finds is one of the environment.
LEMMA ResolveFrom ==
  ASSUME NEW p \in Providers, NEW e
  PROVE  resolveEnvKeys(p, e) = NoKey \/ \E s \in Slots : resolveEnvKeys(p, e) = e[s]
<1>1. CASE FilledIn(p, e) = {}
  BY <1>1 DEF resolveEnvKeys
<1>2. CASE FilledIn(p, e) # {}
  <2>1. PICK i \in FilledIn(p, e) : resolveEnvKeys(p, e) = e[Variables(p)[i]]
    BY <1>2, FirstFilled DEF resolveEnvKeys
  <2>2. Variables(p)[i] \in Slots
    BY <2>1, ProviderVariables DEF FilledIn
  <2>3. QED
    BY <2>1, <2>2
<1>3. QED
  BY <1>1, <1>2

\* A rotation copies a key within a provider: it takes no key of a test out of a
\* primary variable.
LEMMA RotateClean ==
  ASSUME NEW e \in Environments, NEW S \in SUBSET Providers, CleanBut(S, e)
  PROVE  CleanBut(S, rotateApiKey(e))
<1>1. CASE ~rotated(e)
  BY <1>1 DEF rotateApiKey
<1>2. CASE rotated(e)
  <2>1. PICK i \in Alternatives(e) : FirstAlternative(e) = envKeys[i]
    BY <1>2, FirstAlternativeIsFirst
  <2>2. PICK a \in Slots : a = FirstAlternative(e)
    BY <2>1, OrderInSlots DEF Alternatives
  <2>3. rotateApiKey(e) = [e EXCEPT ![PrimaryOf(a)] = e[a]]
    BY <1>2, <2>2 DEF rotateApiKey
  <2>4. \A s \in Slots : rotateApiKey(e)[s] = IF s = PrimaryOf(a) THEN e[a] ELSE e[s]
    BY <2>3 DEF Environments
  <2>5. a \in S => PrimaryOf(a) = a
    BY DEF PrimaryOf, Providers
  <2>6. QED
    BY <2>2, <2>4, <2>5 DEF CleanBut
<1>3. QED
  BY <1>1, <1>2

LEMMA ReloadClean ==
  ASSUME NEW e, NEW f, NEW S, CleanBut(S, e), CleanBut({}, f)
  PROVE  CleanBut(S, reloadEnv(e, f))
BY DEF CleanBut, reloadEnv

\* A step that asks: the environment it leaves is as clean as the one before.
LEMMA AskKept ==
  ASSUME KeyTypeOK, TestsInv, NEW e \in Settings, Ask(e),
         \A S \in SUBSET Providers : CleanBut(S, env.keys) => CleanBut(S, e.keys),
         e.model = env.model \/ e.model = Reloaded(env, file).model
  PROVE  /\ \A S \in SUBSET Providers : CleanBut(S, env.keys) => CleanBut(S, env'.keys)
         /\ file.model = NoKey => env'.model = env.model
        /\ env'.model \in {env.model, file.model}
         /\ env'.model \in {env.model, file.model}
<1>1. /\ env'.keys = reloadEnv(e.keys, file.keys)
      /\ env'.model = IF file.model = NoKey THEN e.model ELSE file.model
  BY DEF Ask, Reloaded
<1>2. \A S \in SUBSET Providers : CleanBut(S, e.keys) => CleanBut(S, env'.keys)
  BY <1>1, ReloadClean DEF TestsInv
<1>3. QED
  BY <1>1, <1>2 DEF Reloaded

\* A step that leaves the tests where they are, and asks or falls back.
LEMMA EnvironmentKept ==
  ASSUME TestsInv, FellBackInv, UNCHANGED <<file, fellBack>>,
         spoiled' \in BOOLEAN, spoiled => spoiled',
         \A t \in Tests : /\ InTest(t)' <=> InTest(t)
                          /\ InTest(t) => /\ test'[t].provider = test[t].provider
                                          /\ test'[t].oldKey = test[t].oldKey
                                          /\ test'[t].oldModel = test[t].oldModel,
         \A S \in SUBSET Providers : CleanBut(S, env.keys) => CleanBut(S, env'.keys),
         file.model = NoKey => env'.model = env.model,
         env'.model \in {env.model, file.model}
  PROVE  TestsInv' /\ FellBackInv'
<1>1. FellBackInv'
  BY DEF FellBackInv
<1>2. \A t \in Tests : InTest(t) /\ ~spoiled =>
        {test[t].provider} \in SUBSET Providers /\ CleanBut({test[t].provider}, env'.keys)
  BY DEF TestsInv
<1>3. (\A t \in Tests : ~InTest(t)) /\ ~spoiled => CleanBut({}, env'.keys)
  BY DEF TestsInv
<1>4. CleanBut({}, file.keys)' /\ (CleanBut({}, env.keys)' <=> CleanBut({}, env'.keys))
      /\ \A p : CleanBut({p}, env.keys)' <=> CleanBut({p}, env'.keys)
  BY DEF TestsInv, CleanBut
<1>5. ASSUME ~spoiled'
      PROVE  /\ \A t, u \in Tests : InTest(t)' /\ InTest(u)' => t = u
             /\ (\A t \in Tests : ~InTest(t)') => CleanBut({}, env.keys)'
  BY <1>3, <1>4, <1>5 DEF TestsInv
<1>6. ASSUME ~spoiled', NEW t \in Tests, InTest(t)'
      PROVE  /\ test'[t].provider \in Providers /\ test'[t].oldKey \notin TestOnly
             /\ CleanBut({test'[t].provider}, env'.keys)
  BY <1>2, <1>6 DEF TestsInv
<1>7. QED
  BY <1>1, <1>4, <1>5, <1>6 DEF TestsInv, CleanBut

LEMMA SavedStep == KeyTypeOK /\ SavedInv /\ [KeyNext]_keyVars => SavedInv'
<1> SUFFICES ASSUME KeyTypeOK, SavedInv, [KeyNext]_keyVars
             PROVE  SavedInv'
  OBVIOUS
<1>1. ASSUME NEW p \in Providers, NEW k \in SavedKeys \cup {NoKey}, UpdateKey(p, k), saved' # NoKey
      PROVE  file'.provider = p /\ runtime'[p] = saved' /\ p # NoKey
  BY <1>1, KeyEnvironmentAssumption DEF UpdateKey, Save, KeyTypeOK
<1>2. ASSUME NEW p \in Providers, NEW k \in SavedKeys \cup {NoKey}, Setup(p, k)
      PROVE  saved' = NoKey
  BY <1>2 DEF Setup
<1>3. CASE UNCHANGED <<file, runtime, saved>>
  BY <1>3 DEF SavedInv
<1>4. QED
  BY <1>1, <1>2, <1>3 DEF SavedInv, KeyNext, keyVars, Request, HealRateLimit, HealAuth,
     PaymentRequired, TestBegins, TestAsks, TestAnswered, TestFailed

\* The other steps.
LEMMA TestsStep ==
  ASSUME KeyTypeOK, TestsInv, FellBackInv, [KeyNext]_keyVars
  PROVE  TestsInv' /\ FellBackInv'
<1>1. env \in Settings /\ file \in Settings /\ env.keys \in Environments /\ spoiled \in BOOLEAN
  BY DEF KeyTypeOK, Settings
<1>2. CASE UNCHANGED keyVars
  BY <1>2 DEF keyVars, TestsInv, FellBackInv, InTest, CleanBut
<1>3. CASE Request
  <2>1. /\ \A S \in SUBSET Providers : CleanBut(S, env.keys) => CleanBut(S, env'.keys)
        /\ file.model = NoKey => env'.model = env.model
        /\ env'.model \in {env.model, file.model}
    BY <1>1, <1>3, AskKept DEF Request
  <2>2. QED
    BY <1>1, <1>3, <2>1, EnvironmentKept DEF Request, InTest
<1>4. CASE HealRateLimit
  <2> DEFINE e == [env EXCEPT !.keys = rotateApiKey(@)]
  <2>1. e \in Settings /\ e.keys = rotateApiKey(env.keys) /\ e.model = env.model
    BY <1>1, RotatedSettings DEF Settings
  <2>2. \A S \in SUBSET Providers : CleanBut(S, env.keys) => CleanBut(S, e.keys)
    BY <1>1, <2>1, RotateClean
  <2>3. Ask(e)
    BY <1>4 DEF HealRateLimit
  <2> HIDE DEF e
  <2>4. /\ \A S \in SUBSET Providers : CleanBut(S, env.keys) => CleanBut(S, env'.keys)
        /\ file.model = NoKey => env'.model = env.model
        /\ env'.model \in {env.model, file.model}
    BY <2>1, <2>2, <2>3, AskKept
  <2>5. QED
    BY <1>1, <1>4, <2>4, EnvironmentKept DEF HealRateLimit, InTest
<1>5. CASE HealAuth
  <2> DEFINE r == Reloaded(env, file)
             e == [r EXCEPT !.keys = rotateApiKey(@)]
  <2>1. r \in Settings /\ r.keys \in Environments /\ r.keys = reloadEnv(env.keys, file.keys)
    BY <1>1, ReloadedType DEF Settings, Reloaded
  <2>2. e \in Settings /\ e.keys = rotateApiKey(r.keys) /\ e.model = r.model
    BY <2>1, RotatedSettings DEF Settings
  <2>3. \A S \in SUBSET Providers : CleanBut(S, env.keys) => CleanBut(S, e.keys)
    BY <2>1, <2>2, RotateClean, ReloadClean DEF TestsInv
  <2>4. Ask(e)
    BY <1>5 DEF HealAuth
  <2> HIDE DEF e
  <2>5. /\ \A S \in SUBSET Providers : CleanBut(S, env.keys) => CleanBut(S, env'.keys)
        /\ file.model = NoKey => env'.model = env.model
        /\ env'.model \in {env.model, file.model}
    BY <2>2, <2>3, <2>4, AskKept
  <2>6. QED
    BY <1>1, <1>5, <2>5, EnvironmentKept DEF HealAuth, InTest
<1>6. CASE PaymentRequired
  <2>1. env'.keys = env.keys /\ env'.model = "free" /\ fellBack'
    BY <1>1, <1>6 DEF PaymentRequired, Settings
  <2>2. ~spoiled' => ~spoiled /\ \A t \in Tests : ~InTest(t)
    BY <1>6 DEF PaymentRequired
  <2>3. \A t \in Tests : InTest(t)' <=> InTest(t)
    BY <1>6 DEF PaymentRequired, InTest
  <2>4. FellBackInv'
    BY <2>1, <2>2, <2>3 DEF FellBackInv
  <2>5. /\ CleanBut({}, file.keys)' /\ (file.model # "tested")'
        /\ ~spoiled' => CleanBut({}, env.keys)' /\ (env.model # "tested")'
    BY <1>6, <2>1, <2>2 DEF PaymentRequired, TestsInv, CleanBut
  <2>6. QED
    BY <2>2, <2>3, <2>4, <2>5 DEF TestsInv
<1>7. ASSUME NEW p \in Providers, NEW k \in SavedKeys \cup {NoKey}, NEW m \in {"chosen", NoKey},
             Save(p, k, m)
      PROVE  TestsInv' /\ FellBackInv'
  <2>1. PICK f \in Settings : /\ file' = f
                              /\ f.keys = IF k = NoKey THEN file.keys ELSE [file.keys EXCEPT ![p] = k]
                              /\ f.model = IF m = NoKey THEN file.model ELSE m
    <3>1. file.keys \in Environments /\ k \in Keys \cup {NoKey}
      BY <1>1, KeyEnvironmentAssumption, KeyAssumption DEF Settings
    <3>2. [file.keys EXCEPT ![p] = k] \in Environments
      BY <3>1, SetKeyType
    <3>3. file' \in Settings
      BY <1>1, <1>7, <3>1, <3>2 DEF Save, Settings, Models
    <3>4. QED
      BY <1>7, <3>3 DEF Save
  <2>2. k \notin TestOnly
    BY KeyEnvironmentAssumption, KeyAssumption DEF TestOnly
  <2>3. CleanBut({}, f.keys)
    BY <1>1, <2>1, <2>2 DEF TestsInv, CleanBut, Environments, Settings
  <2>4. env'.keys = reloadEnv(env.keys, f.keys)
        /\ env'.model = IF f.model = NoKey THEN env.model ELSE f.model
    BY <1>7, <2>1 DEF Save, Reloaded
  <2>5. \A S \in SUBSET Providers : CleanBut(S, env.keys) => CleanBut(S, env'.keys)
    BY <2>3, <2>4, ReloadClean
  <2>6. UNCHANGED <<test, spoiled>> /\ fellBack' = (fellBack /\ m = NoKey)
    BY <1>7 DEF Save
  <2>7. \A t \in Tests : InTest(t)' <=> InTest(t)
    BY <2>6 DEF InTest
  <2>8. FellBackInv'
    BY <2>1, <2>4, <2>6, <2>7 DEF FellBackInv
  <2>9. CleanBut({}, file.keys)' /\ file'.model # "tested" /\ f.model # "tested"
    BY <1>7, <2>1, <2>3, KeyEnvironmentAssumption DEF CleanBut, TestsInv
  <2>10. (\A t \in Tests : ~InTest(t)) /\ ~spoiled => CleanBut({}, env'.keys) /\ env'.model # "tested"
    BY <2>4, <2>5, <2>9 DEF TestsInv
  <2>11. \A t \in Tests : InTest(t) /\ ~spoiled =>
           {test[t].provider} \in SUBSET Providers /\ CleanBut({test[t].provider}, env'.keys)
    BY <2>5 DEF TestsInv
  <2>12. QED
    BY <2>6, <2>7, <2>8, <2>9, <2>10, <2>11 DEF TestsInv, CleanBut
<1>8. ASSUME NEW t \in Tests, NEW p \in Providers, NEW k \in TestKeys,
             NEW m \in {"tested", NoKey}, TestBegins(t, p, k, m)
      PROVE  TestsInv' /\ FellBackInv'
  <2>1. p \in Slots /\ ~InTest(t) /\ fellBack' = fellBack /\ file' = file
    BY <1>8 DEF TestBegins, InTest, Providers, Slots
  <2>2. /\ env'.model \in {env.model, "tested"}
        /\ \A s \in Slots \ {p} : env'.keys[s] = env.keys[s]
    BY <1>1, <1>8 DEF TestBegins, Environments, Settings
  <2>3. /\ test'[t].provider = p /\ test'[t].oldKey = env.keys[p] /\ test'[t].oldModel = env.model
        /\ InTest(t)'
        /\ \A u \in Tests \ {t} : test'[u] = test[u]
    BY <1>8 DEF TestBegins, KeyTypeOK, NoTest, InTest
  <2>4. \A u \in Tests \ {t} : InTest(u)' <=> InTest(u)
    BY <2>3 DEF InTest
  <2>5. ~spoiled' => ~spoiled /\ \A u \in Tests : ~InTest(u)
    BY <1>8 DEF TestBegins
  <2>6. FellBackInv'
    <3>1. fellBack /\ ~spoiled' /\ file.model = NoKey => env.model = "free"
      BY <2>5 DEF FellBackInv, TestsInv
    <3>2. QED
      BY <2>1, <2>2, <2>3, <2>4, <2>5, <3>1 DEF FellBackInv
  <2>7. CleanBut({}, file.keys)' /\ (file.model # "tested")'
    BY <2>1 DEF TestsInv, CleanBut
  <2>8. ~spoiled' => CleanBut({}, env.keys) /\ env.model # "tested"
    BY <2>5 DEF TestsInv
  <2>9. ~spoiled' => env.keys[p] \notin TestOnly /\ CleanBut({p}, env'.keys)
    BY <2>1, <2>2, <2>8 DEF CleanBut
  <2>10. \A u \in Tests : InTest(u)' /\ ~spoiled' => u = t
    BY <2>4, <2>5
  <2>11. QED
    BY <2>3, <2>6, <2>7, <2>8, <2>9, <2>10 DEF TestsInv, CleanBut
<1>9. ASSUME NEW t \in Tests, TestAsks(t)
      PROVE  TestsInv' /\ FellBackInv'
  <2>1. /\ \A S \in SUBSET Providers : CleanBut(S, env.keys) => CleanBut(S, env'.keys)
        /\ file.model = NoKey => env'.model = env.model
        /\ env'.model \in {env.model, file.model}
    BY <1>1, <1>9, AskKept DEF TestAsks
  <2>2. \A u \in Tests : /\ InTest(u)' <=> InTest(u)
                         /\ test'[u].provider = test[u].provider
                         /\ test'[u].oldKey = test[u].oldKey
                         /\ test'[u].oldModel = test[u].oldModel
    BY <1>9 DEF TestAsks, KeyTypeOK, TestStates, InTest
  <2>3. QED
    BY <1>1, <1>9, <2>1, <2>2, EnvironmentKept DEF TestAsks
<1>10. ASSUME NEW t \in Tests, TestAnswered(t)
       PROVE  TestsInv' /\ FellBackInv'
  <2>1. InTest(t) /\ ~InTest(t)' /\ \A u \in Tests \ {t} : InTest(u)' <=> InTest(u) /\ test'[u] = test[u]
    BY <1>10 DEF TestAnswered, InTest, KeyTypeOK, NoTest
  <2>2. UNCHANGED <<file, fellBack, spoiled>> /\ env'.model = test[t].oldModel
    BY <1>1, <1>10 DEF TestAnswered, Settings
  <2>3. /\ \A s \in Slots \ {test[t].provider} : env'.keys[s] = env.keys[s]
        /\ test[t].provider \in Slots => env'.keys[test[t].provider] = test[t].oldKey
    BY <1>1, <1>10 DEF TestAnswered, Environments, Settings
  <2>4. FellBackInv'
    BY <2>1, <2>2 DEF FellBackInv
  <2>5. ~spoiled => CleanBut({}, env'.keys) /\ env'.model # "tested" /\ \A u \in Tests : ~InTest(u)'
    BY <2>1, <2>2, <2>3 DEF TestsInv, CleanBut
  <2>6. QED
    BY <2>2, <2>4, <2>5 DEF TestsInv, CleanBut
<1>11. ASSUME NEW t \in Tests, TestFailed(t)
       PROVE  TestsInv' /\ FellBackInv'
  BY <1>11 DEF TestFailed, TestsInv, FellBackInv, CleanBut
<1>12. QED
  BY <1>2, <1>3, <1>4, <1>5, <1>6, <1>7, <1>8, <1>9, <1>10, <1>11 DEF KeyNext, UpdateKey, Setup

\* The settings stand: until another page is submitted, the key that update-key saved
\* is the key of the next request; a model that the 402 fallback chose stays, if .env
\* sets none, but for the one of a test that is under way; and a key or a model under
\* test serves no request after a test in good order
\* (interface/api.ts 3180-3260, core/provider.ts 60, 206-208).  For any keys and
\* start-ups that do not have the keys of the tests, or their model, already.
THEOREM SettingsStand ==
  ASSUME TestsAreNew
  PROVE  KeySpec => []SettingsKept
<1>1. KeyInit => SavedInv /\ TestsInv /\ FellBackInv
  <2> SUFFICES ASSUME KeyInit
               PROVE  SavedInv /\ TestsInv /\ FellBackInv
    OBVIOUS
  <2>1. PICK s \in Starts : file = s[1] /\ env = Reloaded(s[2], s[1])
    BY DEF KeyInit
  <2>2. CleanBut({}, file.keys) /\ CleanBut({}, env.keys) /\ file.model # "tested" /\ env.model # "tested"
    BY <2>1, TestsAreNew DEF TestsAreNew, CleanBut, Reloaded, reloadEnv
  <2>3. \A t \in Tests : ~InTest(t)
    BY DEF KeyInit, InTest, NoTest
  <2>4. QED
    BY <2>2, <2>3 DEF KeyInit, SavedInv, TestsInv, FellBackInv
<1>2. KeyTypeOK /\ SavedInv /\ TestsInv /\ FellBackInv /\ [KeyNext]_keyVars
        => (SavedInv /\ TestsInv /\ FellBackInv)'
  BY SavedStep, TestsStep
<1>3. ASSUME KeyTypeOK, SavedInv, TestsInv, FellBackInv
      PROVE  SettingsKept
  <2> DEFINE e == Reloaded(env, file)
             p == ProviderOf(e)
  <2>1. e \in Settings /\ e.keys = reloadEnv(env.keys, file.keys) /\ p \in Providers
    BY <1>3, ReloadedType DEF KeyTypeOK, Reloaded, ProviderOf, Settings, Providers
  <2>2. SavedKeyUsed
    <3> SUFFICES ASSUME saved # NoKey
                 PROVE  NextKey = saved
      BY DEF SavedKeyUsed
    <3>1. file.provider # NoKey /\ runtime[file.provider] = saved /\ p = file.provider
      BY <1>3 DEF SavedInv, Reloaded, ProviderOf
    <3>2. Filled(saved)
      BY <1>3, KeyAssumption, KeyEnvironmentAssumption DEF Filled, KeyTypeOK
    <3>3. QED
      BY <3>1, <3>2 DEF NextKey, KeyOf, resolveApiKey
  <2>3. FallbackHolds
    BY <1>3 DEF FellBackInv, FallbackHolds, Reloaded
  <2>4. TestedContained
    <3> SUFFICES ASSUME ~spoiled, \A t \in Tests : ~InTest(t)
                 PROVE  NextKey \notin TestOnly /\ e.model # "tested"
      BY DEF TestedContained, TestOnly
    <3>0. e.model # "tested"
      BY <1>3 DEF TestsInv, Reloaded
    <3>1. CleanBut({}, e.keys)
      BY <1>3, <2>1, ReloadClean DEF TestsInv
    <3>2. NoKey \notin TestOnly /\ runtime[p] \notin TestOnly
      BY <1>3, <2>1, KeyAssumption, KeyEnvironmentAssumption DEF TestOnly, KeyTypeOK
    <3>3. resolveEnvKeys(p, e.keys) \notin TestOnly
      BY <2>1, <3>1, <3>2, ResolveFrom DEF CleanBut
    <3>4. QED
      BY <3>0, <3>2, <3>3 DEF NextKey, KeyOf, resolveApiKey
  <2>5. QED
    BY <2>2, <2>3, <2>4 DEF SettingsKept
<1>4. QED
  BY <1>1, <1>2, <1>3, KeysTyped, PTL DEF KeySpec
=============================================================================
