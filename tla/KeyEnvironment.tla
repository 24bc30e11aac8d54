---------------------------- MODULE KeyEnvironment ----------------------------
(***************************************************************************)
(* The settings that decide where a request goes and with which key, and   *)
(* everybody who changes them: the .env file, process.env and the runtime  *)
(* overrides of UniversalStore; the orchestrator's healing, the set-up     *)
(* pages of the REST API, the key test, the 402 fallback.  Every request   *)
(* reads .env first (rc() of provider.ts).  No healing step is bounded     *)
(* here, and every start-up environment in Starts is tried.                *)
(***************************************************************************)
EXTENDS KeyRotation

CONSTANTS Starts,     \* pairs <<.env, environment of the shell>> at start-up
          Tests,      \* the calls of POST /api/setup/test-key
          TestKeys,   \* the keys they try
          SavedKeys,  \* the keys saved by the set-up pages
          MaxSaves    \* bound: how often a set-up page is submitted

\* The model is the one of a set-up page, of the fallback, or of a key test.
Models == {"chosen", "free", "tested", NoKey}

Settings == [keys : Environments,
             provider : Providers \cup {NoKey},
             model : Models]

ASSUME KeyEnvironmentAssumption ==
  /\ Starts \subseteq Settings \X Settings
  /\ TestKeys \cup SavedKeys \subseteq UsableKeys
  /\ NoKey \notin Providers \cup {"chosen", "free", "tested"}
  /\ MaxSaves \in Nat

VARIABLES
  file,       \* what .env sets
  env,        \* process.env
  runtime,    \* UniversalStore._runtime: the override of each key variable
  test,       \* the calls of test-key
  saves,      \* set-up pages submitted
  used,       \* the key of the last request
  asked,      \* the providers that requests were sent to
  refused,    \* history: the key that the last step, a healing that found the
              \* primary filled, reports to have replaced; else NoKey
  saved,      \* history: what update-key saved last, until another page saves
  fellBack,   \* history: a 402 switched the model, and no page changed it since
  spoiled     \* history: a test failed, overlapped another or met a fallback

keyVars == <<file, env, runtime, test, saves, used, asked, refused, saved, fellBack, spoiled>>

NoSettings == [keys |-> [s \in Slots |-> NoKey], provider |-> NoKey, model |-> NoKey]
NoTest == [at |-> "new", provider |-> NoKey, key |-> NoKey, oldKey |-> NoKey,
           oldProvider |-> NoKey, oldModel |-> NoKey, asked |-> NoKey]

\* dotenv.config with override, for the variables considered here.
Reloaded(e, f) ==
  [keys     |-> reloadEnv(e.keys, f.keys),
   provider |-> IF f.provider = NoKey THEN e.provider ELSE f.provider,
   model    |-> IF f.model = NoKey THEN e.model ELSE f.model]

KeyInit ==
  /\ \E s \in Starts : file = s[1] /\ env = Reloaded(s[2], s[1])
  /\ runtime = [p \in Providers |-> NoKey]
  /\ test = [t \in Tests |-> NoTest]
  /\ saves = 0
  /\ used = NoKey
  /\ asked = {}
  /\ refused = NoKey
  /\ saved = NoKey
  /\ fellBack = FALSE
  /\ spoiled = FALSE

ProviderOf(e) == IF e.provider = NoKey THEN "OPENROUTER" ELSE e.provider

KeyOf(e) == resolveApiKey(ProviderOf(e), e.keys, runtime)

InTest(t) == test[t].at \in {"importing", "asking"}

-----------------------------------------------------------------------------
(* Requests.  rc() reloads .env and resolves the key in one synchronous    *)
(* stretch with whatever the caller did just before (e is its result).     *)

Ask(e) ==
  /\ env' = Reloaded(e, file)
  /\ used' = KeyOf(Reloaded(e, file))
  /\ asked' = asked \cup {ProviderOf(Reloaded(e, file))}

\* refused' of a healing that leaves the keys e to the rotation, and of the others.
Reported(e) == IF rotated(e) /\ Filled(e[ProviderOf(env)]) THEN used ELSE NoKey
NoHealing == refused' = NoKey

Request ==
  /\ Ask(env)
  /\ NoHealing
  /\ UNCHANGED <<file, runtime, test, saves, saved, fellBack, spoiled>>

\* The two branches of the orchestrator's catch block that touch the keys, up to
\* the request of the planner that follows at once.
HealRateLimit ==
  /\ Ask([env EXCEPT !.keys = rotateApiKey(@)])
  /\ refused' = Reported(env.keys)
  /\ UNCHANGED <<file, runtime, test, saves, saved, fellBack, spoiled>>

HealAuth ==
  /\ Ask([Reloaded(env, file) EXCEPT !.keys = rotateApiKey(@)])
  /\ refused' = Reported(reloadEnv(env.keys, file.keys))
  /\ UNCHANGED <<file, runtime, test, saves, saved, fellBack, spoiled>>

\* A request to OpenRouter is answered with 402, perhaps late: the model is switched for the whole process.
PaymentRequired ==
  /\ "OPENROUTER" \in asked
  /\ env' = [env EXCEPT !.model = "free"]
  /\ fellBack' = TRUE
  /\ spoiled' = (spoiled \/ \E t \in Tests : InTest(t))
  /\ NoHealing
  /\ UNCHANGED <<file, runtime, test, saves, used, asked, saved>>

-----------------------------------------------------------------------------
(* The set-up pages.  k = NoKey: the key field is left empty.              *)

\* Writes the provider, the key and the model m to .env.
Save(p, k, m) ==
  /\ saves < MaxSaves
  /\ saves' = saves + 1
  /\ file' = [keys     |-> IF k = NoKey THEN file.keys ELSE [file.keys EXCEPT ![p] = k],
              provider |-> p,
              model    |-> IF m = NoKey THEN file.model ELSE m]
  /\ env' = Reloaded(env, file')
  /\ fellBack' = (fellBack /\ m = NoKey)
  /\ NoHealing
  /\ UNCHANGED <<test, used, asked, spoiled>>

\* POST /api/setup/update-key and /api/setup/save, which also set the override.
UpdateKey(p, k) ==
  /\ Save(p, k, "chosen")
  /\ runtime' = IF k = NoKey THEN runtime ELSE [runtime EXCEPT ![p] = k]
  /\ saved' = k

\* POST /api/setup, which does not.
Setup(p, k) ==
  /\ Save(p, k, NoKey)
  /\ saved' = NoKey
  /\ UNCHANGED runtime

-----------------------------------------------------------------------------
(* POST /api/setup/test-key: process.env is overridden, and restored after *)
(* an answer; in between come the import of the provider and the request.  *)

\* m = NoKey: the test names no model.
TestBegins(t, p, k, m) ==
  /\ test[t].at = "new"
  /\ test' = [test EXCEPT ![t] = [NoTest EXCEPT !.at = "importing", !.provider = p,
                                               !.key = k, !.oldKey = env.keys[p],
                                               !.oldProvider = env.provider,
                                               !.oldModel = env.model]]
  /\ env' = [env EXCEPT !.keys[p] = k, !.provider = p, !.model = IF m = NoKey THEN @ ELSE m]
  /\ spoiled' = (spoiled \/ \E u \in Tests : InTest(u))
  /\ NoHealing
  /\ UNCHANGED <<file, runtime, saves, used, asked, saved, fellBack>>

TestAsks(t) ==
  /\ test[t].at = "importing"
  /\ Ask(env)
  /\ test' = [test EXCEPT ![t].at = "asking", ![t].asked = used']
  /\ NoHealing
  /\ UNCHANGED <<file, runtime, saves, saved, fellBack, spoiled>>

\* Variants with a bug: the key is not put back; the model is not remembered.
TestAnsweredKeepsKey(t) ==
  /\ test[t].at = "asking"
  /\ env' = [env EXCEPT !.provider = test[t].oldProvider, !.model = test[t].oldModel]
  /\ test' = [test EXCEPT ![t] = [NoTest EXCEPT !.at = "over"]]
  /\ NoHealing
  /\ UNCHANGED <<file, runtime, saves, used, asked, saved, fellBack, spoiled>>

TestAnswered(t) ==
  LET p == test[t].provider
  IN /\ test[t].at = "asking"
     /\ env' = [env EXCEPT !.provider = test[t].oldProvider,
                           !.keys[p]  = test[t].oldKey,
                           !.model    = test[t].oldModel]
     /\ test' = [test EXCEPT ![t] = [NoTest EXCEPT !.at = "over"]]
     /\ NoHealing
     /\ UNCHANGED <<file, runtime, saves, used, asked, saved, fellBack, spoiled>>

\* The request throws: the restore, in the same try block, is skipped.
TestFailed(t) ==
  /\ test[t].at = "asking"
  /\ test' = [test EXCEPT ![t] = [NoTest EXCEPT !.at = "over"]]
  /\ NoHealing
  /\ spoiled' = TRUE
  /\ UNCHANGED <<file, env, runtime, saves, used, asked, saved, fellBack>>

KeyNext ==
  \/ Request \/ HealRateLimit \/ HealAuth \/ PaymentRequired
  \/ \E p \in Providers, k \in SavedKeys \cup {NoKey} : UpdateKey(p, k) \/ Setup(p, k)
  \/ \E t \in Tests : \/ \E p \in Providers, k \in TestKeys, m \in {"tested", NoKey} : TestBegins(t, p, k, m)
                      \/ TestAsks(t) \/ TestAnswered(t) \/ TestFailed(t)

\* The provider keeps limiting the rate.
KeySpec == KeyInit /\ [][KeyNext]_keyVars /\ WF_keyVars(HealRateLimit)

-----------------------------------------------------------------------------
TestStates ==
  [at : {"new", "importing", "asking", "over"},
   provider : Providers \cup {NoKey}, oldProvider : Providers \cup {NoKey},
   key : Keys \cup {NoKey}, oldKey : Keys \cup {NoKey}, asked : Keys \cup {NoKey},
   oldModel : Models]

KeyTypeOK ==
  /\ test \in [Tests -> TestStates]
  /\ file \in Settings /\ env \in Settings
  /\ runtime \in [Providers -> SavedKeys \cup {NoKey}]
  /\ saves \in 0..MaxSaves
  /\ {used, refused} \subseteq Keys \cup {NoKey}
  /\ asked \subseteq Providers
  /\ saved \in SavedKeys \cup {NoKey}
  /\ fellBack \in BOOLEAN /\ spoiled \in BOOLEAN

Families == { {"OPENROUTER", "OPENROUTER_2", "OPENROUTER_3"},
              {"OPENAI", "OPENAI_2"},
              {"ANTHROPIC", "ANTHROPIC_2"} }

\* All the keys that are set belong to one provider.
SingleFamily(e) == \E F \in Families : \A s \in Slots \ F : e[s] = NoKey

Backups == {"OPENROUTER_2", "OPENROUTER_3", "OPENAI_2", "ANTHROPIC_2"}

\* Nobody but the healing has touched the keys, and .env sets none of them.
Untouched ==
  /\ file.keys = NoSettings.keys
  /\ saves = 0
  /\ \A t \in Tests : test[t].at = "new"

\* Keys that come from the shell: when the healing reports a rotation away from a
\* filled primary, the request that follows is sent with another key, and a usable
\* one, although it reloads .env first (orchestrator.ts:112-135, provider.ts:60).
RotationActivates ==
  refused # NoKey /\ Untouched /\ SingleFamily(env.keys) =>
    used # refused /\ used \in UsableKeys

\* No backup key of the shell starves: while rate limits go on, requests are sent
\* with each of them again and again, whatever auth failures and other requests
\* come in between.
BackupsTried ==
  \A k \in UsableKeys :
    []<>(/\ Untouched
         /\ \E s \in Backups : env.keys[s] = k /\ PrimaryOf(s) = ProviderOf(env)
         => used = k)

\* A key that was refused is replaced by another one, when the healing reports
\* a rotation (orchestrator.ts:108-135, 352-371).
RefusedKeyReplaced == refused # NoKey => used # refused

\* The key of the next request.
NextKey == KeyOf(Reloaded(env, file))

\* Until another page is submitted, the key saved by update-key is the key of the
\* next request: no rotation, fallback or key test gets in its way, whichever
\* was under way when it was saved.
SavedKeyUsed == saved # NoKey => NextKey = saved

\* A key or a model under test serves other requests during the test at most,
\* unless a test failed, overlapped another or met a fallback (api.ts:3238-3259).
TestedContained ==
  NextKey \in TestKeys \ SavedKeys \/ Reloaded(env, file).model = "tested" =>
    spoiled \/ \E t \in Tests : InTest(t)

\* Once a 402 switched the model, requests go to the free model, or to the one of
\* a test that is under way, however key tests come and go, if .env does not set
\* a model (provider.ts:206-208).
FallbackHolds ==
  fellBack /\ ~spoiled /\ file.model = NoKey => Reloaded(env, file).model \in {"free", "tested"}

\* What the user saved and what the fallback decided stand, and what a test uses
\* goes, whatever writes the environment in between.
SettingsKept == SavedKeyUsed /\ FallbackHolds /\ TestedContained

\* A key test asks the provider with the key it was given (api.ts:3224, 3239-3251).
KeyTestUsesIt == \A t \in Tests : test[t].at = "asking" => test[t].asked = test[t].key
=============================================================================
