----------------------------- MODULE KeyRotation -----------------------------
(***************************************************************************)
(* The API-key environment of the agent: the two operations the            *)
(* orchestrator heals itself with, reloadEnv (dotenv with override) and    *)
(* rotateApiKey, and the choice of the key that a request is sent with.    *)
(* An environment maps every key variable to a key or to NoKey (the        *)
(* variable is not set).  A set variable may hold a value that is not      *)
(* usable, because it is blank (the empty string of a template) or has     *)
(* 8 characters or less: such a value is in Keys but not in UsableKeys.    *)
(***************************************************************************)
EXTENDS Naturals, Sequences

CONSTANTS Keys,        \* the values a key variable can hold
          UsableKeys,  \* those that are longer than 8 characters
          BlankKeys,   \* those that are empty or white space
          NoKey        \* the variable is not set

ASSUME KeyAssumption ==
  /\ UsableKeys \subseteq Keys
  /\ BlankKeys \subseteq Keys \ UsableKeys
  /\ NoKey \notin Keys

\* The order in which rotateApiKey looks for an alternative.
envKeys == << "OPENROUTER", "OPENAI", "ANTHROPIC",
              "OPENROUTER_2", "OPENROUTER_3", "OPENAI_2", "ANTHROPIC_2" >>

Slots == { "OPENROUTER", "OPENAI", "ANTHROPIC",
           "OPENROUTER_2", "OPENROUTER_3", "OPENAI_2", "ANTHROPIC_2" }

Environments == [Slots -> Keys \cup {NoKey}]

\* The variable that a key found in slot k is written to.
PrimaryOf(k) ==
  CASE k \in {"OPENROUTER", "OPENROUTER_2", "OPENROUTER_3"} -> "OPENROUTER"
    [] k \in {"OPENAI", "OPENAI_2"}                         -> "OPENAI"
    [] OTHER                                                -> "ANTHROPIC"

\* OPENROUTER ?? OPENAI ?? ANTHROPIC: an unusable value that is set still wins.
activeKey(e) ==
  CASE e["OPENROUTER"] # NoKey -> e["OPENROUTER"]
    [] e["OPENROUTER"] = NoKey /\ e["OPENAI"] # NoKey -> e["OPENAI"]
    [] OTHER -> e["ANTHROPIC"]

\* Variants of Alternatives with a bug: no comparison with the active key, a
\* search that stops too early.
AlternativesOrActive(e) == { i \in 1..7 : e[envKeys[i]] \in UsableKeys }
AlternativesOfFour(e) ==
  { i \in 1..4 : e[envKeys[i]] \in UsableKeys /\ e[envKeys[i]] # activeKey(e) }

Alternatives(e) ==
  { i \in 1..7 : e[envKeys[i]] \in UsableKeys /\ e[envKeys[i]] # activeKey(e) }

FirstAlternative(e) ==
  envKeys[CHOOSE i \in Alternatives(e) : \A j \in Alternatives(e) : i <= j]

\* What rotateApiKey returns, and the environment it leaves.
rotated(e) == Alternatives(e) # {}

\* A variant with a bug: the name of the variable is written, not its value.
rotateApiKeyName(e) ==
  IF rotated(e)
    THEN [e EXCEPT ![PrimaryOf(FirstAlternative(e))] = FirstAlternative(e)]
    ELSE e

rotateApiKey(e) ==
  IF rotated(e)
    THEN [e EXCEPT ![PrimaryOf(FirstAlternative(e))] = e[FirstAlternative(e)]]
    ELSE e

\* dotenv.config({ override: true }): only the variables of the file are set.
reloadEnv(e, file) ==
  [k \in Slots |-> IF file[k] = NoKey THEN e[k] ELSE file[k]]

\* The variables of a provider in the order in which resolveEnvKeys reads them.
Providers == {"OPENROUTER", "OPENAI", "ANTHROPIC"}

Variables(p) ==
  CASE p = "OPENROUTER" -> << "OPENROUTER", "OPENROUTER_2", "OPENROUTER_3" >>
    [] p = "OPENAI"     -> << "OPENAI", "OPENAI_2" >>
    [] OTHER            -> << "ANTHROPIC", "ANTHROPIC_2" >>

Filled(v) == v # NoKey /\ v \notin BlankKeys

FilledIn(p, e) == { i \in DOMAIN Variables(p) : Filled(e[Variables(p)[i]]) }

resolveEnvKeys(p, e) ==
  IF FilledIn(p, e) = {} THEN NoKey
  ELSE e[Variables(p)[CHOOSE i \in FilledIn(p, e) : \A j \in FilledIn(p, e) : i <= j]]

\* The key a request to provider p is sent with: a runtime override wins.  The
\* profile store that comes between the two is never written.
resolveApiKey(p, e, runtime) ==
  IF Filled(runtime[p]) THEN runtime[p] ELSE resolveEnvKeys(p, e)
=============================================================================
