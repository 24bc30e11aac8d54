-------------------------------- MODULE MCKeys --------------------------------
(***************************************************************************)
(* Instances of KeyEnvironment: every start-up with the keys of one        *)
(* provider, all in .env or all in the shell.                              *)
(***************************************************************************)
EXTENDS KeyEnvironment

CONSTANTS k1, k2, k3, ks, kt, blank, test1

MCKeys == {k1, k2, k3, ks, kt, blank}
MCUsable == {k1, k2, k3, ks, kt}
MCBlank == {blank}

KeysOf(f) == [s \in Slots |-> IF s \in DOMAIN f THEN f[s] ELSE NoKey]

Only(k, p) == [keys |-> k, provider |-> p, model |-> NoKey]

\* Up to a renaming of the keys, every value of a primary and its backups.
OpenRouter ==
  { Only(KeysOf([OPENROUTER |-> a, OPENROUTER_2 |-> b, OPENROUTER_3 |-> c]), NoKey) :
      a \in {k1, blank, NoKey}, b \in {k1, k2, blank, NoKey}, c \in {k1, k2, k3, blank, NoKey} }

OpenAI ==
  { Only(KeysOf([OPENAI |-> a, OPENAI_2 |-> b]), "OPENAI") :
      a \in {k1, blank, NoKey}, b \in {k1, k2, blank, NoKey} }

InFile(S)  == S \X {NoSettings}
InShell(S) == {NoSettings} \X S

OneProvider == InFile(OpenRouter \cup OpenAI) \cup InShell(OpenRouter \cup OpenAI)
OpenRouterFiles == InFile(OpenRouter)
\* Those where a backup repeats no earlier variable but the primary, the second
\* backup slot is only filled if the first is, and .env, whose keys no rotation
\* outlives, has one backup at most.
Distinct ==
  { s \in OneProvider :
      /\ \A e \in {s[1].keys, s[2].keys} :
           /\ e["OPENROUTER_2"] # k1 /\ e["OPENAI_2"] # k1
           /\ e["OPENROUTER_3"] \in {k1, k3, NoKey}
           /\ e["OPENROUTER_2"] = NoKey => e["OPENROUTER_3"] = NoKey
      /\ s[1].keys["OPENROUTER_3"] = NoKey }

JustTested == {kt}
JustSaved == {ks}
OneTest == {test1}
NoTests == {}
=============================================================================
