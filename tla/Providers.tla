----------------------------- MODULE Providers -----------------------------
(***************************************************************************)
(* One extraction seen from run_extraction's only call to a provider: the  *)
(* chain built from the configuration, the adapters that turn what the     *)
(* remote service did into an answer or one of two kinds of failure, and   *)
(* the attempts FallbackProvider makes.                                    *)
(***************************************************************************)
EXTENDS Integers, Sequences

CONSTANT Attempts   \* attempts_per_provider

ASSUME AttemptsAssumption == Attempts \in Nat \ {0}

Names == {"gemini", "openai", "mock"}
Settings == [provider: Names, keys: SUBSET {"gemini", "openai"}]

\* What the service on the other end may do with one call: a payload, one that does
\* not fit the schema, none, a status in PERMANENT_STATUS, or anything else (a
\* timeout, a rate limit, a 5xx, a lost connection).
Replies == {"payload", "misfit", "nothing", "rejected", "unavailable"}

VARIABLES
  chain,      \* the providers in the order they are tried
  position,   \* the provider being tried
  attempt,    \* the attempt being made on it
  failures,   \* what failed so far, with the provider's name
  call        \* "unused", "calling", "answered" or "failed"

chainVars == <<chain, position, attempt, failures, call>>

\* build_provider: the name is the order, the other key adds the fallback, a missing
\* key of the provider asked for is refused at startup (no chain).
BuildProvider(settings) ==
  LET primary == settings.provider
      others  == settings.keys \ {primary}
  IN  IF primary = "mock" THEN <<"mock">>
      ELSE IF primary \notin settings.keys THEN <<>>
      ELSE IF others = {} THEN <<primary>>
      ELSE <<primary, CHOOSE name \in others : TRUE>>

\* A provider that stands alone is not wrapped in a FallbackProvider: one attempt.
AttemptsPerProvider == IF Len(chain) = 1 THEN 1 ELSE Attempts

\* Both adapters translate what the SDK raises; a misfit is found by our own parsing
\* for gemini and inside the SDK's call for openai.
Translate(name, reply) ==
  CASE reply = "payload" -> "answer"
    [] reply \in {"rejected", "nothing"} -> "permanent"
    [] reply = "misfit" -> IF name = "gemini" THEN "permanent" ELSE "transient"
    [] OTHER -> "transient"

Outcomes == {Translate(chain[position], reply) :
               reply \in IF chain[position] = "mock" THEN {"payload"} ELSE Replies}

Unused == chain = <<>> /\ position = 1 /\ attempt = 1 /\ failures = <<>> /\ call = "unused"

Configured ==
  /\ chain \in {BuildProvider(s) : s \in Settings} \ {<<>>}
  /\ position = 1 /\ attempt = 1 /\ failures = <<>> /\ call = "calling"

Record(outcome) == failures' = Append(failures, [provider |-> chain[position], outcome |-> outcome])

Answer ==
  /\ call = "calling"
  /\ "answer" \in Outcomes
  /\ call' = "answered"
  /\ UNCHANGED <<chain, position, attempt, failures>>

\* Mutant of Retry: a permanent failure is retried like any other.
RetryAnything ==
  /\ call = "calling"
  /\ attempt < AttemptsPerProvider
  /\ \E outcome \in Outcomes \ {"answer"} : Record(outcome)
  /\ attempt' = attempt + 1
  /\ UNCHANGED <<chain, position, call>>

\* except TransientProviderError, with attempts left in the range.
Retry ==
  /\ call = "calling"
  /\ "transient" \in Outcomes
  /\ attempt < AttemptsPerProvider
  /\ Record("transient")
  /\ attempt' = attempt + 1
  /\ UNCHANGED <<chain, position, call>>

\* The outcomes that end the inner loop without an answer: the break, or no attempts left.
Exhausting == {o \in Outcomes : o = "permanent" \/ (o = "transient" /\ attempt >= AttemptsPerProvider)}

FallThrough ==
  /\ call = "calling"
  /\ position < Len(chain)
  /\ \E outcome \in Exhausting : Record(outcome)
  /\ position' = position + 1
  /\ attempt' = 1
  /\ UNCHANGED <<chain, call>>

GiveUp ==
  /\ call = "calling"
  /\ position = Len(chain)
  /\ \E outcome \in Exhausting : Record(outcome)
  /\ call' = "failed"
  /\ UNCHANGED <<chain, position, attempt>>

(***************************************************************************)
(* Properties.                                                             *)
(***************************************************************************)
FailuresOf(name) == {i \in DOMAIN failures : failures[i].provider = name}

\* Nothing follows a permanent failure of the same provider, and no provider is asked
\* more often than its allowance.
NoneWasted ==
  \A i, j \in DOMAIN failures :
    i < j /\ failures[i].provider = failures[j].provider =>
      failures[i].outcome = "transient" /\ j - i < AttemptsPerProvider

\* A provider that has failed for good or has used up its attempts.
Spent(name) ==
  \/ \E i \in FailuresOf(name) : failures[i].outcome = "permanent"
  \/ \E i, j \in FailuresOf(name) : j - i = AttemptsPerProvider - 1

\* Providers are tried in the order of the chain.
InOrder ==
  \A p, q \in DOMAIN chain : q < p => \A i \in FailuresOf(chain[p]), j \in FailuresOf(chain[q]) : j < i

\* No call is wasted: nothing follows a permanent failure of the same provider, and no
\* provider is asked more often than its allowance.  None is left out: an extraction
\* fails only when every provider of the chain, in order, has failed for good or has
\* used up its attempts.
AttemptsWellSpent ==
  /\ NoneWasted
  /\ call = "failed" => InOrder /\ \A p \in DOMAIN chain : Spent(chain[p])

\* The inductive invariant of the proofs.  The providers before the one being tried are
\* spent, and the failures of that one are the last ones, as many as its attempts but one.
ChainShape ==
  /\ chain \in Seq(Names) /\ \A p, q \in DOMAIN chain : chain[p] = chain[q] => p = q
  /\ failures \in Seq([provider : Names, outcome : {"permanent", "transient"}])
  /\ call \in {"unused", "calling", "answered", "failed"}
  /\ attempt \in 1..AttemptsPerProvider
  /\ IF call = "unused" THEN chain = <<>> /\ failures = <<>> /\ position = 1 ELSE position \in DOMAIN chain
  /\ call = "failed" => position = Len(chain)

Latest ==
  call = "calling" =>
    /\ FailuresOf(chain[position]) = (Len(failures) - attempt + 2)..Len(failures)
    /\ attempt - 1 <= Len(failures)
    /\ \A i \in FailuresOf(chain[position]) : failures[i].outcome = "transient"

ChainInductive ==
  /\ ChainShape /\ NoneWasted /\ InOrder /\ Latest
  /\ \A i \in DOMAIN failures : \E p \in 1..position : p \in DOMAIN chain /\ failures[i].provider = chain[p]
  /\ \A p \in DOMAIN chain : p < position \/ call = "failed" => Spent(chain[p])
=============================================================================
