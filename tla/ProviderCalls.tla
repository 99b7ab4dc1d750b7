--------------------------- MODULE ProviderCalls ---------------------------
(***************************************************************************)
(* The execution of one run: runWithTimeout around runWithProviderFallback *)
(* around runWithRetry.  The timer, the caller's abort signal and the      *)
(* answers of the providers race; a provider that ignores the abort signal *)
(* answers after the run has been given up.                                *)
(***************************************************************************)
EXTENDS Naturals

CONSTANTS Providers,    \* length of the provider order
          MaxAttempts   \* calls to one provider

ASSUME ProvidersAssumption == Providers \in Nat /\ MaxAttempts \in Nat \ {0}

VARIABLES registered,  \* the places of the order whose provider is registered
          provider,    \* the place of the provider that was called last
          call,        \* "running", "waiting" to be retried, or "over"
          tries,       \* tries[i]: the calls to the provider at i so far
          aborted,     \* the signal that runWithTimeout hands down
          timer,       \* "set", or "off": without a timeout, or cleared
          outcome,     \* what the run sees
          fatal        \* history: a provider reported an error not to be retried

callVars == <<registered, provider, call, tries, aborted, timer, outcome, fatal>>

Order == 1..Providers

NextFrom(i) == {j \in Order : j >= i /\ j \in registered}

(* runWithTimeout takes the first outcome, and clears the timer.           *)
Settle(result) == IF outcome = "pending"
                  THEN outcome' = result /\ timer' = "off"
                  ELSE UNCHANGED <<outcome, timer>>

Stop(result) == /\ call' = "over"
                /\ Settle(result)
                /\ UNCHANGED <<provider, tries>>

CallProvider(i) == /\ provider' = i
                   /\ call' = "running"
                   /\ tries' = [tries EXCEPT ![i] = @ + 1]
                   /\ UNCHANGED <<outcome, timer>>

(* Each attempt begins with a look at the signal. *)
Attempt(i) == IF aborted THEN Stop("failed") ELSE CallProvider(i)

TurnTo(i) == \/ NextFrom(i) = {} /\ Stop("failed")
             \/ \E j \in NextFrom(i) : (\A k \in NextFrom(i) : j <= k) /\ Attempt(j)

CallsInit == /\ registered \in SUBSET Order
             /\ provider = 0
             /\ call = "begin"
             /\ tries = [i \in Order |-> 0]
             /\ aborted \in BOOLEAN   \* the caller's signal, perhaps set already
             /\ timer \in {"set", "off"}
             /\ outcome = "pending"
             /\ fatal = FALSE

Begins == /\ call = "begin"
          /\ TurnTo(1)
          /\ UNCHANGED <<registered, aborted, fatal>>

Answers == /\ call = "running"
           /\ Stop("answer")
           /\ UNCHANGED <<registered, aborted, fatal>>

(* An error that is not retryable ends the run, whatever providers are     *)
(* left.                                                                   *)
FailsForGood == /\ call = "running"
                /\ Stop("failed")
                /\ fatal' = TRUE
                /\ UNCHANGED <<registered, aborted>>

FailsRetryably == /\ call = "running"
                  /\ tries[provider] < MaxAttempts
                  /\ call' = "waiting"
                  /\ UNCHANGED <<registered, provider, tries, aborted, timer, outcome, fatal>>

(* Mutant: the signal is looked at only before the first attempt. *)
RetriesBlindly == /\ call = "waiting"
                  /\ CallProvider(provider)
                  /\ UNCHANGED <<registered, aborted, fatal>>
Retries == /\ call = "waiting"
           /\ Attempt(provider)
           /\ UNCHANGED <<registered, aborted, fatal>>

(* Mutant: any failure turns to the next provider. *)
FallsBackAtOnce == /\ call = "running"
                   /\ TurnTo(provider + 1)
                   /\ UNCHANGED <<registered, aborted, fatal>>
FallsBack == /\ call = "running"
             /\ tries[provider] = MaxAttempts
             /\ TurnTo(provider + 1)
             /\ UNCHANGED <<registered, aborted, fatal>>

(* Mutant: the timer aborts the calls but does not reject. *)
TimerAborts == /\ timer = "set"
               /\ timer' = "off"
               /\ aborted' = TRUE
               /\ UNCHANGED <<registered, provider, call, tries, outcome, fatal>>
TimerFires == /\ timer = "set"
              /\ timer' = "off"
              /\ aborted' = TRUE
              /\ outcome' = "timeout"
              /\ UNCHANGED <<registered, provider, call, tries, fatal>>

(* The caller's signal is handed down until the outcome is there. *)
CallerAborts == /\ outcome = "pending" /\ ~ aborted
                /\ aborted' = TRUE
                /\ UNCHANGED <<registered, provider, call, tries, timer, outcome, fatal>>

CallsNext == \/ Begins \/ Answers \/ FailsForGood \/ FailsRetryably \/ Retries \/ FallsBack
             \/ TimerFires \/ CallerAborts

CallsSpec == CallsInit /\ [][CallsNext]_callVars

(* Timers fire, the delay before a retry among them; a provider need not   *)
(* answer.                                                                 *)
FairCallsSpec == CallsSpec /\ WF_callVars(Begins) /\ WF_callVars(Retries) /\ WF_callVars(TimerFires)
-----------------------------------------------------------------------------
CallsTypeOK == /\ registered \subseteq Order
               /\ provider \in 0..Providers
               /\ call \in {"begin", "running", "waiting", "over"}
               /\ tries \in [Order -> 0..MaxAttempts]
               /\ aborted \in BOOLEAN /\ fatal \in BOOLEAN
               /\ timer \in {"set", "off"}
               /\ outcome \in {"pending", "answer", "failed", "timeout"}

(* A provider is called only after every registered one before it was      *)
(* called as often as it may be.                                           *)
FallbackInOrder ==
    \A i \in Order : tries[i] > 0 => \A j \in registered : j < i => tries[j] = MaxAttempts

(* A run that fails without an abort has met an error not to be retried or *)
(* has exhausted every registered provider.                                *)
FailsOnlyExhausted ==
    outcome = "failed" => aborted \/ fatal \/ \A j \in registered : tries[j] = MaxAttempts

(* Once the signal is set or the run has its outcome, nobody is called.    *)
NoCallAfterAbort == [][aborted \/ outcome # "pending" => tries' = tries]_callVars

(* A late answer changes nothing. *)
OutcomeIsFinal == [][outcome # "pending" => outcome' = outcome]_callVars

(* A run with a timeout comes to an outcome, although a provider may never *)
(* answer.                                                                 *)
EndsInTime == timer = "set" ~> outcome # "pending"
=============================================================================
