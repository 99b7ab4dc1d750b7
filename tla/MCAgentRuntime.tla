--------------------------- MODULE MCAgentRuntime ---------------------------
(* The two halves of the agent runtime, one in each behaviour: the runs of *)
(* a session, whose execution is one step, and that execution by itself.   *)
EXTENDS SessionRuns, ProviderCalls

VARIABLE half

runtimeVars == <<half, vars, callVars>>

\* The half that is not followed stays as it begins, with nothing pending.
RuntimeInit == /\ half \in {"session", "providers"} /\ Init /\ CallsInit
               /\ half = "session" => registered = {} /\ timer = "off" /\ ~ aborted

SessionNext == half = "session" /\ Next /\ UNCHANGED <<half, callVars>>

ProvidersNext == half = "providers" /\ CallsNext /\ UNCHANGED <<half, vars>>

\* The fairness of FairSpec and of FairCallsSpec, each in its half.
RuntimeSpec ==
    /\ RuntimeInit
    /\ [][SessionNext \/ ProvidersNext]_runtimeVars
    /\ \A r \in Runs : /\ WF_vars(half = "session" /\ Main(r))
                       /\ WF_vars(half = "session" /\ Body(r))
    /\ WF_callVars(half = "providers" /\ Begins)
    /\ WF_callVars(half = "providers" /\ Retries)
    /\ WF_callVars(half = "providers" /\ TimerFires)
=============================================================================
