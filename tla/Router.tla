-------------------------------- MODULE Router --------------------------------
(***************************************************************************)
(* Router (src/core/router.ts) over the providers of module Provider: a    *)
(* call either goes through Router.execute, which falls back from one      *)
(* provider to the next and keeps failed ones away for a while, or takes   *)
(* one provider from Router.selectProvider and calls it directly, as the   *)
(* agent executor does.                                                    *)
(*                                                                         *)
(* A penalty is a set membership and its expiry a step: expired penalties  *)
(* are removed where penalties are read, in getAvailableProviders.  The    *)
(* router's own response cache is left out: nothing in src/ configures it. *)
(***************************************************************************)
EXTENDS Provider

CONSTANTS
    Priority,   \* place of a provider in the list sorted by priority
    Direct,     \* calls that only let the router choose
    Fallback    \* fallbackEnabled

ASSUME RouterAssumption ==
    /\ Priority \in [Providers -> Nat]
    /\ \A p, q \in Providers : Priority[p] = Priority[q] => p = q
    /\ Direct \subseteq Calls
    /\ Fallback \in BOOLEAN

VARIABLES
    route,       \* what a call's routing is at
    sure,        \* available providers: cached answers
    unsure,      \* providers whose command is being looked for
    left,        \* providers still to be tried
    penalised,   \* penalizedProviders
    watching     \* are there periodic health checks?

rvars == <<route, sure, unsure, left>>
vars == <<pvars, rvars, penalised, watching>>

TypeOK ==
    /\ ProviderTypeOK
    /\ route \in [Calls -> {"new", "listing", "trying", "answered", "failed"}]
    /\ sure \in [Calls -> SUBSET Providers]
    /\ unsure \in [Calls -> SUBSET Providers]
    /\ left \in [Calls -> SUBSET Providers]
    /\ penalised \subseteq Providers
    /\ watching \in BOOLEAN

Init ==
    /\ ProviderInit
    /\ target = [c \in Calls |-> CHOOSE p \in Providers : TRUE]
    /\ route = [c \in Calls |-> "new"]
    /\ sure = [c \in Calls |-> {}] /\ unsure = sure /\ left = sure
    /\ penalised = {}
    /\ watching \in BOOLEAN

-----------------------------------------------------------------------------
\* Routing a call.

Goes(c, where) == route' = [route EXCEPT ![c] = where]

IsBest(p, P) == p \in P /\ \A q \in P : Priority[p] <= Priority[q]

\* Give a call the next of the providers in P, or tell its caller that there
\* is none.
Give(c, P) ==
    IF P = {}
    THEN Goes(c, "failed") /\ UNCHANGED <<target, phase, attempt, left>>
    ELSE \E p \in P :
           /\ IsBest(p, P)
           /\ Goes(c, "trying")
           /\ target' = [target EXCEPT ![c] = p]
           /\ left' = [left EXCEPT ![c] = IF c \in Direct THEN {} ELSE P \ {p}]
           /\ phase' = [phase EXCEPT ![c] = "new"]
           /\ attempt' = [attempt EXCEPT ![c] = 0]

Candidates == {p \in Providers \ penalised : available[p]}

\* getAvailableProviders: penalties and breakers are read at once, commands
\* that are not in the availability cache are then looked for.
Route(c) ==
    /\ route[c] = "new"
    /\ LET asked == {p \in Candidates : ~known[p]} IN
       IF asked = {}
       THEN Give(c, Candidates) /\ UNCHANGED <<sure, unsure>>
       ELSE /\ sure' = [sure EXCEPT ![c] = Candidates \ asked]
            /\ unsure' = [unsure EXCEPT ![c] = asked]
            /\ Goes(c, "listing")
            /\ UNCHANGED <<target, phase, attempt, left>>
    /\ UNCHANGED <<environment, caches, breaker, busy, aborted, child, penalised, watching>>

\* All commands have been looked for.
Listed(c) ==
    /\ route[c] = "listing"
    /\ LET found == {p \in unsure[c] : installed[p]} IN
       /\ known' = [p \in Providers |-> known[p] \/ p \in found]
       /\ Give(c, sure[c] \cup found)
    /\ sure' = [sure EXCEPT ![c] = {}] /\ unsure' = [unsure EXCEPT ![c] = {}]
    /\ UNCHANGED <<environment, answers, breaker, busy, aborted, child, penalised, watching>>

\* A response.  Router.execute lifts the provider's penalty, also one that it
\* was given after this call had begun.
Answered(c) ==
    /\ route[c] = "trying" /\ phase[c] = "returned"
    /\ Goes(c, "answered")
    /\ penalised' = IF c \in Direct THEN penalised ELSE penalised \ {target[c]}
    /\ UNCHANGED <<pvars, sure, unsure, left, watching>>

\* The provider throws: Router.execute penalises it and goes on with the next.
Refused(c) ==
    /\ route[c] = "trying" /\ phase[c] = "threw"
    /\ penalised' = IF c \in Direct THEN penalised ELSE penalised \cup {target[c]}
    /\ Give(c, IF Fallback THEN left[c] ELSE {})
    /\ UNCHANGED <<environment, caches, breaker, busy, aborted, child, sure, unsure, watching>>

Routing(c) == Route(c) \/ Listed(c) \/ Answered(c) \/ Refused(c)

-----------------------------------------------------------------------------
\* The router itself.

\* The cooldown of a provider is over.
PenaltyEnds(p) ==
    /\ p \in penalised
    /\ penalised' = penalised \ {p}
    /\ UNCHANGED <<pvars, rvars, watching>>

\* A health check, or the warmup, asks isAvailable and fills its cache.
HealthCheck(p) ==
    /\ watching
    /\ available[p] /\ ~known[p] /\ installed[p]
    /\ known' = [known EXCEPT ![p] = TRUE]
    /\ UNCHANGED <<environment, answers, breaker, busy, call, target, aborted,
                   rvars, penalised, watching>>

\* destroy: no more checks, no penalties.
Destroy ==
    /\ watching' = FALSE /\ penalised' = {}
    /\ UNCHANGED <<pvars, rvars>>

Next ==
    \/ \E c \in Calls : Routing(c)
    \/ \E c \in Calls : /\ route[c] = "trying" /\ CallStep(c)
                        /\ UNCHANGED <<rvars, penalised, watching>>
    \/ \E p \in Providers : /\ ProviderStep(p)
                            /\ UNCHANGED <<rvars, penalised, watching>>
    \/ \E p \in Providers : PenaltyEnds(p) \/ HealthCheck(p)
    \/ Destroy

\* What the event loop and its timers owe a call: a command that is looked for
\* is found or not, an attempt does not outlast its timeout, a delay ends.
Fairness ==
    \A c \in Calls :
        /\ WF_vars(Routing(c))
        /\ WF_vars(/\ route[c] = "trying"
                   /\ Enter(c) \/ Checked(c) \/ Timeout(c) \/ Wake(c)
                   /\ UNCHANGED <<rvars, penalised, watching>>)

Spec == Init /\ [][Next]_vars /\ Fairness

-----------------------------------------------------------------------------
\* Properties.

\* Every call is answered or refused in the end, whatever processes do and
\* whenever commands vanish, breakers open or signals fire.
CallsEnd == \A c \in Calls : <>(route[c] \in {"answered", "failed"})
=============================================================================
