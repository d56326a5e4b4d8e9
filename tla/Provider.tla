------------------------------- MODULE Provider -------------------------------
(***************************************************************************)
(* BaseProvider.execute (src/providers/base-provider.ts) and the command   *)
(* line processes it starts (executeRealCLI, for instance in               *)
(* src/providers/claude-provider.ts): availability and its cache, retries, *)
(* timeouts, abort signals and the circuit breaker, for calls that use the *)
(* same providers at the same time.                                        *)
(*                                                                         *)
(* What the program does between two awaits is one step.  The two timers   *)
(* of an attempt, that of executeWithTimeout and that of executeRealCLI,   *)
(* are set to the same delay within a moment and fire as one step.  Rate   *)
(* limits are left out: nothing in src/ configures them, so                *)
(* waitForCapacity never waits.  A process that was told to stop is out of *)
(* sight: whatever it still answers is ignored.                            *)
(***************************************************************************)
EXTENDS Integers, FiniteSets

CONSTANTS
    Providers,
    Calls,          \* calls of Provider.execute
    Prompts,
    Prompt,         \* what a call asks
    Signalled,      \* calls whose request carries an abort signal
    MaxAttempts,    \* retryPolicy.maxAttempts
    Threshold       \* consecutive failures that open the circuit breaker

ASSUME ProviderAssumption ==
    /\ IsFiniteSet(Calls)
    /\ Prompt \in [Calls -> Prompts]
    /\ Signalled \subseteq Calls
    /\ MaxAttempts \in Nat \ {0}
    /\ Threshold \in Nat \ {0}

VARIABLES
    installed,   \* is the provider's command there?
    known,       \* availabilityCache: a fresh positive answer
    available,   \* health.available
    failures,    \* health.consecutiveFailures
    resets,      \* pending timers that close the circuit breaker again
    busy,        \* rateLimitState.concurrentRequests
    answers,     \* responseCache: prompts with a cached response
    phase,       \* what a call is at
    target,      \* the provider it was given
    attempt,     \* its attempt
    aborted,     \* calls whose signal has fired
    child        \* attempts whose process runs and has not been told to stop

environment == <<installed>>
caches == <<known, answers>>
breaker == <<available, failures, resets>>
call == <<phase, attempt, child>>
pvars == <<installed, known, available, failures, resets, busy, answers,
           phase, target, attempt, aborted, child>>

Attempts == 1..MaxAttempts
Phase == {"new", "checking", "calling", "sleeping", "returned", "threw"}

ProviderTypeOK ==
    /\ installed \in [Providers -> BOOLEAN]
    /\ known \in [Providers -> BOOLEAN]
    /\ available \in [Providers -> BOOLEAN]
    /\ failures \in [Providers -> Nat]
    /\ resets \in [Providers -> Nat]
    /\ busy \in [Providers -> Int]
    /\ answers \in [Providers -> SUBSET Prompts]
    /\ phase \in [Calls -> Phase]
    /\ target \in [Calls -> Providers]
    /\ attempt \in [Calls -> 0..MaxAttempts]
    /\ aborted \in SUBSET Signalled
    /\ child \in [Calls -> [Providers -> SUBSET Attempts]]

ProviderInit ==
    /\ installed \in [Providers -> BOOLEAN]
    /\ known = [p \in Providers |-> FALSE]
    /\ available = [p \in Providers |-> TRUE]
    /\ failures = [p \in Providers |-> 0]
    /\ resets = [p \in Providers |-> 0]
    /\ busy = [p \in Providers |-> 0]
    /\ answers = [p \in Providers |-> {}]
    /\ phase = [c \in Calls |-> "new"]
    /\ target \in [Calls -> Providers]
    /\ attempt = [c \in Calls |-> 0]
    /\ aborted = {}
    /\ child = [c \in Calls |-> [p \in Providers |-> {}]]

-----------------------------------------------------------------------------
\* A call of execute.

Now(c, where) == phase' = [phase EXCEPT ![c] = where]

\* One more attempt: a new process, watched by the request's signal unless
\* that has fired already, in which case nothing will ever tell it.
StartAttempt(c) ==
    /\ attempt' = [attempt EXCEPT ![c] = @ + 1]
    /\ child' = [child EXCEPT ![c][target[c]] = @ \cup {attempt[c] + 1}]
    /\ Now(c, "calling")

\* isAvailable said yes: a cached response, or the first attempt.
Proceed(c) ==
    LET p == target[c] IN
    IF Prompt[c] \in answers[p]
    THEN Now(c, "returned") /\ UNCHANGED <<busy, attempt, child>>
    ELSE /\ StartAttempt(c)
         /\ busy' = [busy EXCEPT ![p] = @ + 1]

\* isAvailable: the circuit breaker first, then the cached answer.
Enter(c) ==
    /\ phase[c] = "new"
    /\ LET p == target[c] IN
       IF ~available[p]
       THEN Now(c, "threw") /\ UNCHANGED <<busy, attempt, child>>
       ELSE IF known[p] THEN Proceed(c)
       ELSE Now(c, "checking") /\ UNCHANGED <<busy, attempt, child>>
    /\ UNCHANGED <<environment, caches, breaker, target, aborted>>

\* The command was looked for; only a positive answer is cached, and the
\* circuit breaker is not looked at again.
Checked(c) ==
    /\ phase[c] = "checking"
    /\ LET p == target[c] IN
       IF installed[p]
       THEN known' = [known EXCEPT ![p] = TRUE] /\ Proceed(c)
       ELSE Now(c, "threw") /\ UNCHANGED <<known, busy, attempt, child>>
    /\ UNCHANGED <<environment, answers, breaker, target, aborted>>

\* Mutant: failed attempts before it are not forgotten.
AnswerKeepingFailures(c) ==
    LET p == target[c] IN
    /\ phase[c] = "calling"
    /\ answers' = [answers EXCEPT ![p] = @ \cup {Prompt[c]}]
    /\ busy' = [busy EXCEPT ![p] = @ - 1]
    /\ child' = [child EXCEPT ![c][p] = @ \ {attempt[c]}]
    /\ Now(c, "returned")
    /\ UNCHANGED <<environment, known, breaker, target, attempt, aborted>>

\* The process ends well.
Answer(c) ==
    LET p == target[c] IN
    /\ phase[c] = "calling"
    /\ failures' = [failures EXCEPT ![p] = 0]
    /\ answers' = [answers EXCEPT ![p] = @ \cup {Prompt[c]}]
    /\ busy' = [busy EXCEPT ![p] = @ - 1]
    /\ child' = [child EXCEPT ![c][p] = @ \ {attempt[c]}]
    /\ Now(c, "returned")
    /\ UNCHANGED <<environment, known, available, resets, target, attempt, aborted>>

\* Mutant: an open breaker is not opened again, its timer not set.
TripOnce(p) ==
    IF failures'[p] >= Threshold
    THEN /\ available' = [available EXCEPT ![p] = FALSE]
         /\ resets' = [resets EXCEPT ![p] = IF failures'[p] = Threshold THEN @ + 1 ELSE @]
    ELSE UNCHANGED <<available, resets>>

\* updateHealthAfterFailure: a breaker that is open already is opened once
\* more, with a timer of its own.
Trip(p) ==
    IF failures'[p] >= Threshold
    THEN /\ available' = [available EXCEPT ![p] = FALSE]
         /\ resets' = [resets EXCEPT ![p] = @ + 1]
    ELSE UNCHANGED <<available, resets>>

\* The catch block: sleep and try again, or give up.  The place of the call
\* is kept during the sleep.
AttemptFailed(c, retryable) ==
    LET p == target[c] IN
    /\ failures' = [failures EXCEPT ![p] = @ + 1]
    /\ IF retryable /\ attempt[c] < MaxAttempts
       THEN Now(c, "sleeping") /\ UNCHANGED <<busy, available, resets>>
       ELSE /\ Now(c, "threw")
            /\ busy' = [busy EXCEPT ![p] = @ - 1]
            /\ Trip(p)

\* What shouldRetry may say of an error: it searches its text for patterns.
Verdicts == BOOLEAN

\* The process ends badly.
Fail(c) ==
    /\ phase[c] = "calling"
    /\ \E retryable \in Verdicts : AttemptFailed(c, retryable)
    /\ child' = [child EXCEPT ![c][target[c]] = @ \ {attempt[c]}]
    /\ UNCHANGED <<environment, caches, target, attempt, aborted>>

\* The process takes too long: it is signalled and the attempt has failed, with
\* an error that is retried.
Timeout(c) ==
    /\ phase[c] = "calling"
    /\ AttemptFailed(c, TRUE)
    /\ child' = [child EXCEPT ![c][target[c]] = @ \ {attempt[c]}]
    /\ UNCHANGED <<environment, caches, target, attempt, aborted>>

\* Mutant: the attempt ends, its process goes on.
AbortAttemptOnly(c) ==
    /\ c \in Signalled \ aborted
    /\ phase[c] \notin {"returned", "threw"}
    /\ aborted' = aborted \cup {c}
    /\ IF phase[c] = "calling"
       THEN AttemptFailed(c, TRUE)
       ELSE UNCHANGED <<breaker, busy, phase>>
    /\ UNCHANGED <<environment, caches, target, attempt, child>>

\* The request's signal fires.  The attempt that is running fails like one
\* that timed out, "Execution aborted by timeout", and is retried like it.
Abort(c) ==
    /\ c \in Signalled \ aborted
    /\ phase[c] \notin {"returned", "threw"}
    /\ aborted' = aborted \cup {c}
    /\ IF phase[c] = "calling"
       THEN /\ AttemptFailed(c, TRUE)
            /\ child' = [child EXCEPT ![c][target[c]] = @ \ {attempt[c]}]
       ELSE UNCHANGED <<breaker, busy, phase, child>>
    /\ UNCHANGED <<environment, caches, target, attempt>>

\* Mutant: an aborted call is left asleep.
WakeUnlessAborted(c) ==
    /\ phase[c] = "sleeping" /\ c \notin aborted
    /\ StartAttempt(c)
    /\ UNCHANGED <<environment, caches, breaker, busy, target, aborted>>

\* The delay is over.  Nobody looks at the signal.
Wake(c) ==
    /\ phase[c] = "sleeping"
    /\ StartAttempt(c)
    /\ UNCHANGED <<environment, caches, breaker, busy, target, aborted>>

CallStep(c) ==
    Enter(c) \/ Checked(c) \/ Answer(c) \/ Fail(c) \/ Timeout(c) \/ Abort(c) \/ Wake(c)

-----------------------------------------------------------------------------
\* A provider and its surroundings.

\* The timer of a trip: it closes the breaker, whatever happened meanwhile.
Reset(p) ==
    /\ resets[p] > 0
    /\ resets' = [resets EXCEPT ![p] = @ - 1]
    /\ available' = [available EXCEPT ![p] = TRUE]
    /\ failures' = [failures EXCEPT ![p] = 0]
    /\ UNCHANGED <<environment, caches, busy, call, target, aborted>>

\* The availability cache grows old.
Expire(p) ==
    /\ known[p]
    /\ known' = [known EXCEPT ![p] = FALSE]
    /\ UNCHANGED <<environment, answers, breaker, busy, call, target, aborted>>

\* A cached response grows old or makes room.
Forget(p) ==
    /\ \E q \in answers[p] : answers' = [answers EXCEPT ![p] = @ \ {q}]
    /\ UNCHANGED <<environment, known, breaker, busy, call, target, aborted>>

\* The command is installed or removed.
Install(p) ==
    /\ installed' = [installed EXCEPT ![p] = ~@]
    /\ UNCHANGED <<caches, breaker, busy, call, target, aborted>>

ProviderStep(p) == Reset(p) \/ Expire(p) \/ Forget(p) \/ Install(p)

ProviderNext ==
    \/ \E c \in Calls : CallStep(c)
    \/ \E p \in Providers : ProviderStep(p)

ProviderSpec == ProviderInit /\ [][ProviderNext]_pvars

-----------------------------------------------------------------------------
\* Properties.

InUse(p) == {c \in Calls : target[c] = p /\ phase[c] \in {"calling", "sleeping"}}

\* The count of concurrent requests is the number of calls that are at an
\* attempt or asleep between two, however they end: a place lost for good
\* would in the end keep every caller out.
PlacesGivenBack == \A p \in Providers : busy[p] = Cardinality(InUse(p))

\* Every opening of the circuit breaker has a timer that will close it, also
\* when calls that were under way fail while it is open.
BreakerHasTimer == \A p \in Providers : ~available[p] => resets[p] > 0

\* A provider with as many consecutive failures as the breaker allows is
\* either cut off or in use by a call whose end decides.
FailingIsCutOff ==
    \A p \in Providers : failures[p] >= Threshold => ~available[p] \/ InUse(p) # {}

\* A process nobody has told to stop belongs to the attempt a call is waiting
\* for: retries, timeouts and aborts leave no other behind.
NoProcessLeftRunning ==
    \A c \in Calls, p \in Providers :
        child[c][p] = IF phase[c] = "calling" /\ target[c] = p
                      THEN {attempt[c]} ELSE {}
=============================================================================
