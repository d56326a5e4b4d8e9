----------------------------- MODULE RouterProofs -----------------------------
(***************************************************************************)
(* Invariants of Provider and Router, for any number of providers and      *)
(* calls, any retry policy and any threshold of the circuit breaker, and   *)
(* of ResponseCache, the cache a router can be given, for any number of    *)
(* processes, keys and responses.                                          *)
(***************************************************************************)
EXTENDS Router, ResponseCache, SequenceTheorems, FiniteSetTheorems, TLAPS

\* A call that has not been given a provider does nothing.
Waiting == \A c \in Calls : route[c] \in {"new", "listing"} => phase[c] = "new"

\* An attempt is made only while there is one left.
Counting ==
    \A c \in Calls : /\ phase[c] \in {"new", "checking"} => attempt[c] = 0
                     /\ phase[c] = "sleeping" => attempt[c] < MaxAttempts

IInv ==
    /\ TypeOK
    /\ Waiting
    /\ Counting
    /\ PlacesGivenBack
    /\ BreakerHasTimer
    /\ FailingIsCutOff
    /\ NoProcessLeftRunning

-----------------------------------------------------------------------------
\* Places.

\* The calls at a provider are finitely many.
LEMMA InUseFinite ==
    ASSUME NEW p \in Providers
    PROVE  IsFiniteSet(InUse(p)) /\ InUse(p) \subseteq Calls
BY ProviderAssumption, FS_Subset DEF InUse

\* A call that takes a place: one more.
LEMMA PlaceTaken ==
    ASSUME NEW S, IsFiniteSet(S), NEW c, c \notin S
    PROVE  Cardinality(S \cup {c}) = Cardinality(S) + 1
BY FS_AddElement

\* A call that gives its place back: one less.
LEMMA PlaceReturned ==
    ASSUME NEW S, IsFiniteSet(S), NEW c \in S
    PROVE  Cardinality(S \ {c}) = Cardinality(S) - 1
BY FS_RemoveElement

-----------------------------------------------------------------------------
\* Types.

\* Giving a call the next provider keeps the types.
LEMMA GiveType ==
    ASSUME TypeOK, NEW c \in Calls, NEW P \in SUBSET Providers, Give(c, P)
    PROVE  /\ route' \in [Calls -> {"new", "listing", "trying", "answered", "failed"}]
           /\ target' \in [Calls -> Providers]
           /\ phase' \in [Calls -> Phase]
           /\ attempt' \in [Calls -> 0..MaxAttempts]
           /\ left' \in [Calls -> SUBSET Providers]
<1>1. CASE P = {}
  BY <1>1 DEF Give, Goes, TypeOK, ProviderTypeOK
<1>2. CASE P # {}
  <2>1. PICK p \in P :
          /\ Goes(c, "trying")
          /\ target' = [target EXCEPT ![c] = p]
          /\ left' = [left EXCEPT ![c] = IF c \in Direct THEN {} ELSE P \ {p}]
          /\ phase' = [phase EXCEPT ![c] = "new"]
          /\ attempt' = [attempt EXCEPT ![c] = 0]
    BY <1>2 DEF Give
  <2> QED
    BY <2>1, ProviderAssumption DEF Goes, TypeOK, ProviderTypeOK, Phase
<1> QED
  BY <1>1, <1>2

\* A step of a call inside its provider keeps the types and the count of
\* attempts.
LEMMA CallType ==
    ASSUME TypeOK, Counting, NEW c \in Calls, CallStep(c)
    PROVE  ProviderTypeOK' /\ Counting'
<1> USE ProviderAssumption DEF TypeOK, ProviderTypeOK, Counting, Phase, Attempts, Now,
        environment, caches, breaker
<1>1. CASE Enter(c)
  <2>1. CASE UNCHANGED <<busy, attempt, child>>
    BY <1>1, <2>1, ZenonT(40) DEF Enter, Proceed, StartAttempt
  <2>2. CASE StartAttempt(c) /\ busy' = [busy EXCEPT ![target[c]] = @ + 1]
    BY <1>1, <2>2 DEF Enter, StartAttempt
  <2> QED
    BY <1>1, <2>1, <2>2 DEF Enter, Proceed
<1>2. CASE Checked(c)
  <2>1. CASE UNCHANGED <<busy, attempt, child>>
    BY <1>2, <2>1, ZenonT(40) DEF Checked, Proceed, StartAttempt
  <2>2. CASE StartAttempt(c) /\ busy' = [busy EXCEPT ![target[c]] = @ + 1]
    <3>1. known' \in [Providers -> BOOLEAN]
      BY <1>2 DEF Checked
    <3> QED
      BY <1>2, <2>2, <3>1 DEF Checked, StartAttempt
  <2> QED
    BY <1>2, <2>1, <2>2 DEF Checked, Proceed
<1>3. CASE Answer(c)
  BY <1>3 DEF Answer
<1>4. ASSUME NEW retryable \in BOOLEAN, AttemptFailed(c, retryable), UNCHANGED attempt
      PROVE  /\ phase' \in [Calls -> Phase]
             /\ busy' \in [Providers -> Int]
             /\ failures' \in [Providers -> Nat]
             /\ available' \in [Providers -> BOOLEAN]
             /\ resets' \in [Providers -> Nat]
             /\ Counting'
  <2>1. CASE retryable /\ attempt[c] < MaxAttempts
    <3>1. /\ phase' = [phase EXCEPT ![c] = "sleeping"]
          /\ failures' = [failures EXCEPT ![target[c]] = @ + 1]
          /\ UNCHANGED <<busy, available, resets>>
      BY <1>4, <2>1 DEF AttemptFailed
    <3>2. Counting'
      BY <1>4, <2>1, <3>1
    <3> QED
      BY <3>1, <3>2
  <2>2. CASE ~(retryable /\ attempt[c] < MaxAttempts)
    <3>1. Trip(target[c]) /\ failures' \in [Providers -> Nat]
      BY <1>4, <2>2 DEF AttemptFailed
    <3>2. available' \in [Providers -> BOOLEAN] /\ resets' \in [Providers -> Nat]
      <4>1. CASE failures'[target[c]] >= Threshold
        <5>1. /\ available' = [available EXCEPT ![target[c]] = FALSE]
              /\ resets' = [resets EXCEPT ![target[c]] = @ + 1]
          BY <3>1, <4>1 DEF Trip
        <5> QED
          BY <5>1
      <4>2. CASE ~(failures'[target[c]] >= Threshold)
        BY <3>1, <4>2 DEF Trip
      <4> QED
        BY <4>1, <4>2
    <3>3. /\ phase' = [phase EXCEPT ![c] = "threw"]
          /\ busy' = [busy EXCEPT ![target[c]] = @ - 1]
      BY <1>4, <2>2 DEF AttemptFailed
    <3>4. Counting'
      BY <1>4, <3>3
    <3> QED
      BY <3>1, <3>2, <3>3, <3>4
  <2> QED
    BY <2>1, <2>2
<1>5. ASSUME child' = [child EXCEPT ![c][target[c]] = @ \ {attempt[c]}]
      PROVE  child' \in [Calls -> [Providers -> SUBSET Attempts]]
  BY <1>5
<1>6. CASE Fail(c) \/ Timeout(c)
  <2>1. PICK retryable \in BOOLEAN : AttemptFailed(c, retryable)
    BY <1>6 DEF Fail, Timeout, Verdicts
  <2> QED
    BY <1>4, <1>5, <1>6, <2>1 DEF Fail, Timeout
<1>7. CASE Abort(c)
  <2>1. CASE phase[c] = "calling"
    <3>1. AttemptFailed(c, TRUE) /\ TRUE \in BOOLEAN /\ UNCHANGED attempt
      BY <1>7, <2>1 DEF Abort
    <3>2. Counting' /\ child' \in [Calls -> [Providers -> SUBSET Attempts]]
      BY <1>4, <1>5, <1>7, <2>1, <3>1 DEF Abort
    <3> QED
      BY <1>4, <1>7, <2>1, <3>1, <3>2 DEF Abort
  <2>2. CASE phase[c] # "calling"
    BY <1>7, <2>2 DEF Abort
  <2> QED
    BY <2>1, <2>2
<1>8. CASE Wake(c)
  BY <1>8 DEF Wake, StartAttempt
<1> QED
  BY <1>1, <1>2, <1>3, <1>6, <1>7, <1>8 DEF CallStep

\* Every step keeps types, waiting calls and counts.
LEMMA TypeStep ==
    ASSUME TypeOK, Waiting, Counting, [Next]_vars
    PROVE  TypeOK' /\ Waiting' /\ Counting'
<1>1. ASSUME NEW c \in Calls, route[c] = "trying", CallStep(c),
             UNCHANGED <<rvars, penalised, watching>>
      PROVE  TypeOK' /\ Waiting' /\ Counting'
  <2>1. ProviderTypeOK' /\ Counting'
    BY <1>1, CallType
  <2>2. \E where : phase' = [phase EXCEPT ![c] = where] \/ phase' = phase
    BY <1>1 DEF CallStep, Enter, Checked, Proceed, StartAttempt, Answer, Fail, Timeout, Abort,
         Wake, AttemptFailed, Now
  <2> QED
    BY <1>1, <2>1, <2>2 DEF TypeOK, ProviderTypeOK, Waiting, rvars
<1>2. ASSUME NEW c \in Calls, Routing(c)
      PROVE  TypeOK' /\ Waiting' /\ Counting'
  <2> USE DEF environment, caches, breaker, pvars, TypeOK, ProviderTypeOK
  <2>1. ASSUME NEW P \in SUBSET Providers, Give(c, P), child' = child,
               route[c] \in {"new", "listing"} => phase[c] = "new"
        PROVE  Waiting' /\ Counting'
    <3>1. CASE P = {}
      BY <2>1, <3>1 DEF Give, Goes, Waiting, Counting
    <3>2. CASE P # {}
      BY <2>1, <3>2, ProviderAssumption DEF Give, Goes, Waiting, Counting
    <3> QED
      BY <3>1, <3>2
  <2>2. CASE Route(c)
    <3>1. Candidates \in SUBSET Providers
      BY DEF Candidates
    <3>2. CASE {p \in Candidates : ~known[p]} = {}
      BY <2>1, <2>2, <3>1, <3>2, GiveType DEF Route, Waiting
    <3>3. CASE {p \in Candidates : ~known[p]} # {}
      <4> DEFINE asked == {p \in Candidates : ~known[p]}
      <4>1. /\ sure' = [sure EXCEPT ![c] = Candidates \ asked]
            /\ unsure' = [unsure EXCEPT ![c] = asked]
            /\ route' = [route EXCEPT ![c] = "listing"]
            /\ UNCHANGED <<target, phase, attempt, left>>
        BY <2>2, <3>3 DEF Route, Goes
      <4>2. asked \in SUBSET Providers /\ Candidates \ asked \in SUBSET Providers
        BY <3>1
      <4> HIDE DEF asked
      <4>3. TypeOK'
        BY <2>2, <4>1, <4>2 DEF Route
      <4> QED
        BY <2>2, <4>1, <4>3 DEF Route, Waiting, Counting
    <3> QED
      BY <3>2, <3>3
  <2>3. CASE Listed(c)
    <3> DEFINE P == sure[c] \cup {p \in unsure[c] : installed[p]}
    <3>1. P \in SUBSET Providers /\ Give(c, P)
      BY <2>3 DEF Listed
    <3> HIDE DEF P
    <3> QED
      BY <2>1, <2>3, <3>1, GiveType DEF Listed, Waiting
  <2>4. CASE Answered(c)
    BY <2>4 DEF Answered, Goes, Waiting, Counting
  <2>5. CASE Refused(c)
    <3> DEFINE P == IF Fallback THEN left[c] ELSE {}
    <3>1. P \in SUBSET Providers /\ Give(c, P)
      BY <2>5 DEF Refused
    <3> HIDE DEF P
    <3> QED
      BY <2>1, <2>5, <3>1, GiveType DEF Refused, Waiting
  <2> QED
    BY <1>2, <2>2, <2>3, <2>4, <2>5 DEF Routing
<1>3. ASSUME NEW p \in Providers, ProviderStep(p), UNCHANGED <<rvars, penalised, watching>>
      PROVE  TypeOK' /\ Waiting' /\ Counting'
  <2> USE DEF environment, caches, breaker, call, rvars, TypeOK, ProviderTypeOK, Waiting, Counting
  <2>1. CASE Reset(p)
    BY <1>3, <2>1 DEF Reset
  <2>2. CASE Expire(p)
    BY <1>3, <2>2 DEF Expire
  <2>3. CASE Forget(p)
    BY <1>3, <2>3 DEF Forget
  <2>4. CASE Install(p)
    BY <1>3, <2>4 DEF Install
  <2> QED
    BY <1>3, <2>1, <2>2, <2>3, <2>4 DEF ProviderStep
<1>4. ASSUME NEW p \in Providers, PenaltyEnds(p) \/ HealthCheck(p)
      PROVE  TypeOK' /\ Waiting' /\ Counting'
  BY <1>4 DEF PenaltyEnds, HealthCheck, environment, breaker, call, rvars, pvars, TypeOK,
     ProviderTypeOK, Waiting, Counting
<1>5. CASE Destroy
  BY <1>5 DEF Destroy, pvars, rvars, TypeOK, ProviderTypeOK, Waiting, Counting
<1>6. CASE UNCHANGED vars
  BY <1>6 DEF vars, pvars, rvars, TypeOK, ProviderTypeOK, Waiting, Counting
<1> QED
  BY <1>1, <1>2, <1>3, <1>4, <1>5, <1>6 DEF Next

-----------------------------------------------------------------------------
\* What a step of a call may do.

InPlace(w) == w \in {"calling", "sleeping"}

\* A call goes on to w: its place, its process and its provider's breaker.
Effect(c, w) ==
    LET p == target[c] IN
    /\ phase' = [phase EXCEPT ![c] = w]
    /\ UNCHANGED target
    /\ busy' = IF InPlace(w) = InPlace(phase[c]) THEN busy
               ELSE [busy EXCEPT ![p] = IF InPlace(w) THEN @ + 1 ELSE @ - 1]
    /\ \/ /\ w = "calling" <=> phase[c] = "calling"
          /\ UNCHANGED <<attempt, child>>
       \/ /\ w = "calling" /\ phase[c] # "calling"
          /\ attempt' = [attempt EXCEPT ![c] = @ + 1]
          /\ child' = [child EXCEPT ![c][p] = @ \cup {attempt[c] + 1}]
       \/ /\ w # "calling" /\ phase[c] = "calling"
          /\ UNCHANGED attempt
          /\ child' = [child EXCEPT ![c][p] = @ \ {attempt[c]}]
    /\ \/ /\ InPlace(phase[c]) => InPlace(w)
          /\ UNCHANGED breaker
       \/ /\ failures' = [failures EXCEPT ![p] = 0]
          /\ UNCHANGED <<available, resets>>
       \/ /\ failures' = [failures EXCEPT ![p] = @ + 1]
          /\ w = "sleeping"
          /\ UNCHANGED <<available, resets>>
       \/ /\ failures' = [failures EXCEPT ![p] = @ + 1]
          /\ Trip(p)

LEMMA CallEffect ==
    ASSUME TypeOK, NEW c \in Calls, CallStep(c)
    PROVE  \E w \in Phase : Effect(c, w)
<1> USE DEF TypeOK, ProviderTypeOK, Now, environment, caches, breaker, InPlace
<1>0. phase = [phase EXCEPT ![c] = phase[c]] /\ phase[c] \in Phase /\ target[c] \in Providers
  OBVIOUS
<1>2. ASSUME phase[c] \in {"new", "checking"}, Proceed(c), UNCHANGED <<breaker, target>>
      PROVE  \E w \in Phase : Effect(c, w)
  <2>1. CASE Now(c, "returned") /\ UNCHANGED <<busy, attempt, child>>
    <3>1. Effect(c, "returned")
      BY <1>0, <1>2, <2>1 DEF Effect
    <3> QED
      BY <3>1 DEF Phase
  <2>2. CASE StartAttempt(c) /\ busy' = [busy EXCEPT ![target[c]] = @ + 1]
    <3>1. Effect(c, "calling")
      BY <1>0, <1>2, <2>2 DEF Effect, StartAttempt
    <3> QED
      BY <3>1 DEF Phase
  <2> QED
    BY <1>2, <2>1, <2>2 DEF Proceed
<1>3. ASSUME NEW w \in {"threw", "checking"}, phase[c] \in {"new", "checking"}, Now(c, w),
             UNCHANGED <<busy, attempt, child, breaker, target>>
      PROVE  \E v \in Phase : Effect(c, v)
  <2>1. Effect(c, w)
    BY <1>0, <1>3 DEF Effect
  <2> QED
    BY <1>3, <2>1 DEF Phase
<1>4. CASE Enter(c) \/ Checked(c)
  <2>1. UNCHANGED <<breaker, target>> /\ phase[c] \in {"new", "checking"}
    BY <1>4 DEF Enter, Checked
  <2>2. \/ Proceed(c)
        \/ \E w \in {"threw", "checking"} : Now(c, w) /\ UNCHANGED <<busy, attempt, child>>
    BY <1>4 DEF Enter, Checked
  <2> QED
    BY <1>2, <1>3, <2>1, <2>2
<1>5. CASE Answer(c)
  <2>1. Effect(c, "returned")
    BY <1>0, <1>5 DEF Answer, Effect
  <2> QED
    BY <2>1 DEF Phase
<1>6. ASSUME NEW retryable \in BOOLEAN, phase[c] = "calling", AttemptFailed(c, retryable),
             child' = [child EXCEPT ![c][target[c]] = @ \ {attempt[c]}],
             UNCHANGED <<attempt, target>>
      PROVE  \E w \in Phase : Effect(c, w)
  <2>1. CASE retryable /\ attempt[c] < MaxAttempts
    <3>1. Effect(c, "sleeping")
      BY <1>0, <1>6, <2>1 DEF AttemptFailed, Effect
    <3> QED
      BY <3>1 DEF Phase
  <2>2. CASE ~(retryable /\ attempt[c] < MaxAttempts)
    <3>1. /\ Now(c, "threw") /\ Trip(target[c])
          /\ failures' = [failures EXCEPT ![target[c]] = @ + 1]
          /\ busy' = [busy EXCEPT ![target[c]] = @ - 1]
      BY <1>6, <2>2 DEF AttemptFailed
    <3>2. Effect(c, "threw")
      BY <1>0, <1>6, <3>1 DEF Effect
    <3> QED
      BY <3>2 DEF Phase
  <2> QED
    BY <2>1, <2>2
<1>7. CASE Fail(c) \/ Timeout(c)
  <2>1. PICK retryable \in BOOLEAN : AttemptFailed(c, retryable)
    BY <1>7 DEF Fail, Timeout, Verdicts
  <2> QED
    BY <1>6, <1>7, <2>1 DEF Fail, Timeout
<1>8. CASE Abort(c)
  <2>1. CASE phase[c] = "calling"
    <3>1. AttemptFailed(c, TRUE) /\ TRUE \in BOOLEAN
      BY <1>8, <2>1 DEF Abort
    <3> QED
      BY <1>6, <1>8, <2>1, <3>1 DEF Abort
  <2>2. CASE phase[c] # "calling"
    <3>1. UNCHANGED <<breaker, busy, phase, child, target, attempt>>
      BY <1>8, <2>2 DEF Abort
    <3>2. Effect(c, phase[c])
      BY <1>0, <3>1 DEF Effect
    <3> QED
      BY <1>0, <3>2
  <2> QED
    BY <2>1, <2>2
<1>9. CASE Wake(c)
  <2>1. Effect(c, "calling")
    BY <1>0, <1>9 DEF Wake, StartAttempt, Effect
  <2> QED
    BY <2>1 DEF Phase
<1> QED
  BY <1>4, <1>5, <1>7, <1>8, <1>9 DEF CallStep

\* An idle call is given a provider.
Assigned(c, p) ==
    /\ phase[c] \notin {"calling", "sleeping"}
    /\ target' = [target EXCEPT ![c] = p]
    /\ phase' = [phase EXCEPT ![c] = "new"]
    /\ attempt' = [attempt EXCEPT ![c] = 0]
    /\ UNCHANGED <<busy, breaker, child>>

\* A timer closes a provider's breaker.
Closed(p) ==
    /\ resets[p] > 0
    /\ resets' = [resets EXCEPT ![p] = @ - 1]
    /\ available' = [available EXCEPT ![p] = TRUE]
    /\ failures' = [failures EXCEPT ![p] = 0]
    /\ UNCHANGED <<busy, call, target>>

Quiet == UNCHANGED <<busy, breaker, call, target>>

\* Whatever happens is one of these, for places, processes and breakers.
LEMMA StepKinds ==
    ASSUME TypeOK, Waiting, [Next]_vars
    PROVE  \/ \E c \in Calls, w \in Phase : Effect(c, w)
           \/ \E c \in Calls, p \in Providers : Assigned(c, p)
           \/ \E p \in Providers : Closed(p)
           \/ Quiet
<1> USE DEF breaker, call, Quiet
<1>1. ASSUME NEW c \in Calls, CallStep(c)
      PROVE  \E w \in Phase : Effect(c, w)
  BY <1>1, CallEffect
<1>2. ASSUME NEW c \in Calls, Routing(c)
      PROVE  Quiet \/ \E p \in Providers : Assigned(c, p)
  <2>1. ASSUME NEW P \in SUBSET Providers, Give(c, P), UNCHANGED <<busy, breaker, child>>,
               phase[c] \notin {"calling", "sleeping"}
        PROVE  Quiet \/ \E p \in Providers : Assigned(c, p)
    <3>1. CASE P = {}
      BY <2>1, <3>1 DEF Give
    <3>2. CASE P # {}
      BY <2>1, <3>2 DEF Give, Assigned
    <3> QED
      BY <3>1, <3>2
  <2>2. CASE Route(c)
    <3>1. Candidates \in SUBSET Providers /\ phase[c] = "new"
      BY <2>2 DEF Candidates, Route, Waiting
    <3>2. UNCHANGED <<busy, breaker, child>>
      BY <2>2 DEF Route
    <3>3. Give(c, Candidates) \/ UNCHANGED <<target, phase, attempt, left>>
      BY <2>2 DEF Route
    <3> QED
      BY <2>1, <3>1, <3>2, <3>3
  <2>3. CASE Listed(c)
    <3> DEFINE P == sure[c] \cup {p \in unsure[c] : installed[p]}
    <3>1. P \in SUBSET Providers /\ Give(c, P) /\ phase[c] = "new"
      BY <2>3 DEF Listed, TypeOK, Waiting
    <3>2. UNCHANGED <<busy, breaker, child>>
      BY <2>3 DEF Listed
    <3> HIDE DEF P
    <3> QED
      BY <2>1, <3>1, <3>2
  <2>4. CASE Answered(c)
    BY <2>4 DEF Answered, pvars
  <2>5. CASE Refused(c)
    <3> DEFINE P == IF Fallback THEN left[c] ELSE {}
    <3>1. P \in SUBSET Providers /\ Give(c, P) /\ phase[c] = "threw"
      BY <2>5 DEF Refused, TypeOK
    <3>2. UNCHANGED <<busy, breaker, child>>
      BY <2>5 DEF Refused
    <3> HIDE DEF P
    <3> QED
      BY <2>1, <3>1, <3>2
  <2> QED
    BY <1>2, <2>2, <2>3, <2>4, <2>5 DEF Routing
<1>3. ASSUME NEW p \in Providers, ProviderStep(p)
      PROVE  Quiet \/ Closed(p)
  BY <1>3 DEF ProviderStep, Reset, Expire, Forget, Install, Closed
<1>4. ASSUME NEW p \in Providers, PenaltyEnds(p) \/ HealthCheck(p)
      PROVE  Quiet
  BY <1>4 DEF PenaltyEnds, HealthCheck, pvars
<1>5. CASE Destroy \/ UNCHANGED vars
  BY <1>5 DEF Destroy, vars, pvars
<1> QED
  BY <1>1, <1>2, <1>3, <1>4, <1>5 DEF Next

-----------------------------------------------------------------------------
\* The invariants, one by one.

LEMMA ProcessStep ==
    ASSUME TypeOK, NoProcessLeftRunning,
           \/ \E c \in Calls, w \in Phase : Effect(c, w)
           \/ \E c \in Calls, p \in Providers : Assigned(c, p)
           \/ \E p \in Providers : Closed(p)
           \/ Quiet
    PROVE  NoProcessLeftRunning'
<1> USE DEF NoProcessLeftRunning, TypeOK, ProviderTypeOK, call
<1>1. ASSUME NEW c \in Calls, NEW w \in Phase, Effect(c, w)
      PROVE  NoProcessLeftRunning'
  <2>1. CASE (w = "calling" <=> phase[c] = "calling") /\ UNCHANGED <<attempt, child>>
    BY <1>1, <2>1 DEF Effect
  <2>2. CASE /\ w = "calling" /\ phase[c] # "calling"
             /\ attempt' = [attempt EXCEPT ![c] = @ + 1]
             /\ child' = [child EXCEPT ![c][target[c]] = @ \cup {attempt[c] + 1}]
    BY <1>1, <2>2 DEF Effect
  <2>3. CASE /\ w # "calling" /\ phase[c] = "calling"
             /\ UNCHANGED attempt
             /\ child' = [child EXCEPT ![c][target[c]] = @ \ {attempt[c]}]
    BY <1>1, <2>3 DEF Effect
  <2> QED
    BY <1>1, <2>1, <2>2, <2>3 DEF Effect
<1>2. ASSUME NEW c \in Calls, NEW p \in Providers, Assigned(c, p)
      PROVE  NoProcessLeftRunning'
  BY <1>2 DEF Assigned
<1>3. CASE Quiet \/ \E p \in Providers : Closed(p)
  BY <1>3 DEF Quiet, Closed
<1> QED
  BY <1>1, <1>2, <1>3

\* The calls in use of a provider after a call has gone on.
LEMMA InUseAfter ==
    ASSUME TypeOK, NEW c \in Calls, NEW w \in Phase, Effect(c, w), NEW p \in Providers
    PROVE  InUse(p)' = IF target[c] # p THEN InUse(p)
                       ELSE IF InPlace(w) THEN InUse(p) \cup {c} ELSE InUse(p) \ {c}
BY DEF InUse, TypeOK, ProviderTypeOK, Effect, InPlace

LEMMA InUseOtherwise ==
    ASSUME TypeOK, NEW q \in Providers,
           \/ \E c \in Calls, p \in Providers : Assigned(c, p)
           \/ \E p \in Providers : Closed(p)
           \/ Quiet
    PROVE  InUse(q)' = InUse(q)
BY DEF InUse, TypeOK, ProviderTypeOK, Assigned, Closed, Quiet, call

LEMMA PlacesStep ==
    ASSUME TypeOK, PlacesGivenBack,
           \/ \E c \in Calls, w \in Phase : Effect(c, w)
           \/ \E c \in Calls, p \in Providers : Assigned(c, p)
           \/ \E p \in Providers : Closed(p)
           \/ Quiet
    PROVE  PlacesGivenBack'
<1>1. ASSUME NEW c \in Calls, NEW w \in Phase, Effect(c, w), NEW p \in Providers
      PROVE  busy'[p] = Cardinality(InUse(p)')
  <2>1. busy \in [Providers -> Int] /\ busy[p] = Cardinality(InUse(p)) /\ target[c] \in Providers
    BY DEF PlacesGivenBack, TypeOK, ProviderTypeOK
  <2>2. CASE target[c] # p
    BY <1>1, <2>1, <2>2, InUseAfter DEF Effect
  <2>3. CASE target[c] = p /\ InPlace(w) = InPlace(phase[c])
    <3>1. c \in InUse(p) <=> InPlace(w)
      BY <2>3 DEF InUse, InPlace
    <3>2. InUse(p)' = InUse(p)
      BY <1>1, <2>3, <3>1, InUseAfter
    <3> QED
      BY <1>1, <2>1, <2>3, <3>2 DEF Effect
  <2>4. CASE target[c] = p /\ InPlace(w) /\ ~InPlace(phase[c])
    <3>1. c \notin InUse(p) /\ InUse(p)' = InUse(p) \cup {c}
      BY <1>1, <2>4, InUseAfter DEF InUse, InPlace
    <3> QED
      BY <1>1, <2>1, <2>4, <3>1, InUseFinite, PlaceTaken, ZenonT(40) DEF Effect
  <2>5. CASE target[c] = p /\ ~InPlace(w) /\ InPlace(phase[c])
    <3>1. c \in InUse(p) /\ InUse(p)' = InUse(p) \ {c}
      BY <1>1, <2>5, InUseAfter DEF InUse, InPlace
    <3> QED
      BY <1>1, <2>1, <2>5, <3>1, InUseFinite, PlaceReturned, ZenonT(40) DEF Effect
  <2> QED
    BY <2>2, <2>3, <2>4, <2>5 DEF InPlace
<1>2. ASSUME \/ \E c \in Calls, p \in Providers : Assigned(c, p)
             \/ \E p \in Providers : Closed(p)
             \/ Quiet,
             NEW q \in Providers
      PROVE  busy'[q] = Cardinality(InUse(q)')
  <2>1. UNCHANGED busy /\ InUse(q)' = InUse(q)
    BY <1>2, InUseOtherwise DEF Assigned, Closed, Quiet
  <2> QED
    BY <2>1 DEF PlacesGivenBack
<1> QED
  BY <1>1, <1>2 DEF PlacesGivenBack

LEMMA BreakerStep ==
    ASSUME TypeOK, BreakerHasTimer,
           \/ \E c \in Calls, w \in Phase : Effect(c, w)
           \/ \E c \in Calls, p \in Providers : Assigned(c, p)
           \/ \E p \in Providers : Closed(p)
           \/ Quiet
    PROVE  BreakerHasTimer'
<1> USE DEF BreakerHasTimer, TypeOK, ProviderTypeOK, breaker
<1>1. ASSUME NEW c \in Calls, NEW w \in Phase, Effect(c, w)
      PROVE  BreakerHasTimer'
  <2>1. CASE UNCHANGED <<available, resets>>
    BY <2>1
  <2>2. CASE /\ available' = [available EXCEPT ![target[c]] = FALSE]
             /\ resets' = [resets EXCEPT ![target[c]] = @ + 1]
    <3>1. ASSUME NEW q \in Providers, q # target[c]
          PROVE  available'[q] = available[q] /\ resets'[q] = resets[q]
      BY <2>2, <3>1
    <3>2. target[c] \in Providers /\ resets'[target[c]] > 0
      BY <2>2
    <3> QED
      BY <3>1, <3>2
  <2> QED
    BY <1>1, <2>1, <2>2 DEF Effect, Trip
<1>2. ASSUME NEW p \in Providers, Closed(p)
      PROVE  BreakerHasTimer'
  BY <1>2 DEF Closed
<1>3. CASE Quiet \/ \E c \in Calls, p \in Providers : Assigned(c, p)
  BY <1>3 DEF Quiet, Assigned
<1> QED
  BY <1>1, <1>2, <1>3

LEMMA CutOffStep ==
    ASSUME TypeOK, FailingIsCutOff,
           \/ \E c \in Calls, w \in Phase : Effect(c, w)
           \/ \E c \in Calls, p \in Providers : Assigned(c, p)
           \/ \E p \in Providers : Closed(p)
           \/ Quiet
    PROVE  FailingIsCutOff'
<1>1. ASSUME NEW c \in Calls, NEW w \in Phase, Effect(c, w), NEW p \in Providers,
             failures'[p] >= Threshold
      PROVE  ~available'[p] \/ InUse(p)' # {}
  <2> USE DEF TypeOK, ProviderTypeOK, breaker
  <2>1. CASE target[c] # p
    <3>1. failures'[p] = failures[p] /\ available'[p] = available[p]
      BY <1>1, <2>1 DEF Effect, Trip
    <3> QED
      BY <1>1, <2>1, <3>1, InUseAfter DEF FailingIsCutOff
  <2>2. CASE target[c] = p /\ InPlace(w)
    <3>1. c \in InUse(p)'
      BY <1>1, <2>2, InUseAfter
    <3> QED
      BY <3>1
  <2>3. CASE target[c] = p /\ ~InPlace(w)
    <3>1. CASE (InPlace(phase[c]) => InPlace(w)) /\ UNCHANGED <<available, failures>>
      <4>1. c \notin InUse(p)
        BY <2>3, <3>1 DEF InUse, InPlace
      <4> QED
        BY <1>1, <2>3, <3>1, <4>1, InUseAfter DEF FailingIsCutOff
    <3>2. CASE failures' = [failures EXCEPT ![p] = 0]
      BY <1>1, <3>2, ProviderAssumption
    <3>3. CASE Trip(p)
      BY <1>1, <3>3 DEF Trip
    <3> QED
      BY <1>1, <2>3, <3>1, <3>2, <3>3 DEF Effect, InPlace
  <2> QED
    BY <2>1, <2>2, <2>3
<1>2. ASSUME NEW p \in Providers, Closed(p)
      PROVE  FailingIsCutOff'
  <2>1. ASSUME NEW q \in Providers
        PROVE  InUse(q)' = InUse(q)
    BY <1>2, InUseOtherwise
  <2> QED
    BY <1>2, <2>1, ProviderAssumption DEF FailingIsCutOff, Closed, TypeOK, ProviderTypeOK
<1>3. CASE Quiet \/ \E c \in Calls, p \in Providers : Assigned(c, p)
  <2>1. UNCHANGED <<failures, available>> /\ \A q \in Providers : InUse(q)' = InUse(q)
    BY <1>3, InUseOtherwise DEF Quiet, Assigned, breaker
  <2> QED
    BY <2>1 DEF FailingIsCutOff
<1> QED
  BY <1>1, <1>2, <1>3 DEF FailingIsCutOff

-----------------------------------------------------------------------------
\* The theorems.

\* All of it together is inductive: types, idle calls, attempts that are left,
\* places, processes and breakers.
THEOREM InductiveInvariant == Spec => []IInv
<1>1. Init => IInv
  <2> SUFFICES ASSUME Init PROVE IInv
    OBVIOUS
  <2>1. TypeOK /\ Waiting /\ Counting
    BY ProviderAssumption DEF Init, ProviderInit, TypeOK, ProviderTypeOK, Phase, Waiting, Counting
  <2>2. \A p \in Providers : InUse(p) = {}
    BY DEF Init, ProviderInit, InUse
  <2>3. PlacesGivenBack
    BY <2>2, FS_EmptySet DEF Init, ProviderInit, PlacesGivenBack
  <2>4. BreakerHasTimer /\ FailingIsCutOff /\ NoProcessLeftRunning
    BY ProviderAssumption DEF Init, ProviderInit, BreakerHasTimer, FailingIsCutOff,
       NoProcessLeftRunning
  <2> QED
    BY <2>1, <2>3, <2>4 DEF IInv
<1>2. IInv /\ [Next]_vars => IInv'
  BY TypeStep, StepKinds, ProcessStep, PlacesStep, BreakerStep, CutOffStep DEF IInv
<1> QED
  BY <1>1, <1>2, PTL DEF Spec

\* Every variable keeps its type; in particular no call makes more attempts than
\* the retry policy allows.
THEOREM TypeCorrect == Spec => []TypeOK
<1>1. IInv => TypeOK
  BY DEF IInv
<1> QED
  BY <1>1, InductiveInvariant, PTL

\* The count of concurrent requests is exact, so no place is ever lost.
THEOREM PlacesExact == Spec => []PlacesGivenBack
<1>1. IInv => PlacesGivenBack
  BY DEF IInv
<1> QED
  BY <1>1, InductiveInvariant, PTL

\* An open circuit breaker always has a timer that will close it.
THEOREM BreakerCloses == Spec => []BreakerHasTimer
<1>1. IInv => BreakerHasTimer
  BY DEF IInv
<1> QED
  BY <1>1, InductiveInvariant, PTL

\* A provider that keeps failing is cut off as soon as nobody is using it.
THEOREM FailingCutOff == Spec => []FailingIsCutOff
<1>1. IInv => FailingIsCutOff
  BY DEF IInv
<1> QED
  BY <1>1, InductiveInvariant, PTL

\* Every process that was not told to stop is the one its call waits for.
THEOREM ProcessesAccounted == Spec => []NoProcessLeftRunning
<1>1. IInv => NoProcessLeftRunning
  BY DEF IInv
<1> QED
  BY <1>1, InductiveInvariant, PTL

-----------------------------------------------------------------------------
\* The router's response cache.

CacheEntries == [key : Keys, stamp : Nat]
Steps == [at : {"ready", "written"}] \union [at : {"writing"}, key : Keys, stamp : Nat]
         \union [at : {"evicting"}, n : Int, of : Nat]

CacheTypes ==
    /\ l1 \in [Processes -> Seq(CacheEntries)]
    /\ Rows \subseteq Keys /\ l2 \in [Rows -> Nat] /\ now \in Nat /\ horizon \in Nat
    /\ open \in [Processes -> BOOLEAN] /\ doing \in [Processes -> Steps]
    /\ seen \in [Processes -> [Keys -> Nat]] /\ behind \in [Processes -> [Keys -> BOOLEAN]]
    /\ dropped \in [Processes -> SUBSET Nat]

Pending(p) == doing[p].at = "writing"
Members(s) == {s[i] : i \in DOMAIN s}
Distinct(s) == \A i, j \in DOMAIN s : s[i].key = s[j].key => i = j

\* L1 has a key once, and while the cache is closed nothing is in it, or on its way.
L1Sound == \A p \in Processes : Distinct(l1[p]) /\ (~open[p] => Members(l1[p]) = {} /\ ~Pending(p))

\* No stamp is given twice.
StampsPast ==
    /\ \A k \in Rows : l2[k] <= now
    /\ \A p \in Processes : /\ \A e \in Members(l1[p]) : e.stamp <= now
                            /\ Pending(p) => doing[p].stamp <= now
                            /\ \A x \in dropped[p] : x <= now
                            /\ \A k \in Keys : seen[p][k] <= now
RowsApart == \A j, k \in Rows : l2[j] = l2[k] => j = k

\* A response on its way to the table is in the memory of the process that set it, if anywhere, and nobody has cleared it.
PendingNew == \A p \in Processes : Pending(p) =>
    /\ \A k \in Rows : l2[k] # doing[p].stamp
    /\ \A q \in Processes : doing[p].stamp \notin dropped[q]
    /\ \A q \in Processes \ {p} : /\ \A e \in Members(l1[q]) : e.stamp # doing[p].stamp
                                  /\ Pending(q) => doing[q].stamp # doing[p].stamp
    /\ doing[p].stamp = seen[p][doing[p].key]

Cleared == \A p \in Processes : /\ \A e \in Members(l1[p]) : e.stamp \notin dropped[p]
                                /\ \A k \in Rows : l2[k] \notin dropped[p]

\* What a process finds next is what it found last, or younger.
Recent == \A p \in Processes : open[p] =>
    /\ \A e \in Members(l1[p]) : e.stamp = seen[p][e.key]
    /\ \A k \in Rows : l2[k] >= seen[p][k] \/ behind[p][k] \/ (Pending(p) /\ doing[p].key = k)

CountedRows == \A p \in Processes : doing[p].at = "evicting" =>
    doing[p].of > MaxSize /\ doing[p].n = doing[p].of - Keep

CacheInv == CacheTypes /\ L1Sound /\ StampsPast /\ RowsApart /\ PendingNew /\ Cleared /\ Recent /\ CountedRows

\* The order of L1.
LEMMA WithoutKey ==
    ASSUME NEW s \in Seq(CacheEntries), Distinct(s), NEW k
    PROVE  /\ Without(s, k) \in Seq(CacheEntries) /\ Distinct(Without(s, k))
           /\ \A e \in Members(Without(s, k)) : e \in Members(s) /\ e.key # k
<1>1. CASE \A i \in DOMAIN s : s[i].key # k
  BY <1>1 DEF Without, Members
<1>2. CASE ~\A i \in DOMAIN s : s[i].key # k
  <2>1. PICK n \in Nat : n = Len(s) /\ DOMAIN s = 1..n
    BY LenProperties
  <2>2. PICK i : i = CHOOSE x \in DOMAIN s : s[x].key = k
    OBVIOUS
  <2>3. i \in 1..n /\ s[i].key = k
    BY <1>2, <2>1, <2>2
  <2>4. PICK t : t = [j \in 1..(n - 1) |-> s[IF j < i THEN j ELSE j + 1]]
    OBVIOUS
  <2>5. Without(s, k) = t
    BY <1>2, <2>1, <2>2, <2>4 DEF Without
  <2>6. \A j \in 1..(n - 1) : /\ (IF j < i THEN j ELSE j + 1) \in 1..n
                              /\ (IF j < i THEN j ELSE j + 1) # i
    BY <2>1, <2>3
  <2>7. \A x \in 1..n : s[x] \in CacheEntries
    BY <2>1, ElementOfSeq
  <2>8. DOMAIN t = 1..(n - 1) /\ n - 1 \in Nat
    BY <2>1, <2>3, <2>4
  <2>9. t \in Seq(CacheEntries)
    <3>1. t \in [1..(n - 1) -> CacheEntries]
      BY <2>4, <2>6, <2>7
    <3> QED BY <2>8, <3>1, SeqDef
  <2>10. \A x \in 1..n : x # i => s[x].key # k
    BY <2>1, <2>3 DEF Distinct
  <2>11. \A j \in DOMAIN t : \E x \in 1..n : x = (IF j < i THEN j ELSE j + 1) /\ x # i /\ t[j] = s[x]
    BY <2>4, <2>6, <2>8
  <2>12. \A e \in Members(t) : e \in Members(s) /\ e.key # k
    BY <2>1, <2>10, <2>11 DEF Members
  <2>13. Distinct(t)
    <3>1. SUFFICES ASSUME NEW a \in DOMAIN t, NEW b \in DOMAIN t, t[a].key = t[b].key PROVE a = b
      BY DEF Distinct
    <3>2. PICK x \in 1..n : x = (IF a < i THEN a ELSE a + 1) /\ x # i /\ t[a] = s[x]
      BY <2>11
    <3>3. PICK y \in 1..n : y = (IF b < i THEN b ELSE b + 1) /\ y # i /\ t[b] = s[y]
      BY <2>11
    <3>4. x = y
      BY <2>1, <3>1, <3>2, <3>3 DEF Distinct
    <3> QED BY <2>3, <2>8, <3>2, <3>3, <3>4
  <2> QED BY <2>5, <2>9, <2>12, <2>13
<1> QED BY <1>1, <1>2

LEMMA Appended ==
    ASSUME NEW s \in Seq(CacheEntries), Distinct(s), NEW e \in CacheEntries, \A x \in Members(s) : x.key # e.key
    PROVE  /\ Append(s, e) \in Seq(CacheEntries) /\ Distinct(Append(s, e)) /\ Len(Append(s, e)) > 0
           /\ \A x \in Members(Append(s, e)) : x \in Members(s) \/ x = e
<1>1. PICK n \in Nat : n = Len(s) /\ DOMAIN s = 1..n
  BY LenProperties
<1>2. PICK t \in Seq(CacheEntries) : t = Append(s, e) /\ Len(t) = n + 1 /\ DOMAIN t = 1..(n + 1)
                                     /\ (\A i \in 1..n : t[i] = s[i]) /\ t[n + 1] = e
  <2>1. PICK t : t = Append(s, e)
    OBVIOUS
  <2>2. /\ t \in Seq(CacheEntries) /\ Len(t) = Len(s) + 1
        /\ \A i \in 1..Len(s) : t[i] = s[i]
        /\ t[Len(s) + 1] = e
    BY <2>1, AppendProperties
  <2>3. DOMAIN t = 1..(n + 1)
    BY <1>1, <2>2, LenProperties
  <2> QED BY <1>1, <2>1, <2>2, <2>3
<1>3. \A i \in 1..(n + 1) : i \in 1..n \/ i = n + 1
  BY <1>1
<1>4. \A x \in Members(t) : x \in Members(s) \/ x = e
  BY <1>1, <1>2, <1>3 DEF Members
<1>5. Distinct(t)
  BY <1>1, <1>2, <1>3 DEF Distinct, Members
<1> QED BY <1>1, <1>2, <1>4, <1>5

LEMMA Shortened ==
    ASSUME NEW s \in Seq(CacheEntries), Distinct(s), Len(s) > 0
    PROVE  Tail(s) \in Seq(CacheEntries) /\ Distinct(Tail(s)) /\ Members(Tail(s)) \subseteq Members(s)
<1>1. PICK n \in Nat : n = Len(s) /\ DOMAIN s = 1..n
  BY LenProperties
<1>2. s # <<>>
  BY EmptySeq
<1>3. PICK t \in Seq(CacheEntries) : t = Tail(s) /\ Len(t) = n - 1 /\ \A i \in 1..(n - 1) : t[i] = s[i + 1]
  <2>1. PICK t : t = Tail(s)
    OBVIOUS
  <2>2. t \in Seq(CacheEntries) /\ Len(t) = Len(s) - 1 /\ \A i \in 1..Len(t) : t[i] = s[i + 1]
    BY <1>2, <2>1, HeadTailProperties
  <2> QED BY <1>1, <2>1, <2>2
<1>4. DOMAIN t = 1..(n - 1) /\ \A i \in 1..(n - 1) : i + 1 \in 1..n
  BY <1>1, <1>3, LenProperties
<1>5. \A i \in DOMAIN t : \E x \in DOMAIN s : x = i + 1 /\ t[i] = s[x]
  BY <1>1, <1>3, <1>4
<1>6. Members(t) \subseteq Members(s)
  BY <1>5 DEF Members
<1>7. Distinct(t)
  <2>1. SUFFICES ASSUME NEW a \in DOMAIN t, NEW b \in DOMAIN t, t[a].key = t[b].key PROVE a = b
    BY DEF Distinct
  <2>2. PICK x \in DOMAIN s, y \in DOMAIN s : x = a + 1 /\ y = b + 1 /\ t[a] = s[x] /\ t[b] = s[y]
    BY <1>5
  <2>3. x = y
    BY <2>1, <2>2 DEF Distinct
  <2> QED BY <1>4, <2>2, <2>3
<1> QED BY <1>3, <1>6, <1>7

LEMMA LRUSets ==
    ASSUME NEW s \in Seq(CacheEntries), Distinct(s), NEW e \in CacheEntries
    PROVE  /\ LRUSet(s, e) \in Seq(CacheEntries) /\ Distinct(LRUSet(s, e))
           /\ \A x \in Members(LRUSet(s, e)) : (x \in Members(s) /\ x.key # e.key) \/ x = e
<1>1. PICK t \in Seq(CacheEntries) : t = Append(Without(s, e.key), e)
  BY WithoutKey, Appended
<1>2. Distinct(t) /\ Len(t) > 0 /\ \A x \in Members(t) : (x \in Members(s) /\ x.key # e.key) \/ x = e
  BY <1>1, WithoutKey, Appended
<1>3. LRUSet(s, e) = IF Len(t) > MaxMemorySize THEN Tail(t) ELSE t
  BY <1>1 DEF LRUSet
<1> QED BY <1>2, <1>3, Shortened

\* What every step but those that bring in a response, or clear, does: no row, entry or pending response is new.
Shrinks ==
    /\ UNCHANGED <<now, seen, behind, dropped>> /\ horizon' \in Nat
    /\ DOMAIN l2' \subseteq Rows /\ l2' \in [DOMAIN l2' -> Nat] /\ \A k \in DOMAIN l2' : l2'[k] = l2[k]
    /\ l1' \in [Processes -> Seq(CacheEntries)]
    /\ open' \in [Processes -> BOOLEAN] /\ doing' \in [Processes -> Steps]
    /\ \A p \in Processes :
          /\ Distinct(l1'[p]) /\ Members(l1'[p]) \subseteq Members(l1[p])
          /\ (open'[p] => open[p]) /\ (~open'[p] => Members(l1'[p]) = {} /\ ~Pending(p)')
          /\ Pending(p)' => doing'[p] = doing[p]
          /\ open'[p] /\ Pending(p) => doing'[p] = doing[p]
          /\ doing'[p].at = "evicting" => doing'[p].of > MaxSize /\ doing'[p].n = doing'[p].of - Keep

LEMMA ShrinksKeep == CacheInv /\ Shrinks => CacheInv'
<1> SUFFICES ASSUME CacheInv, Shrinks PROVE CacheInv'
  OBVIOUS
<1>1. CacheTypes'
  BY DEF CacheInv, CacheTypes, Shrinks, Rows
<1>2. L1Sound'
  BY DEF Shrinks, L1Sound
<1>3. \A p \in Processes : Pending(p)' => Pending(p) /\ doing'[p] = doing[p]
  BY DEF Shrinks, Pending
<1>4. StampsPast'
  BY <1>3 DEF CacheInv, Shrinks, StampsPast, Rows
<1>5. RowsApart'
  BY DEF CacheInv, Shrinks, RowsApart, Rows
<1>6. PendingNew'
  <2>1. SUFFICES ASSUME NEW p \in Processes, Pending(p)'
                 PROVE  /\ \A k \in Rows' : l2'[k] # doing'[p].stamp
                        /\ \A q \in Processes : doing'[p].stamp \notin dropped'[q]
                        /\ \A q \in Processes \ {p} : /\ \A e \in Members(l1'[q]) : e.stamp # doing'[p].stamp
                                                      /\ Pending(q)' => doing'[q].stamp # doing'[p].stamp
                        /\ doing'[p].stamp = seen'[p][doing'[p].key]
    BY DEF PendingNew
  <2>2. PICK x : x = doing[p].stamp /\ Pending(p) /\ doing'[p] = doing[p]
    BY <1>3, <2>1
  <2>3. /\ \A k \in Rows : l2[k] # x
        /\ \A q \in Processes : x \notin dropped[q]
        /\ \A q \in Processes \ {p} : (\A e \in Members(l1[q]) : e.stamp # x) /\ (Pending(q) => doing[q].stamp # x)
        /\ x = seen[p][doing[p].key]
    BY <2>2 DEF CacheInv, PendingNew
  <2>4. \A k \in Rows' : l2'[k] # x
    BY <2>3 DEF Shrinks, Rows
  <2>5. \A q \in Processes : x \notin dropped'[q]
    BY <2>3 DEF Shrinks
  <2>6. ASSUME NEW q \in Processes \ {p}
        PROVE (\A e \in Members(l1'[q]) : e.stamp # x) /\ (Pending(q)' => doing'[q].stamp # x)
    BY <1>3, <2>3 DEF Shrinks
  <2>7. x = seen'[p][doing'[p].key]
    BY <2>2, <2>3 DEF Shrinks
  <2> QED BY <2>2, <2>4, <2>5, <2>6, <2>7
<1>7. Cleared'
  BY DEF CacheInv, Shrinks, Cleared, Rows
<1>8. Recent'
  <2>1. SUFFICES ASSUME NEW p \in Processes, open'[p]
                 PROVE  /\ \A e \in Members(l1'[p]) : e.stamp = seen'[p][e.key]
                        /\ \A k \in DOMAIN l2' : l2'[k] >= seen'[p][k] \/ behind'[p][k] \/ (Pending(p)' /\ doing'[p].key = k)
    BY DEF Recent, Rows
  <2>2. open[p] /\ seen' = seen /\ behind' = behind
    BY <2>1 DEF Shrinks
  <2>3. \A e \in Members(l1'[p]) : e.stamp = seen'[p][e.key]
    BY <2>2 DEF Shrinks, CacheInv, Recent
  <2>4. Pending(p) => Pending(p)' /\ doing'[p] = doing[p]
    BY <2>1 DEF Shrinks, Pending
  <2>5. ASSUME NEW k \in DOMAIN l2'
        PROVE  l2'[k] >= seen'[p][k] \/ behind'[p][k] \/ (Pending(p)' /\ doing'[p].key = k)
    <3>1. k \in Rows /\ l2'[k] = l2[k]
      BY DEF Shrinks
    <3>2. l2[k] >= seen[p][k] \/ behind[p][k] \/ (Pending(p) /\ doing[p].key = k)
      BY <2>2, <3>1, Zenon DEF CacheInv, Recent
    <3>3. CASE l2[k] >= seen[p][k]
      BY <2>2, <3>1, <3>3
    <3>4. CASE behind[p][k]
      BY <2>2, <3>4
    <3>5. CASE Pending(p) /\ doing[p].key = k
      BY <2>4, <3>5
    <3> QED BY <3>2, <3>3, <3>4, <3>5
  <2> QED BY <2>3, <2>5
<1>9. CountedRows'
  BY DEF Shrinks, CountedRows
<1> QED BY <1>1, <1>2, <1>4, <1>5, <1>6, <1>7, <1>8, <1>9 DEF CacheInv

\* Shrinks of steps that leave the table, L1 or the processes as they are.
LEMMA ReadyStep == Ready \in Steps /\ Ready.at = "ready"
BY DEF Ready, Steps

\* One process's L1 changes, and no row.
LEMMA OrderStep ==
    ASSUME CacheInv, NEW p \in Processes, UNCHANGED <<l2, now, horizon, open, doing, seen, behind, dropped>>,
           NEW t \in Seq(CacheEntries), l1' = [l1 EXCEPT ![p] = t], Distinct(t), Members(t) \subseteq Members(l1[p])
    PROVE  Shrinks
<1>1. /\ l1' \in [Processes -> Seq(CacheEntries)]
      /\ \A q \in Processes : l1'[q] = IF q = p THEN t ELSE l1[q]
  BY DEF CacheInv, CacheTypes
<1>2. \A q \in Processes : Distinct(l1'[q]) /\ Members(l1'[q]) \subseteq Members(l1[q]) /\ (~open'[q] => Members(l1'[q]) = {} /\ ~Pending(q)')
  BY <1>1 DEF CacheInv, L1Sound, Pending
<1>3. \A q \in Processes : doing'[q] = doing[q] /\ open'[q] = open[q]
  OBVIOUS
<1>4. \A q \in Processes : doing'[q].at = "evicting" => doing'[q].of > MaxSize /\ doing'[q].n = doing'[q].of - Keep
  BY <1>3 DEF CacheInv, CountedRows
<1> QED BY <1>1, <1>2, <1>3, <1>4 DEF CacheInv, CacheTypes, Shrinks, Rows

\* One process goes on, and rows may go.
LEMMA ProcessGoes ==
    ASSUME CacheInv, NEW p \in Processes, UNCHANGED <<l1, now, horizon, open, seen, behind, dropped>>, ~Pending(p),
           NEW d \in Steps, d.at # "writing", doing' = [doing EXCEPT ![p] = d],
           d.at = "evicting" => d.of > MaxSize /\ d.n = d.of - Keep,
           DOMAIN l2' \subseteq Rows, l2' \in [DOMAIN l2' -> Nat], \A k \in DOMAIN l2' : l2'[k] = l2[k]
    PROVE  Shrinks
<1>1. /\ doing' \in [Processes -> Steps]
      /\ \A q \in Processes : doing'[q] = IF q = p THEN d ELSE doing[q]
  BY DEF CacheInv, CacheTypes
<1>2. \A q \in Processes : /\ Pending(q)' => Pending(q) /\ doing'[q] = doing[q]
                           /\ Pending(q) => doing'[q] = doing[q]
                           /\ doing'[q].at = "evicting" => doing'[q].of > MaxSize /\ doing'[q].n = doing'[q].of - Keep
  BY <1>1 DEF CacheInv, CountedRows, Pending
<1>3. \A q \in Processes : /\ Distinct(l1'[q]) /\ Members(l1'[q]) \subseteq Members(l1[q])
                           /\ (open'[q] => open[q]) /\ (~open'[q] => Members(l1'[q]) = {} /\ ~Pending(q)')
  BY <1>2 DEF CacheInv, L1Sound
<1> QED BY <1>1, <1>2, <1>3 DEF CacheInv, CacheTypes, Shrinks

LEMMA EmptyMembers == <<>> \in Seq(CacheEntries) /\ Distinct(<<>>) /\ Members(<<>>) = {}
<1>1. DOMAIN <<>> = {}
  OBVIOUS
<1> QED BY <1>1, EmptySeq DEF Distinct, Members

LEMMA CachedMembers ==
    ASSUME NEW p, NEW k, NEW e \in Entry(p, k)
    PROVE  e \in Members(l1[p]) /\ e.key = k
BY DEF Entry, Cached, Members

\* An entry that is looked up is moved to the end.
LEMMA Moves ==
    ASSUME CacheInv, NEW p \in Processes, NEW k, NEW e \in Entry(p, k)
    PROVE  \E t \in Seq(CacheEntries) : /\ t = Append(Without(l1[p], k), e)
                                        /\ Distinct(t) /\ Members(t) \subseteq Members(l1[p])
<1>1. PICK s \in Seq(CacheEntries) : s = l1[p] /\ Distinct(s)
  BY DEF CacheInv, CacheTypes, L1Sound
<1>2. e \in Members(s) /\ e.key = k
  BY <1>1, CachedMembers
<1>3. e \in CacheEntries
  BY <1>2, ElementOfSeq, LenProperties DEF Members
<1>4. PICK w \in Seq(CacheEntries) : w = Without(s, k) /\ Distinct(w) /\ \A x \in Members(w) : x \in Members(s) /\ x.key # k
  BY <1>1, WithoutKey
<1>5. PICK t \in Seq(CacheEntries) : t = Append(w, e) /\ Distinct(t) /\ \A x \in Members(t) : x \in Members(w) \/ x = e
  BY <1>2, <1>3, <1>4, Appended
<1> QED BY <1>1, <1>2, <1>4, <1>5

LEMMA HitL1Shrinks ==
    ASSUME CacheInv, NEW p \in Processes, NEW k \in Keys, HitL1(p, k)
    PROVE  Shrinks
<1>1. PICK e \in Entry(p, k) : l1' = [l1 EXCEPT ![p] = Append(Without(l1[p], k), e)] /\ Serve(p, k, e.stamp)
  BY DEF HitL1, CacheInv, CacheTypes
<1>2. UNCHANGED <<l2, now, horizon, open, doing, behind, dropped>> /\ open[p]
  BY DEF HitL1, Idle
<1>3. e.stamp = seen[p][k]
  BY <1>2, CachedMembers DEF CacheInv, Recent
<1>4. seen' = seen
  BY <1>1, <1>3 DEF Serve, CacheInv, CacheTypes
<1>5. PICK t \in Seq(CacheEntries) : /\ t = Append(Without(l1[p], k), e)
                                     /\ Distinct(t) /\ Members(t) \subseteq Members(l1[p])
  BY Moves
<1> QED BY <1>1, <1>2, <1>4, <1>5, OrderStep

LEMMA MissShrinks ==
    ASSUME CacheInv, NEW p \in Processes, NEW k \in Keys, Miss(p, k)
    PROVE  Shrinks
<1>1. PICK e \in Entry(p, k) : l1' = [l1 EXCEPT ![p] = Append(Without(l1[p], k), e)]
  BY DEF Miss, CacheInv, CacheTypes
<1>2. UNCHANGED <<l2, now, horizon, open, doing, seen, behind, dropped>>
  BY DEF Miss
<1>3. PICK t \in Seq(CacheEntries) : /\ t = Append(Without(l1[p], k), e)
                                     /\ Distinct(t) /\ Members(t) \subseteq Members(l1[p])
  BY Moves
<1> QED BY <1>1, <1>2, <1>3, OrderStep

LEMMA CloseShrinks ==
    ASSUME CacheInv, NEW p \in Processes, close(p)
    PROVE  Shrinks
<1>1. /\ l1' = [l1 EXCEPT ![p] = <<>>] /\ open' = [open EXCEPT ![p] = FALSE] /\ doing' = [doing EXCEPT ![p] = Ready]
      /\ UNCHANGED <<l2, now, horizon, seen, behind, dropped>>
  BY DEF close
<1>2. /\ l1' \in [Processes -> Seq(CacheEntries)] /\ open' \in [Processes -> BOOLEAN] /\ doing' \in [Processes -> Steps]
  BY <1>1, EmptyMembers, ReadyStep DEF CacheInv, CacheTypes
<1>3. \A q \in Processes \ {p} : l1'[q] = l1[q] /\ open'[q] = open[q] /\ doing'[q] = doing[q]
  BY <1>1
<1>4. l1'[p] = <<>> /\ ~open'[p] /\ doing'[p] = Ready
  BY <1>1 DEF CacheInv, CacheTypes
<1>5. ASSUME NEW q \in Processes
      PROVE  /\ Distinct(l1'[q]) /\ Members(l1'[q]) \subseteq Members(l1[q])
             /\ (open'[q] => open[q]) /\ (~open'[q] => Members(l1'[q]) = {} /\ ~Pending(q)')
             /\ Pending(q)' => doing'[q] = doing[q]
             /\ open'[q] /\ Pending(q) => doing'[q] = doing[q]
             /\ doing'[q].at = "evicting" => doing'[q].of > MaxSize /\ doing'[q].n = doing'[q].of - Keep
  <2>1. CASE q = p
    BY <1>4, <2>1, EmptyMembers, ReadyStep DEF Pending
  <2>2. CASE q # p
    BY <1>3, <2>2 DEF CacheInv, L1Sound, CountedRows, Pending
  <2> QED BY <2>1, <2>2
<1> QED BY <1>1, <1>2, <1>5 DEF CacheInv, CacheTypes, Shrinks

LEMMA ClearFailsShrinks ==
    ASSUME CacheInv, NEW p \in Processes, ClearFails(p)
    PROVE  Shrinks
<1>1. l1' = [l1 EXCEPT ![p] = <<>>] /\ UNCHANGED <<l2, now, horizon, open, doing, seen, behind, dropped>>
  BY DEF ClearFails
<1>2. <<>> \in Seq(CacheEntries) /\ Distinct(<<>>) /\ Members(<<>>) \subseteq Members(l1[p])
  BY EmptyMembers
<1> QED BY <1>1, <1>2, OrderStep

\* The rows that have not expired are finitely many.
LEMMA CountNat == CacheInv => count \in Nat
<1> SUFFICES ASSUME CacheInv PROVE count \in Nat
  OBVIOUS
<1>1. IsFiniteSet(Rows)
  BY SizesAssumption, FS_Subset DEF CacheInv, CacheTypes
<1>2. IsFiniteSet({k \in Rows : Live(k)})
  BY <1>1, FS_Subset
<1> QED BY <1>2, FS_CardinalityType DEF count

LEMMA EvictionShrinks ==
    ASSUME CacheInv, NEW p \in Processes, checkAndEvict(p) \/ Evict(p) \/ EvictionFails(p)
    PROVE  Shrinks
<1>1. ~Pending(p) /\ UNCHANGED <<l1, now, horizon, open, seen, behind, dropped>>
  BY DEF checkAndEvict, Evict, EvictionFails, Pending
<1>2. DOMAIN l2' \subseteq Rows /\ l2' \in [DOMAIN l2' -> Nat] /\ \A k \in DOMAIN l2' : l2'[k] = l2[k]
  <2>1. CASE UNCHANGED l2
    BY <2>1 DEF CacheInv, CacheTypes, Rows
  <2>2. CASE Evict(p)
    <3>1. PICK S \in SUBSET Rows : l2' = [k \in S |-> l2[k]]
      BY <2>2 DEF Evict
    <3> QED BY <3>1 DEF CacheInv, CacheTypes
  <2> QED BY <2>1, <2>2 DEF checkAndEvict, EvictionFails
<1>3. CASE doing' = [doing EXCEPT ![p] = Ready]
  BY <1>1, <1>2, <1>3, ReadyStep, ProcessGoes
<1>4. CASE checkAndEvict(p) /\ count > MaxSize
  <2>1. PICK d : d = [at |-> "evicting", n |-> count - Keep, of |-> count]
    OBVIOUS
  <2>2. d \in Steps /\ d.at = "evicting" /\ d.of > MaxSize /\ d.n = d.of - Keep
    BY <1>4, <2>1, CountNat, SizesAssumption DEF Steps
  <2>3. doing' = [doing EXCEPT ![p] = d]
    BY <1>4, <2>1 DEF checkAndEvict
  <2> QED BY <1>1, <1>2, <2>2, <2>3, ProcessGoes
<1> QED BY <1>3, <1>4 DEF checkAndEvict, Evict, EvictionFails

LEMMA ExpiresShrinks ==
    ASSUME CacheInv, ExpireResponses \/ UNCHANGED cacheVars
    PROVE  Shrinks
<1>1. UNCHANGED <<l1, l2, now, open, doing, seen, behind, dropped>> /\ horizon' \in Nat
  BY DEF ExpireResponses, cacheVars, CacheInv, CacheTypes
<1> QED BY <1>1 DEF CacheInv, CacheTypes, L1Sound, CountedRows, Shrinks, Rows, Pending

LEMMA InitializeKeeps ==
    ASSUME CacheInv, NEW p \in Processes, initialize(p)
    PROVE  CacheInv'
<1>1. /\ ~open[p] /\ UNCHANGED <<l1, now, horizon, doing>>
      /\ Members(l1[p]) = {} /\ ~Pending(p)
  BY DEF initialize, CacheInv, L1Sound
<1>2. /\ DOMAIN l2' \subseteq Rows /\ l2' \in [DOMAIN l2' -> Nat] /\ \A k \in DOMAIN l2' : l2'[k] = l2[k]
  <2>1. PICK S \in SUBSET Rows : l2' = [k \in S |-> l2[k]]
    BY DEF initialize
  <2> QED BY <2>1 DEF CacheInv, CacheTypes
<1>3. /\ open' = [open EXCEPT ![p] = TRUE]
      /\ seen' = [seen EXCEPT ![p] = [k \in Keys |-> 0]]
      /\ behind' = [behind EXCEPT ![p] = [k \in Keys |-> FALSE]]
      /\ dropped' = [dropped EXCEPT ![p] = {}]
  BY DEF initialize
<1>4. CacheTypes'
  BY <1>1, <1>2, <1>3 DEF CacheInv, CacheTypes, Rows
<1>5. \A q \in Processes \ {p} : open'[q] = open[q] /\ seen'[q] = seen[q] /\ behind'[q] = behind[q] /\ dropped'[q] = dropped[q]
  BY <1>3
<1>6. open'[p] /\ (\A k \in Keys : seen'[p][k] = 0) /\ dropped'[p] = {}
  BY <1>3 DEF CacheInv, CacheTypes
<1>7. L1Sound'
  BY <1>1, <1>5, <1>6 DEF CacheInv, L1Sound, Pending
<1>8. StampsPast' /\ RowsApart'
  <2>1. ASSUME NEW q \in Processes, NEW k \in Keys PROVE seen'[q][k] <= now
    <3>1. CASE q = p
      <4>1. 0 <= now
        BY DEF CacheInv, CacheTypes
      <4> QED BY <1>6, <3>1, <4>1
    <3>2. CASE q # p
      BY <1>5, <3>2 DEF CacheInv, StampsPast
    <3> QED BY <3>1, <3>2
  <2>2. \A q \in Processes : \A x \in dropped'[q] : x <= now
    BY <1>5, <1>6 DEF CacheInv, StampsPast
  <2>3. \A k \in Rows' : k \in Rows /\ l2'[k] = l2[k]
    BY <1>2 DEF Rows
  <2>4. now' = now /\ l1' = l1 /\ doing' = doing
    BY <1>1
  <2> QED BY <2>1, <2>2, <2>3, <2>4 DEF CacheInv, StampsPast, RowsApart, Pending
<1>9. PendingNew'
  <2>1. ASSUME NEW q \in Processes, Pending(q)'
        PROVE  /\ \A k \in Rows' : l2'[k] # doing'[q].stamp
               /\ \A r \in Processes : doing'[q].stamp \notin dropped'[r]
               /\ \A r \in Processes \ {q} : /\ \A e \in Members(l1'[r]) : e.stamp # doing'[q].stamp
                                             /\ Pending(r)' => doing'[r].stamp # doing'[q].stamp
               /\ doing'[q].stamp = seen'[q][doing'[q].key]
    <3>1. doing' = doing /\ Pending(q) /\ q # p /\ l1' = l1
      BY <1>1, <2>1 DEF Pending
    <3>2. /\ \A k \in Rows : l2[k] # doing[q].stamp
          /\ \A r \in Processes : doing[q].stamp \notin dropped[r]
          /\ \A r \in Processes \ {q} : /\ \A e \in Members(l1[r]) : e.stamp # doing[q].stamp
                                        /\ Pending(r) => doing[r].stamp # doing[q].stamp
          /\ doing[q].stamp = seen[q][doing[q].key]
      BY <3>1 DEF CacheInv, PendingNew
    <3>3. \A k \in Rows' : l2'[k] # doing'[q].stamp
      BY <1>2, <3>1, <3>2 DEF Rows
    <3>4. \A r \in Processes : doing'[q].stamp \notin dropped'[r]
      BY <1>5, <1>6, <3>1, <3>2
    <3>5. doing'[q].stamp = seen'[q][doing'[q].key]
      BY <1>5, <3>1, <3>2
    <3> QED BY <3>1, <3>2, <3>3, <3>4, <3>5 DEF Pending
  <2> QED BY <2>1 DEF PendingNew
<1>10. Cleared'
  BY <1>1, <1>2, <1>5, <1>6 DEF CacheInv, Cleared, Rows
<1>11. Recent'
  <2>1. SUFFICES ASSUME NEW q \in Processes, open'[q]
                 PROVE  /\ \A e \in Members(l1'[q]) : e.stamp = seen'[q][e.key]
                        /\ \A k \in Rows' : l2'[k] >= seen'[q][k] \/ behind'[q][k] \/ (Pending(q)' /\ doing'[q].key = k)
    BY DEF Recent
  <2>2. CASE q = p
    <3>1. \A k \in Rows' : k \in Keys /\ l2'[k] \in Nat
      BY <1>2 DEF CacheInv, CacheTypes, Rows
    <3> QED BY <1>1, <1>6, <2>2, <3>1
  <2>3. CASE q # p
    <3>1. open[q] /\ seen'[q] = seen[q] /\ behind'[q] = behind[q]
      BY <1>5, <2>1, <2>3
    <3>2. \A e \in Members(l1'[q]) : e.stamp = seen'[q][e.key]
      BY <1>1, <3>1 DEF CacheInv, Recent
    <3>3. ASSUME NEW k \in Rows'
          PROVE  l2'[k] >= seen'[q][k] \/ behind'[q][k] \/ (Pending(q)' /\ doing'[q].key = k)
      <4>1. k \in Rows /\ l2'[k] = l2[k]
        BY <1>2 DEF Rows
      <4>2. l2[k] >= seen[q][k] \/ behind[q][k] \/ (Pending(q) /\ doing[q].key = k)
        BY <3>1, <4>1, Zenon DEF CacheInv, Recent
      <4>3. CASE l2[k] >= seen[q][k]
        BY <3>1, <4>1, <4>3
      <4>4. CASE behind[q][k]
        BY <3>1, <4>4
      <4>5. CASE Pending(q) /\ doing[q].key = k
        BY <1>1, <4>5 DEF Pending
      <4> QED BY <4>2, <4>3, <4>4, <4>5
    <3> QED BY <3>2, <3>3
  <2> QED BY <2>2, <2>3
<1>12. CountedRows'
  BY <1>1 DEF CacheInv, CountedRows
<1> QED BY <1>4, <1>7, <1>8, <1>9, <1>10, <1>11, <1>12 DEF CacheInv

\* What a process has seen of a key is a number, and what is on its way is of a key.
LEMMA PendingType ==
    ASSUME CacheInv, NEW p \in Processes, Pending(p)
    PROVE  doing[p].key \in Keys /\ doing[p].stamp \in Nat
BY DEF CacheInv, CacheTypes, Steps, Pending

LEMMA HitL2Keeps ==
    ASSUME CacheInv, NEW p \in Processes, NEW k \in Keys, HitL2(p, k)
    PROVE  CacheInv'
<1>1. /\ open[p] /\ ~Pending(p) /\ k \in Rows /\ UNCHANGED <<l2, now, horizon, open, doing, behind, dropped>>
  BY ReadyStep DEF HitL2, Idle, Pending
<1>2. PICK e \in CacheEntries : e = [key |-> k, stamp |-> l2[k]] /\ e.key = k /\ e.stamp = l2[k]
  <2>1. PICK e : e = [key |-> k, stamp |-> l2[k]]
    OBVIOUS
  <2>2. e \in CacheEntries /\ e.key = k /\ e.stamp = l2[k]
    BY <1>1, <2>1 DEF CacheInv, CacheTypes, CacheEntries
  <2> QED BY <2>1, <2>2
<1>3. PICK t \in Seq(CacheEntries) :
        /\ t = LRUSet(l1[p], e) /\ Distinct(t)
        /\ \A x \in Members(t) : (x \in Members(l1[p]) /\ x.key # k) \/ x = e
  BY <1>2, LRUSets DEF CacheInv, CacheTypes, L1Sound
<1>4. /\ l1' = [l1 EXCEPT ![p] = t]
      /\ seen' = [seen EXCEPT ![p][k] = l2[k]]
  BY <1>2, <1>3 DEF HitL2, Serve
<1>5. CacheTypes'
  BY <1>1, <1>4 DEF CacheInv, CacheTypes, Rows
<1>6. /\ \A q \in Processes : l1'[q] = IF q = p THEN t ELSE l1[q]
      /\ \A q \in Processes, j \in Keys : seen'[q][j] = IF q = p /\ j = k THEN l2[k] ELSE seen[q][j]
  BY <1>4 DEF CacheInv, CacheTypes
<1>7. \A q \in Processes : Pending(q)' <=> Pending(q)
  BY <1>1 DEF Pending
<1>8. L1Sound'
  BY <1>1, <1>3, <1>6, <1>7 DEF CacheInv, L1Sound
<1>9. StampsPast' /\ RowsApart'
  BY <1>1, <1>2, <1>3, <1>6, <1>7 DEF CacheInv, StampsPast, RowsApart, Rows
<1>10. PendingNew'
  <2>1. ASSUME NEW q \in Processes, Pending(q)
        PROVE  /\ \A j \in Rows : l2[j] # doing[q].stamp
               /\ \A r \in Processes : doing[q].stamp \notin dropped[r]
               /\ \A r \in Processes \ {q} : /\ \A x \in Members(l1'[r]) : x.stamp # doing[q].stamp
                                             /\ Pending(r) => doing[r].stamp # doing[q].stamp
               /\ doing[q].stamp = seen'[q][doing[q].key]
    <3>1. q # p /\ doing[q].key \in Keys
      BY <1>1, <2>1, PendingType
    <3>2. /\ \A j \in Rows : l2[j] # doing[q].stamp
          /\ \A r \in Processes : doing[q].stamp \notin dropped[r]
          /\ \A r \in Processes \ {q} : /\ \A x \in Members(l1[r]) : x.stamp # doing[q].stamp
                                        /\ Pending(r) => doing[r].stamp # doing[q].stamp
          /\ doing[q].stamp = seen[q][doing[q].key]
      BY <2>1 DEF CacheInv, PendingNew
    <3>3. e.stamp # doing[q].stamp
      BY <1>1, <1>2, <3>2
    <3>4. \A r \in Processes \ {q} : \A x \in Members(l1'[r]) : x.stamp # doing[q].stamp
      BY <1>3, <1>6, <3>2, <3>3
    <3>5. doing[q].stamp = seen'[q][doing[q].key]
      BY <1>6, <3>1, <3>2
    <3> QED BY <3>2, <3>4, <3>5
  <2> QED BY <1>1, <1>7, <2>1 DEF PendingNew, Rows
<1>11. Cleared'
  BY <1>1, <1>2, <1>3, <1>6 DEF CacheInv, Cleared, Rows
<1>12. Recent'
  <2>1. SUFFICES ASSUME NEW q \in Processes, open[q]
                 PROVE  /\ \A x \in Members(l1'[q]) : x.stamp = seen'[q][x.key]
                        /\ \A j \in Rows : l2[j] >= seen'[q][j] \/ behind[q][j] \/ (Pending(q) /\ doing[q].key = j)
    BY <1>1, <1>7 DEF Recent, Rows
  <2>2. \A x \in Members(l1[q]) : x.stamp = seen[q][x.key] /\ x.key \in Keys
    <3>1. \A x \in Members(l1[q]) : x \in CacheEntries
      BY ElementOfSeq, LenProperties DEF CacheInv, CacheTypes, Members
    <3> QED BY <2>1, <3>1 DEF CacheInv, Recent, CacheEntries
  <2>3. \A x \in Members(l1'[q]) : x.stamp = seen'[q][x.key]
    BY <1>2, <1>3, <1>6, <2>2
  <2>4. ASSUME NEW j \in Rows
        PROVE  l2[j] >= seen'[q][j] \/ behind[q][j] \/ (Pending(q) /\ doing[q].key = j)
    <3>1. l2[j] >= seen[q][j] \/ behind[q][j] \/ (Pending(q) /\ doing[q].key = j)
      BY <2>1, Zenon DEF CacheInv, Recent
    <3>2. j \in Keys /\ l2[j] \in Nat
      BY DEF CacheInv, CacheTypes
    <3>3. CASE l2[j] >= seen[q][j]
      BY <1>6, <3>2, <3>3
    <3> QED BY <3>1, <3>3, Zenon
  <2> QED BY <2>3, <2>4
<1>13. CountedRows'
  BY <1>1 DEF CacheInv, CountedRows
<1> QED BY <1>5, <1>8, <1>9, <1>10, <1>11, <1>12, <1>13 DEF CacheInv

LEMMA SetKeeps ==
    ASSUME CacheInv, NEW p \in Processes, NEW k \in Keys, set(p, k)
    PROVE  CacheInv'
<1>1. /\ open[p] /\ ~Pending(p) /\ UNCHANGED <<l2, horizon, open, dropped>>
  BY ReadyStep DEF set, Idle, Pending
<1>2. PICK s \in Nat : s = now + 1
  BY DEF CacheInv, CacheTypes
<1>3. PICK e \in CacheEntries : e = [key |-> k, stamp |-> s] /\ e.key = k /\ e.stamp = s
  <2>1. PICK e : e = [key |-> k, stamp |-> s]
    OBVIOUS
  <2>2. e \in CacheEntries /\ e.key = k /\ e.stamp = s
    BY <2>1 DEF CacheEntries
  <2> QED BY <2>1, <2>2
<1>4. PICK t \in Seq(CacheEntries) :
        /\ t = LRUSet(l1[p], e) /\ Distinct(t)
        /\ \A x \in Members(t) : (x \in Members(l1[p]) /\ x.key # k) \/ x = e
  BY <1>3, LRUSets DEF CacheInv, CacheTypes, L1Sound
<1>5. PICK d \in Steps : d = [at |-> "writing", key |-> k, stamp |-> s] /\ d.at = "writing" /\ d.key = k /\ d.stamp = s
  <2>1. PICK d : d = [at |-> "writing", key |-> k, stamp |-> s]
    OBVIOUS
  <2>2. d \in Steps /\ d.at = "writing" /\ d.key = k /\ d.stamp = s
    BY <2>1 DEF Steps
  <2> QED BY <2>1, <2>2
<1>6. /\ l1' = [l1 EXCEPT ![p] = t] /\ doing' = [doing EXCEPT ![p] = d] /\ now' = s
      /\ seen' = [seen EXCEPT ![p][k] = s] /\ behind' = [behind EXCEPT ![p][k] = FALSE]
  BY <1>2, <1>3, <1>4, <1>5 DEF set, Serve
<1>7. CacheTypes'
  BY <1>1, <1>6 DEF CacheInv, CacheTypes, Rows
<1>8. /\ \A q \in Processes : l1'[q] = IF q = p THEN t ELSE l1[q]
      /\ \A q \in Processes : doing'[q] = IF q = p THEN d ELSE doing[q]
      /\ \A q \in Processes, j \in Keys : seen'[q][j] = IF q = p /\ j = k THEN s ELSE seen[q][j]
      /\ \A q \in Processes, j \in Keys : q # p \/ j # k => behind'[q][j] = behind[q][j]
  BY <1>6 DEF CacheInv, CacheTypes
<1>9. \A q \in Processes : Pending(q)' <=> q = p \/ Pending(q)
  BY <1>5, <1>8 DEF Pending
<1>10. L1Sound'
  BY <1>1, <1>4, <1>8, <1>9 DEF CacheInv, L1Sound
<1>11. /\ \A j \in Rows : l2[j] \in Nat /\ l2[j] < s
       /\ \A q \in Processes : /\ \A x \in Members(l1[q]) : x.stamp < s
                               /\ Pending(q) => doing[q].stamp < s
                               /\ \A x \in dropped[q] : x < s
  <2>1. \A q \in Processes : \A x \in Members(l1[q]) : x \in CacheEntries
    BY ElementOfSeq, LenProperties DEF CacheInv, CacheTypes, Members
  <2>2. /\ \A j \in Rows : l2[j] \in Nat /\ l2[j] <= now
        /\ \A q \in Processes : /\ \A x \in Members(l1[q]) : x.stamp <= now /\ x.stamp \in Nat
                                /\ Pending(q) => doing[q].stamp <= now /\ doing[q].stamp \in Nat
                                /\ \A x \in dropped[q] : x <= now /\ x \in Nat
    BY <2>1, PendingType DEF CacheInv, CacheTypes, StampsPast, CacheEntries
  <2>3. now \in Nat
    BY DEF CacheInv, CacheTypes
  <2> QED BY <1>2, <2>2, <2>3
<1>12. StampsPast'
  <2>1. \A j \in Rows' : l2'[j] <= now'
    BY <1>1, <1>6, <1>11 DEF Rows
  <2>2. ASSUME NEW q \in Processes
        PROVE  /\ \A x \in Members(l1'[q]) : x.stamp <= now'
               /\ Pending(q)' => doing'[q].stamp <= now'
               /\ \A x \in dropped'[q] : x <= now'
               /\ \A j \in Keys : seen'[q][j] <= now'
    <3>1. \A x \in Members(l1[q]) : x.stamp \in Nat
      <4>1. \A x \in Members(l1[q]) : x \in CacheEntries
        BY ElementOfSeq, LenProperties DEF CacheInv, CacheTypes, Members
      <4> QED BY <4>1 DEF CacheEntries
    <3>2. \A x \in Members(l1[q]) : x.stamp <= s
      BY <3>1, <1>11
    <3>3. Pending(q) => doing[q].stamp <= s
      BY <1>11, PendingType
    <3>4. \A x \in dropped[q] : x <= s
      BY <1>11 DEF CacheInv, CacheTypes
    <3>5. \A j \in Keys : seen[q][j] <= s
      BY <1>2 DEF CacheInv, CacheTypes, StampsPast
    <3>6. \A x \in Members(l1'[q]) : x.stamp <= now'
      BY <1>3, <1>4, <1>6, <1>8, <3>2
    <3>7. Pending(q)' => doing'[q].stamp <= now'
      BY <1>5, <1>6, <1>8, <1>9, <3>3
    <3>8. \A j \in Keys : seen'[q][j] <= now'
      BY <1>6, <1>8, <3>5
    <3> QED BY <1>1, <1>6, <3>4, <3>6, <3>7, <3>8
  <2> QED BY <2>1, <2>2 DEF StampsPast
<1>13. RowsApart'
  BY <1>1 DEF CacheInv, RowsApart, Rows
<1>14. PendingNew'
  <2>1. ASSUME NEW q \in Processes, Pending(q)'
        PROVE  /\ \A j \in Rows : l2[j] # doing'[q].stamp
               /\ \A r \in Processes : doing'[q].stamp \notin dropped[r]
               /\ \A r \in Processes \ {q} : /\ \A x \in Members(l1'[r]) : x.stamp # doing'[q].stamp
                                             /\ Pending(r)' => doing'[r].stamp # doing'[q].stamp
               /\ doing'[q].stamp = seen'[q][doing'[q].key]
    <3>1. CASE q = p
      <4>1. doing'[q].stamp = s /\ doing'[q].key = k
        BY <1>5, <1>8, <3>1
      <4>2. (\A j \in Rows : l2[j] # s) /\ \A r \in Processes : s \notin dropped[r]
        BY <1>11
      <4>3. \A r \in Processes \ {p} : (\A x \in Members(l1'[r]) : x.stamp # s) /\ (Pending(r)' => doing'[r].stamp # s)
        BY <1>8, <1>9, <1>11
      <4> QED BY <1>8, <3>1, <4>1, <4>2, <4>3
    <3>2. CASE q # p
      <4>1. Pending(q) /\ doing'[q] = doing[q] /\ doing[q].key \in Keys
        BY <1>8, <1>9, <2>1, <3>2, PendingType
      <4>2. /\ \A j \in Rows : l2[j] # doing[q].stamp
            /\ \A r \in Processes : doing[q].stamp \notin dropped[r]
            /\ \A r \in Processes \ {q} : /\ \A x \in Members(l1[r]) : x.stamp # doing[q].stamp
                                          /\ Pending(r) => doing[r].stamp # doing[q].stamp
            /\ doing[q].stamp = seen[q][doing[q].key]
        BY <4>1 DEF CacheInv, PendingNew
      <4>3. doing[q].stamp # s
        BY <1>11, <4>1
      <4>4. ASSUME NEW r \in Processes \ {q}
            PROVE (\A x \in Members(l1'[r]) : x.stamp # doing[q].stamp) /\ (Pending(r)' => doing'[r].stamp # doing[q].stamp)
        BY <1>3, <1>4, <1>5, <1>8, <1>9, <4>2, <4>3
      <4>5. doing[q].stamp = seen'[q][doing[q].key]
        BY <1>8, <3>2, <4>1, <4>2
      <4> QED BY <4>1, <4>2, <4>4, <4>5
    <3> QED BY <3>1, <3>2
  <2> QED BY <1>1, <2>1 DEF PendingNew, Rows
<1>15. Cleared'
  <2>1. \A q \in Processes : s \notin dropped[q]
    BY <1>11
  <2> QED BY <1>1, <1>3, <1>4, <1>8, <2>1 DEF CacheInv, Cleared, Rows
<1>16. Recent'
  <2>1. SUFFICES ASSUME NEW q \in Processes, open[q]
                 PROVE  /\ \A x \in Members(l1'[q]) : x.stamp = seen'[q][x.key]
                        /\ \A j \in Rows : l2[j] >= seen'[q][j] \/ behind'[q][j] \/ (Pending(q)' /\ doing'[q].key = j)
    BY <1>1 DEF Recent, Rows
  <2>2. \A x \in Members(l1[q]) : x.stamp = seen[q][x.key] /\ x.key \in Keys
    <3>1. \A x \in Members(l1[q]) : x \in CacheEntries
      BY ElementOfSeq, LenProperties DEF CacheInv, CacheTypes, Members
    <3> QED BY <2>1, <3>1 DEF CacheInv, Recent, CacheEntries
  <2>3. \A x \in Members(l1'[q]) : x.stamp = seen'[q][x.key]
    BY <1>3, <1>4, <1>8, <2>2
  <2>4. ASSUME NEW j \in Rows
        PROVE  l2[j] >= seen'[q][j] \/ behind'[q][j] \/ (Pending(q)' /\ doing'[q].key = j)
    <3>1. l2[j] >= seen[q][j] \/ behind[q][j] \/ (Pending(q) /\ doing[q].key = j)
      BY <2>1, Zenon DEF CacheInv, Recent
    <3>2. j \in Keys
      BY DEF CacheInv, CacheTypes
    <3>3. CASE q = p /\ j = k
      BY <1>5, <1>8, <1>9, <3>3
    <3>4. CASE ~(q = p /\ j = k)
      <4>1. seen'[q][j] = seen[q][j] /\ behind'[q][j] = behind[q][j]
        BY <1>8, <3>2, <3>4
      <4>2. Pending(q) => Pending(q)' /\ doing'[q] = doing[q]
        BY <1>1, <1>8, <1>9
      <4> QED BY <3>1, <4>1, <4>2, Zenon
    <3> QED BY <3>3, <3>4
  <2> QED BY <2>3, <2>4
<1>17. CountedRows'
  BY <1>5, <1>8 DEF CacheInv, CountedRows
<1> QED BY <1>7, <1>10, <1>12, <1>13, <1>14, <1>15, <1>16, <1>17 DEF CacheInv

LEMMA ClearKeeps ==
    ASSUME CacheInv, NEW p \in Processes, clear(p)
    PROVE  CacheInv'
<1>1. /\ open[p] /\ ~Pending(p) /\ UNCHANGED <<now, horizon, open, doing, seen, behind>>
  BY ReadyStep DEF clear, Idle, Pending
<1>2. Rows' = {} /\ l2' \in [{} -> Nat]
  BY DEF clear, Rows
<1>3. PICK S : S = dropped[p] \union {l2[k] : k \in Rows} \union {e.stamp : e \in Members(l1[p])}
  OBVIOUS
<1>4. l1' = [l1 EXCEPT ![p] = <<>>] /\ dropped' = [dropped EXCEPT ![p] = S]
  BY <1>3 DEF clear, Cached, Members, CacheInv, CacheTypes
<1>5. \A e \in Members(l1[p]) : e.stamp \in Nat
  <2>1. \A e \in Members(l1[p]) : e \in CacheEntries
    BY ElementOfSeq, LenProperties DEF CacheInv, CacheTypes, Members
  <2> QED BY <2>1 DEF CacheEntries
<1>6. S \in SUBSET Nat /\ \A x \in S : x <= now
  BY <1>3, <1>5 DEF CacheInv, CacheTypes, StampsPast
<1>7. /\ l1' \in [Processes -> Seq(CacheEntries)] /\ \A q \in Processes : l1'[q] = IF q = p THEN <<>> ELSE l1[q]
      /\ dropped' \in [Processes -> SUBSET Nat] /\ \A q \in Processes : dropped'[q] = IF q = p THEN S ELSE dropped[q]
  BY <1>4, <1>6, EmptyMembers DEF CacheInv, CacheTypes
<1>8. \A q \in Processes : Members(l1'[q]) \subseteq Members(l1[q]) /\ Distinct(l1'[q])
  BY <1>7, EmptyMembers DEF CacheInv, L1Sound
<1>9. CacheTypes' /\ RowsApart'
  BY <1>1, <1>2, <1>7 DEF CacheInv, CacheTypes, RowsApart, Rows
<1>10. L1Sound'
  BY <1>1, <1>8 DEF CacheInv, L1Sound, Pending
<1>11. StampsPast'
  BY <1>1, <1>2, <1>6, <1>7, <1>8 DEF CacheInv, StampsPast, Pending
<1>12. PendingNew'
  <2>1. ASSUME NEW q \in Processes, Pending(q)
        PROVE  /\ \A r \in Processes : doing[q].stamp \notin dropped'[r]
               /\ \A r \in Processes \ {q} : /\ \A e \in Members(l1'[r]) : e.stamp # doing[q].stamp
                                             /\ Pending(r) => doing[r].stamp # doing[q].stamp
               /\ doing[q].stamp = seen[q][doing[q].key]
    <3>1. /\ \A k \in Rows : l2[k] # doing[q].stamp
          /\ \A r \in Processes : doing[q].stamp \notin dropped[r]
          /\ \A r \in Processes \ {q} : /\ \A e \in Members(l1[r]) : e.stamp # doing[q].stamp
                                        /\ Pending(r) => doing[r].stamp # doing[q].stamp
          /\ doing[q].stamp = seen[q][doing[q].key]
      BY <2>1 DEF CacheInv, PendingNew
    <3>2. p # q
      BY <1>1, <2>1
    <3>3. doing[q].stamp \notin S
      BY <1>3, <3>1, <3>2
    <3> QED BY <1>7, <1>8, <3>1, <3>3
  <2> QED BY <1>1, <1>2, <2>1 DEF PendingNew, Pending
<1>13. Cleared'
  BY <1>2, <1>7, EmptyMembers DEF CacheInv, Cleared
<1>14. Recent'
  BY <1>1, <1>2, <1>8 DEF CacheInv, Recent
<1>15. CountedRows'
  BY <1>1 DEF CacheInv, CountedRows
<1> QED BY <1>9, <1>10, <1>11, <1>12, <1>13, <1>14, <1>15 DEF CacheInv

\* A write that ends leaves its process's other entries alone.
LEMMA WriteKeeps ==
    ASSUME CacheInv, NEW p \in Processes, Write(p)
    PROVE  CacheInv'
<1>1. Pending(p) /\ open[p] /\ UNCHANGED <<l1, now, horizon, open, seen, dropped>>
  BY DEF Write, Pending
<1>2. PICK k \in Keys, s \in Nat : k = doing[p].key /\ s = doing[p].stamp
  BY <1>1, PendingType
<1>3. PICK d \in Steps : d = [at |-> "written"] /\ d.at = "written"
  <2>1. PICK d : d = [at |-> "written"]
    OBVIOUS
  <2>2. d \in Steps /\ d.at = "written"
    BY <2>1 DEF Steps
  <2> QED BY <2>1, <2>2
<1>4. /\ l2' = [j \in Rows \union {k} |-> IF j = k THEN s ELSE l2[j]]
      /\ behind' = [q \in Processes |-> IF seen[q][k] > s THEN [behind[q] EXCEPT ![k] = TRUE] ELSE behind[q]]
      /\ doing' = [doing EXCEPT ![p] = d]
  BY <1>2, <1>3 DEF Write
<1>5. Rows' = Rows \union {k} /\ l2' \in [Rows' -> Nat] /\ \A j \in Rows' : l2'[j] = IF j = k THEN s ELSE l2[j]
  BY <1>4 DEF Rows, CacheInv, CacheTypes
<1>6. /\ behind' \in [Processes -> [Keys -> BOOLEAN]]
      /\ \A q \in Processes : seen[q][k] > s => behind'[q][k]
      /\ \A q \in Processes, j \in Keys : behind[q][j] => behind'[q][j]
  <2>1. \A q \in Processes : behind[q] \in [Keys -> BOOLEAN]
    BY DEF CacheInv, CacheTypes
  <2>2. \A q \in Processes : behind'[q] = IF seen[q][k] > s THEN [behind[q] EXCEPT ![k] = TRUE] ELSE behind[q]
    BY <1>4
  <2>3. behind' \in [Processes -> [Keys -> BOOLEAN]]
    BY <1>4, <2>1
  <2>4. \A q \in Processes : seen[q][k] > s => behind'[q][k]
    BY <2>1, <2>2
  <2>5. ASSUME NEW q \in Processes, NEW j \in Keys, behind[q][j] PROVE behind'[q][j]
    <3>1. CASE seen[q][k] > s /\ j # k
      BY <2>1, <2>2, <2>5, <3>1
    <3>2. CASE seen[q][k] > s /\ j = k
      BY <2>4, <3>2
    <3>3. CASE ~(seen[q][k] > s)
      BY <2>2, <2>5, <3>3
    <3> QED BY <3>1, <3>2, <3>3
  <2> QED BY <2>3, <2>4, <2>5
<1>7. /\ doing' \in [Processes -> Steps] /\ ~Pending(p)'
      /\ \A q \in Processes : doing'[q] = IF q = p THEN d ELSE doing[q]
  BY <1>3, <1>4 DEF CacheInv, CacheTypes, Pending
<1>8. \A q \in Processes : Pending(q)' <=> q # p /\ Pending(q)
  BY <1>3, <1>7 DEF Pending
<1>9. /\ \A j \in Rows : l2[j] # s
      /\ \A q \in Processes : s \notin dropped[q]
      /\ \A q \in Processes \ {p} : /\ \A e \in Members(l1[q]) : e.stamp # s
                                    /\ Pending(q) => doing[q].stamp # s
      /\ s = seen[p][k] /\ s <= now
  BY <1>1, <1>2 DEF CacheInv, PendingNew, StampsPast
<1>10. CacheTypes'
  BY <1>1, <1>5, <1>6, <1>7 DEF CacheInv, CacheTypes
<1>11. L1Sound'
  BY <1>1, <1>8 DEF CacheInv, L1Sound
<1>12. StampsPast' /\ RowsApart'
  <2>1. \A j \in Rows' : l2'[j] <= now'
    BY <1>1, <1>5, <1>9 DEF CacheInv, StampsPast
  <2>2. RowsApart'
    BY <1>5, <1>9 DEF CacheInv, RowsApart
  <2>3. \A q \in Processes : Pending(q)' => doing'[q].stamp <= now'
    BY <1>1, <1>7, <1>8 DEF CacheInv, StampsPast
  <2> QED BY <1>1, <2>1, <2>2, <2>3 DEF CacheInv, StampsPast
<1>13. PendingNew'
  <2>1. ASSUME NEW q \in Processes, Pending(q)'
        PROVE  /\ \A j \in Rows' : l2'[j] # doing'[q].stamp
               /\ \A r \in Processes : doing'[q].stamp \notin dropped'[r]
               /\ \A r \in Processes \ {q} : /\ \A e \in Members(l1'[r]) : e.stamp # doing'[q].stamp
                                             /\ Pending(r)' => doing'[r].stamp # doing'[q].stamp
               /\ doing'[q].stamp = seen'[q][doing'[q].key]
    <3>1. q # p /\ Pending(q) /\ doing'[q] = doing[q]
      BY <1>7, <1>8, <2>1
    <3>2. /\ \A j \in Rows : l2[j] # doing[q].stamp
          /\ \A r \in Processes : doing[q].stamp \notin dropped[r]
          /\ \A r \in Processes \ {q} : /\ \A e \in Members(l1[r]) : e.stamp # doing[q].stamp
                                        /\ Pending(r) => doing[r].stamp # doing[q].stamp
          /\ doing[q].stamp = seen[q][doing[q].key]
      BY <3>1 DEF CacheInv, PendingNew
    <3>3. s # doing[q].stamp
      BY <1>9, <3>1
    <3>4. \A j \in Rows' : l2'[j] # doing'[q].stamp
      BY <1>5, <3>1, <3>2, <3>3
    <3>5. \A r \in Processes \ {q} : Pending(r)' => doing'[r].stamp # doing'[q].stamp
      BY <1>7, <1>8, <3>1, <3>2
    <3> QED BY <1>1, <3>1, <3>2, <3>4, <3>5
  <2> QED BY <2>1 DEF PendingNew
<1>14. Cleared'
  BY <1>1, <1>5, <1>9 DEF CacheInv, Cleared
<1>15. Recent'
  <2>1. SUFFICES ASSUME NEW q \in Processes, open[q]
                 PROVE  /\ \A e \in Members(l1[q]) : e.stamp = seen[q][e.key]
                        /\ \A j \in Rows' : l2'[j] >= seen[q][j] \/ behind'[q][j] \/ (Pending(q)' /\ doing'[q].key = j)
    BY <1>1 DEF Recent
  <2>2. \A e \in Members(l1[q]) : e.stamp = seen[q][e.key]
    BY <2>1 DEF CacheInv, Recent
  <2>3. ASSUME NEW j \in Rows'
        PROVE  l2'[j] >= seen[q][j] \/ behind'[q][j] \/ (Pending(q)' /\ doing'[q].key = j)
    <3>1. CASE j = k
      <4>1. l2'[j] = s /\ seen[q][j] \in Nat
        BY <1>5, <3>1 DEF CacheInv, CacheTypes
      <4>2. CASE seen[q][k] > s
        BY <1>6, <3>1, <4>2
      <4>3. CASE ~(seen[q][k] > s)
        BY <3>1, <4>1, <4>3
      <4> QED BY <4>2, <4>3
    <3>2. CASE j # k
      <4>1. j \in Rows /\ j \in Keys /\ l2'[j] = l2[j]
        BY <1>5, <3>2 DEF CacheInv, CacheTypes
      <4>2. l2[j] >= seen[q][j] \/ behind[q][j] \/ (Pending(q) /\ doing[q].key = j)
        BY <2>1, <4>1, Zenon DEF CacheInv, Recent
      <4>3. CASE l2[j] >= seen[q][j]
        BY <4>1, <4>3
      <4>4. CASE behind[q][j]
        BY <1>6, <4>1, <4>4
      <4>5. CASE Pending(q) /\ doing[q].key = j
        BY <1>2, <1>7, <1>8, <3>2, <4>5
      <4> QED BY <4>2, <4>3, <4>4, <4>5
    <3> QED BY <3>1, <3>2
  <2> QED BY <2>2, <2>3
<1>16. CountedRows'
  BY <1>3, <1>7 DEF CacheInv, CountedRows
<1> QED BY <1>10, <1>11, <1>12, <1>13, <1>14, <1>15, <1>16 DEF CacheInv

LEMMA WriteFailsKeeps ==
    ASSUME CacheInv, NEW p \in Processes, WriteFails(p)
    PROVE  CacheInv'
<1>1. Pending(p) /\ UNCHANGED <<l1, l2, now, horizon, open, seen, dropped>>
  BY DEF WriteFails, Pending
<1>2. PICK k \in Keys : k = doing[p].key
  BY <1>1, PendingType
<1>3. doing' = [doing EXCEPT ![p] = Ready] /\ behind' = [behind EXCEPT ![p][k] = TRUE]
  BY <1>2 DEF WriteFails
<1>4. /\ doing' \in [Processes -> Steps] /\ ~Pending(p)'
      /\ \A q \in Processes : doing'[q] = IF q = p THEN Ready ELSE doing[q]
  BY <1>3, ReadyStep DEF CacheInv, CacheTypes, Pending
<1>5. \A q \in Processes : Pending(q)' <=> q # p /\ Pending(q)
  BY <1>4, ReadyStep DEF Pending
<1>6. /\ behind' \in [Processes -> [Keys -> BOOLEAN]] /\ behind'[p][k]
      /\ \A q \in Processes, j \in Keys : behind[q][j] => behind'[q][j]
  <2>1. \A q \in Processes : behind[q] \in [Keys -> BOOLEAN]
    BY DEF CacheInv, CacheTypes
  <2>2. PICK b \in [Keys -> BOOLEAN] : b = [behind[p] EXCEPT ![k] = TRUE]
    BY <2>1
  <2>3. behind' \in [Processes -> [Keys -> BOOLEAN]] /\ \A q \in Processes : behind'[q] = IF q = p THEN b ELSE behind[q]
    BY <1>3, <2>2 DEF CacheInv, CacheTypes
  <2>4. b[k] /\ \A j \in Keys \ {k} : b[j] = behind[p][j]
    BY <2>1, <2>2
  <2>5. ASSUME NEW q \in Processes, NEW j \in Keys, behind[q][j] PROVE behind'[q][j]
    <3>1. CASE q = p /\ j # k
      BY <2>3, <2>4, <2>5, <3>1
    <3>2. CASE q = p /\ j = k
      BY <2>3, <2>4, <3>2
    <3>3. CASE q # p
      BY <2>3, <2>5, <3>3
    <3> QED BY <3>1, <3>2, <3>3
  <2> QED BY <2>3, <2>4, <2>5
<1>7. CacheTypes'
  BY <1>1, <1>4, <1>6 DEF CacheInv, CacheTypes, Rows
<1>8. L1Sound'
  BY <1>1, <1>5 DEF CacheInv, L1Sound
<1>9. StampsPast' /\ RowsApart' /\ Cleared'
  BY <1>1, <1>4, <1>5 DEF CacheInv, StampsPast, RowsApart, Cleared, Rows
<1>10. PendingNew'
  BY <1>1, <1>4, <1>5 DEF CacheInv, PendingNew, Rows
<1>11. Recent'
  <2>1. SUFFICES ASSUME NEW q \in Processes, open[q]
                 PROVE  /\ \A e \in Members(l1[q]) : e.stamp = seen[q][e.key]
                        /\ \A j \in Rows : l2[j] >= seen[q][j] \/ behind'[q][j] \/ (Pending(q)' /\ doing'[q].key = j)
    BY <1>1 DEF Recent, Rows
  <2>2. \A e \in Members(l1[q]) : e.stamp = seen[q][e.key]
    BY <2>1 DEF CacheInv, Recent
  <2>3. ASSUME NEW j \in Rows
        PROVE  l2[j] >= seen[q][j] \/ behind'[q][j] \/ (Pending(q)' /\ doing'[q].key = j)
    <3>1. j \in Keys
      BY DEF CacheInv, CacheTypes
    <3>2. l2[j] >= seen[q][j] \/ behind[q][j] \/ (Pending(q) /\ doing[q].key = j)
      BY <2>1, Zenon DEF CacheInv, Recent
    <3>3. CASE l2[j] >= seen[q][j]
      BY <3>3
    <3>4. CASE behind[q][j]
      BY <1>6, <3>1, <3>4
    <3>5. CASE Pending(q) /\ doing[q].key = j
      <4>1. CASE q = p
        BY <1>2, <1>6, <3>5, <4>1
      <4>2. CASE q # p
        BY <1>4, <1>5, <3>5, <4>2
      <4> QED BY <4>1, <4>2
    <3> QED BY <3>2, <3>3, <3>4, <3>5
  <2> QED BY <2>2, <2>3
<1>12. CountedRows'
  BY <1>4, ReadyStep DEF CacheInv, CountedRows
<1> QED BY <1>7, <1>8, <1>9, <1>10, <1>11, <1>12 DEF CacheInv

LEMMA CacheStarts == CacheInit => CacheInv
<1> SUFFICES ASSUME CacheInit PROVE CacheInv
  OBVIOUS
<1>1. /\ \A p \in Processes : l1[p] = <<>> /\ Members(l1[p]) = {} /\ Distinct(l1[p])
      /\ l1 \in [Processes -> Seq(CacheEntries)]
  BY EmptyMembers DEF CacheInit
<1>2. Rows = {} /\ l2 \in [{} -> Nat] /\ now = 0 /\ horizon = 0
  BY DEF CacheInit, Rows
<1>3. /\ doing \in [Processes -> Steps] /\ \A p \in Processes : doing[p] = Ready
      /\ \A p \in Processes : ~Pending(p) /\ doing[p].at # "evicting"
  BY ReadyStep DEF CacheInit, Pending
<1>4. /\ open \in [Processes -> BOOLEAN] /\ \A p \in Processes : ~open[p]
      /\ dropped \in [Processes -> SUBSET Nat] /\ \A p \in Processes : dropped[p] = {}
  BY DEF CacheInit
<1>5. /\ seen \in [Processes -> [Keys -> Nat]] /\ \A p \in Processes, k \in Keys : seen[p][k] = 0
      /\ behind \in [Processes -> [Keys -> BOOLEAN]]
  BY DEF CacheInit
<1>6. CacheTypes
  BY <1>1, <1>2, <1>3, <1>4, <1>5 DEF CacheTypes
<1>7. L1Sound /\ StampsPast /\ RowsApart
  BY <1>1, <1>2, <1>3, <1>4, <1>5 DEF L1Sound, StampsPast, RowsApart
<1>8. PendingNew /\ Cleared /\ Recent /\ CountedRows
  BY <1>1, <1>2, <1>3, <1>4 DEF PendingNew, Cleared, Recent, CountedRows
<1> QED BY <1>6, <1>7, <1>8 DEF CacheInv

\* What a step of the cache is.
CacheSteps ==
    \/ \E p \in Processes : \/ initialize(p) \/ clear(p) \/ Write(p) \/ WriteFails(p)
                            \/ \E k \in Keys : HitL2(p, k) \/ set(p, k)
    \/ Shrinks

LEMMA CacheActs == CacheInv /\ [CacheNext]_cacheVars => CacheSteps
<1> SUFFICES ASSUME CacheInv, [CacheNext]_cacheVars PROVE CacheSteps
  OBVIOUS
<1>1. CASE \E p \in Processes : initialize(p)
  BY <1>1 DEF CacheSteps
<1>2. ASSUME NEW p \in Processes, close(p) \/ clear(p) \/ ClearFails(p) PROVE CacheSteps
  BY <1>2, CloseShrinks, ClearFailsShrinks DEF CacheSteps
<1>3. ASSUME NEW p \in Processes,
             Write(p) \/ WriteFails(p) \/ checkAndEvict(p) \/ Evict(p) \/ EvictionFails(p)
      PROVE  CacheSteps
  BY <1>3, EvictionShrinks DEF CacheSteps
<1>4. ASSUME NEW p \in Processes, NEW k \in Keys, HitL1(p, k) \/ HitL2(p, k) \/ Miss(p, k) \/ set(p, k)
      PROVE  CacheSteps
  BY <1>4, HitL1Shrinks, MissShrinks DEF CacheSteps
<1>5. ASSUME NEW p \in Commands, statusCommand(p) \/ statsCommand(p) \/ clearCommand(p)
      PROVE  CacheSteps
  <2>1. p \in Processes
    BY SizesAssumption
  <2>2. close(p) \/ clear(p) \/ ClearFails(p)
    BY <1>5 DEF statusCommand, statsCommand, clearCommand
  <2> QED BY <1>2, <2>1, <2>2
<1>6. CASE ExpireResponses \/ UNCHANGED cacheVars
  BY <1>6, ExpiresShrinks DEF CacheSteps
<1>7. [CacheNext]_cacheVars =>
        \/ \E p \in Processes : initialize(p)
        \/ \E p \in Processes : \/ close(p) \/ clear(p) \/ ClearFails(p)
                                \/ Write(p) \/ WriteFails(p) \/ checkAndEvict(p) \/ Evict(p) \/ EvictionFails(p)
                                \/ \E k \in Keys : HitL1(p, k) \/ HitL2(p, k) \/ Miss(p, k) \/ set(p, k)
        \/ \E p \in Commands : statusCommand(p) \/ statsCommand(p) \/ clearCommand(p)
        \/ ExpireResponses \/ UNCHANGED cacheVars
  BY Zenon DEF CacheNext
<1> QED BY <1>1, <1>2, <1>3, <1>4, <1>5, <1>6, <1>7, Zenon

LEMMA CacheKeeps == CacheInv /\ [CacheNext]_cacheVars => CacheInv'
BY CacheActs, ShrinksKeep, InitializeKeeps, ClearKeeps, WriteKeeps, WriteFailsKeeps, HitL2Keeps, SetKeeps, Zenon
   DEF CacheSteps

LEMMA CacheHolds == CacheSpec => []CacheInv
BY CacheStarts, CacheKeeps, PTL DEF CacheSpec

\* A response that a process has cleared does not come back to it (response-cache.ts, clear, get and set),
\* whatever the other processes write and promote: a stamp is given once, and what another process
\* still has to write nobody has seen.
THEOREM ClearedGone == CacheSpec => []ClearedStaysCleared
<1>1. CacheInv => ClearedStaysCleared
  <2>1. \A p : Cached(p) = Members(l1[p])
    BY DEF Cached, Members
  <2> QED BY <2>1 DEF CacheInv, Cleared, ClearedStaysCleared
<1> QED BY <1>1, CacheHolds, PTL

\* A process does not go back to an older response than it has found or set (response-cache.ts, get and set),
\* unless a write of its own failed or one of another process came late.
THEOREM ResponsesForward == CacheSpec => NoGoingBack
<1>1. ASSUME CacheInv, [CacheNext]_cacheVars, NEW p \in Processes, NEW k \in Keys, open'[p], open[p], ~behind[p][k]
      PROVE  seen'[p][k] >= seen[p][k]
  <2>1. seen[p][k] \in Nat /\ seen[p][k] <= now /\ now \in Nat
    BY <1>1 DEF CacheInv, CacheTypes, StampsPast
  <2>2. CASE seen' = seen
    BY <2>1, <2>2
  <2>3. ASSUME NEW q \in Processes, initialize(q) PROVE seen'[p][k] >= seen[p][k]
    <3>1. q # p
      BY <1>1, <2>3 DEF initialize
    <3> QED BY <2>1, <2>3, <3>1 DEF initialize, CacheInv, CacheTypes
  <2>4. ASSUME NEW q \in Processes, NEW j \in Keys, HitL2(q, j) PROVE seen'[p][k] >= seen[p][k]
    <3>1. seen' = [seen EXCEPT ![q][j] = l2[j]] /\ j \in Rows /\ ~Pending(q)
      BY <2>4, ReadyStep DEF HitL2, Serve, Idle, Pending
    <3>2. seen'[p][k] = IF p = q /\ k = j THEN l2[j] ELSE seen[p][k]
      BY <1>1, <3>1 DEF CacheInv, CacheTypes
    <3>3. CASE p = q /\ k = j
      <4>1. l2[k] >= seen[p][k] \/ behind[p][k] \/ (Pending(p) /\ doing[p].key = k)
        BY <1>1, <3>1, <3>3, Zenon DEF CacheInv, Recent
      <4>2. l2[k] >= seen[p][k]
        BY <1>1, <3>1, <3>3, <4>1, Zenon
      <4> QED BY <3>2, <3>3, <4>2
    <3> QED BY <2>1, <3>2, <3>3
  <2>5. ASSUME NEW q \in Processes, NEW j \in Keys, set(q, j) PROVE seen'[p][k] >= seen[p][k]
    <3>1. seen' = [seen EXCEPT ![q][j] = now + 1]
      BY <2>5 DEF set, Serve
    <3>2. seen'[p][k] = IF p = q /\ k = j THEN now + 1 ELSE seen[p][k]
      BY <1>1, <3>1 DEF CacheInv, CacheTypes
    <3> QED BY <2>1, <3>2
  <2>6. CacheSteps
    BY <1>1, CacheActs
  <2> QED BY <2>2, <2>3, <2>4, <2>5, <2>6 DEF CacheSteps, Shrinks, clear, Write, WriteFails
<1>2. CacheInv /\ [CacheNext]_cacheVars => \A p \in Processes, k \in Keys :
          open'[p] => (seen'[p][k] >= seen[p][k] \/ behind[p][k] \/ ~open[p])
  BY <1>1, Zenon
<1> QED BY <1>2, CacheHolds, PTL DEF CacheSpec, NoGoingBack

\* An eviction: how many rows are older than a row tells the rows apart, so that no more go than were to go.
LEMMA EvictionSpares ==
    ASSUME CacheInv, NEW p \in Processes, Evict(p), count >= doing[p].of
    PROVE  Cardinality({k \in DOMAIN l2' : l2'[k] > horizon}) >= Keep
<1> DEFINE Older(k) == {j \in Rows : l2[j] < l2[k]}
<1>1. PICK n \in Int, of \in Nat : n = doing[p].n /\ of = doing[p].of /\ n = of - Keep /\ of > MaxSize
  <2>1. doing[p].at = "evicting"
    BY DEF Evict
  <2>2. doing[p].n \in Int /\ doing[p].of \in Nat
    BY <2>1 DEF CacheInv, CacheTypes, Steps
  <2> QED BY <2>1, <2>2 DEF CacheInv, CountedRows
<1>2. n \in Nat \ {0} /\ Keep \in Nat
  BY <1>1, SizesAssumption
<1>3. IsFiniteSet(Rows) /\ \A k \in Rows : l2[k] \in Nat
  BY SizesAssumption, FS_Subset DEF CacheInv, CacheTypes
<1>4. \A k : IsFiniteSet(Older(k)) /\ Cardinality(Older(k)) \in Nat
  BY <1>3, FS_Subset, FS_CardinalityType
<1>5. ASSUME NEW j \in Rows, NEW k \in Rows, l2[j] < l2[k]
      PROVE  Cardinality(Older(j)) # Cardinality(Older(k))
  <2>1. Older(j) \in SUBSET Older(k)
    BY <1>3, <1>5
  <2>2. j \in Older(k) /\ j \notin Older(j)
    BY <1>3, <1>5
  <2>3. Older(k) # Older(j)
    BY <2>2
  <2> QED BY <1>4, <2>1, <2>3, FS_Subset
<1>6. PICK D : D = {k \in Rows : Cardinality(Older(k)) < n}
  OBVIOUS
<1>7. IsFiniteSet(D) /\ D \subseteq Rows /\ Cardinality(D) \in Nat
  BY <1>3, <1>6, FS_Subset, FS_CardinalityType
<1>8. Cardinality(D) <= n
  <2>1. IsFiniteSet(0..(n - 1)) /\ Cardinality(0..(n - 1)) = n
    <3>1. n - 1 \in Int /\ ~(0 > n - 1) /\ n - 1 - 0 + 1 = n
      BY <1>2
    <3>2. /\ IsFiniteSet(0..(n - 1))
          /\ Cardinality(0..(n - 1)) = IF 0 > n - 1 THEN 0 ELSE n - 1 - 0 + 1
      BY <3>1, FS_Interval
    <3> QED BY <3>1, <3>2
  <2>2. PICK f : f = [k \in D |-> Cardinality(Older(k))]
    OBVIOUS
  <2>3. f \in [D -> 0..(n - 1)]
    <3>1. \A k \in D : Cardinality(Older(k)) \in 0..(n - 1)
      <4>1. ASSUME NEW k \in D PROVE Cardinality(Older(k)) \in 0..(n - 1)
        <5>1. PICK c \in Nat : c = Cardinality(Older(k))
          BY <1>4
        <5>2. c < n
          BY <1>6, <5>1
        <5>3. c \in 0..(n - 1)
          BY <1>2, <5>2
        <5> QED BY <5>1, <5>3
      <4> QED BY <4>1
    <3> QED BY <2>2, <3>1
  <2>4. ASSUME NEW j \in D, NEW k \in D, f[j] = f[k] PROVE j = k
    <3>1. j \in Rows /\ k \in Rows /\ Cardinality(Older(j)) = Cardinality(Older(k))
      BY <1>7, <2>2, <2>4
    <3>2. ~(l2[j] < l2[k]) /\ ~(l2[k] < l2[j])
      BY <1>5, <3>1
    <3>3. l2[j] = l2[k]
      BY <1>3, <3>1, <3>2
    <3> QED BY <3>1, <3>3 DEF CacheInv, RowsApart
  <2>5. CASE n < Cardinality(D)
    BY <1>7, <2>1, <2>3, <2>4, <2>5, FS_PigeonHole
  <2> QED BY <1>2, <1>7, <2>5
<1>9. PICK L : L = {k \in Rows : Live(k)}
  OBVIOUS
<1>10. /\ IsFiniteSet(L) /\ L \subseteq Rows /\ Cardinality(L) = count /\ Cardinality(L) \in Nat
       /\ Cardinality(L \cap D) \in Nat /\ Cardinality(L \cap D) <= Cardinality(D)
  <2>1. IsFiniteSet(L) /\ L \subseteq Rows /\ Cardinality(L) = count
    BY <1>3, <1>9, FS_Subset DEF count
  <2>2. L \cap D \in SUBSET D
    OBVIOUS
  <2> QED BY <1>7, <2>1, <2>2, FS_Subset, FS_CardinalityType
<1>11. Cardinality(L \ D) = Cardinality(L) - Cardinality(L \cap D)
  BY <1>10, FS_Difference
<1>12. Cardinality(L \ D) >= Keep
  BY <1>1, <1>2, <1>7, <1>8, <1>10, <1>11
<1>13. {k \in DOMAIN l2' : l2'[k] > horizon} = L \ D
  <2>1. PICK S : S = {k \in Rows : Cardinality(Older(k)) >= n}
    OBVIOUS
  <2>2. l2' = [k \in S |-> l2[k]]
    BY <1>1, <2>1 DEF Evict
  <2>3. \A k \in Rows : k \in S <=> k \notin D
    <3>1. ASSUME NEW k \in Rows PROVE k \in S <=> k \notin D
      <4>1. PICK c \in Nat : c = Cardinality(Older(k))
        BY <1>4
      <4>2. k \in S <=> c >= n
        BY <2>1, <4>1
      <4>3. k \in D <=> c < n
        BY <1>6, <4>1
      <4>4. c >= n <=> ~(c < n)
        BY <1>2
      <4> QED BY <4>2, <4>3, <4>4
    <3> QED BY <3>1
  <2>4. DOMAIN l2' = S /\ (\A k \in S : l2'[k] = l2[k]) /\ S \subseteq Rows
    BY <2>1, <2>2
  <2> HIDE DEF Older
  <2> QED BY <1>9, <1>10, <2>3, <2>4 DEF Live
<1> QED BY <1>12, <1>13

\* An eviction spares the responses it means to keep (response-cache.ts, checkAndEvict), whatever the
\* other processes do between its two statements that does not take rows away itself.
THEOREM EvictionsSpare == CacheSpec => EvictionSparing
<1>1. ASSUME CacheInv, [CacheNext]_cacheVars, NEW p \in Processes,
             doing[p].at = "evicting", l2' # l2, doing' # doing, doing'[p] = Ready, count >= doing[p].of
      PROVE  Evict(p)
  <2>1. Ready.at # "evicting"
    BY ReadyStep
  <2>2. ASSUME NEW q \in Processes, Evict(q) PROVE Evict(p)
    <3>1. q # p => doing'[p] = doing[p]
      BY <2>2 DEF Evict
    <3> QED BY <1>1, <2>1, <2>2, <3>1
  <2>3. ASSUME NEW q \in Processes, Write(q) PROVE FALSE
    <3>1. q # p
      BY <1>1, <2>3 DEF Write
    <3>2. doing'[p] = doing[p]
      BY <2>3, <3>1 DEF Write
    <3> QED BY <1>1, <2>1, <3>2
  <2>4. \E q \in Processes : Evict(q) \/ Write(q) \/ close(q)
    BY <1>1, SizesAssumption, Zenon
       DEF CacheNext, cacheVars, initialize, clear, ClearFails, WriteFails, checkAndEvict, EvictionFails, HitL1, HitL2, Miss,
           set, statusCommand, statsCommand, clearCommand, ExpireResponses
  <2>5. ASSUME NEW q \in Processes, close(q) PROVE FALSE
    BY <1>1, <2>5 DEF close
  <2> QED BY <2>2, <2>3, <2>4, <2>5
<1>2. CacheInv /\ [CacheNext]_cacheVars => \A p \in Processes :
          (doing[p].at = "evicting" /\ l2' # l2 /\ doing' # doing /\ doing'[p] = Ready /\ count >= doing[p].of)
              => Cardinality({k \in DOMAIN l2' : l2'[k] > horizon}) >= Keep
  BY <1>1, EvictionSpares, Zenon
<1> QED BY <1>2, CacheHolds, PTL DEF CacheSpec, EvictionSparing
=============================================================================
