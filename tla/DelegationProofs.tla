--------------------------- MODULE DelegationProofs ---------------------------
(***************************************************************************)
(* How far delegation goes, where its failures end up, and which agent an  *)
(* identifier means, for any agents, limits, dependencies and answers.     *)
(*                                                                         *)
(* In the first part nothing depends on what a run asks or is told, so     *)
(* the values in a run are from some set that grows: what an answer asks   *)
(* needs no type.                                                          *)
(*                                                                         *)
(* The second part is about the loader of profiles.  What a call has seen  *)
(* of the files stays true of some files of the past (Sound); the map of   *)
(* display names, as far as it has been built, gives for the names added   *)
(* so far what they have always meant (Scanned), and those to come are     *)
(* behind them in the directories as they were listed (Ordered).           *)
(*                                                                         *)
(* The third part counts the sizes in the ability cache: the size of some  *)
(* entries is a number of units, those of entries at different places are  *)
(* different, and moving entries moves their units one by one (Weight).    *)
(* What the total lacks is known after every operation (Accounted).        *)
(*                                                                         *)
(* The fourth part counts what a run asked and what it was told (Number).  *)
(* A sequential run has the results of its first requests, and one that    *)
(* waits for another has a request left; the nodes of a graph answer all   *)
(* that its run has asked, the node of an agent at the place where it is   *)
(* first mentioned and for all its mentions (AllFull).  What is left of a  *)
(* run descends with every step, in an order that has no endless descent   *)
(* (Less, and within a graph the numbers of agents still to be settled).   *)
(***************************************************************************)
EXTENDS Delegation, Profiles, SequenceTheorems, FiniteSetTheorems, WellFoundedInduction, TLAPS

Ways == {"preparing", "asking", "sequential", "parallel", "done"}

RunOf(A) ==
    [agent : A, task : A, chain : Seq(A), session : A, way : Ways, asked : A, results : A]

\* Until its delegations have been dealt with, a run has a list of results.
Listed(run, A) == run.way \in {"preparing", "asking", "sequential"} => run.results \in Seq(A)

\* Runs over values of A; all of them but the top one delegate one by one.
StackOf(A) ==
    /\ stack \in Seq(RunOf(A))
    /\ \A i \in 1 .. Len(stack) : Listed(stack[i], A)
    /\ \A i \in 1 .. Len(stack) : i < Len(stack) => stack[i].way = "sequential"

\* A delegated run never delegates one by one: its options are the default ones.
DelegatesOnce == \A i \in 1 .. Len(stack) : stack[i].way = "sequential" => i = 1

Chains == \A i \in 1 .. Len(stack) : stack[i].chain = [j \in 1 .. i - 1 |-> NameOf[stack[j].agent]]

Stacked == (\E A : StackOf(A)) /\ DelegatesOnce /\ Chains

-----------------------------------------------------------------------------
\* What holds of runs over A holds of them over a larger set.
LEMMA Larger ==
    ASSUME NEW A, NEW B, A \subseteq B, StackOf(A)
    PROVE  StackOf(B)
<1>1. Seq(A) \subseteq Seq(B)
  OBVIOUS
<1>2. RunOf(A) \subseteq RunOf(B)
  BY <1>1 DEF RunOf
<1>3. stack \in Seq(RunOf(B))
  BY <1>2 DEF StackOf
<1> QED BY <1>1, <1>3 DEF StackOf, Listed

LEMMA TopIsRun ==
    ASSUME NEW A, StackOf(A), stack # <<>>
    PROVE  /\ Len(stack) \in Nat /\ Len(stack) >= 1
           /\ Top \in RunOf(A) /\ Listed(Top, A)
<1>1. stack \in Seq(RunOf(A)) /\ Len(stack) \in Nat
  BY DEF StackOf
<1>2. Len(stack) >= 1
  BY <1>1
<1> QED BY <1>1, <1>2 DEF StackOf, Top

\* The top run changes, but stays the run of that agent.
LEMMA TopChanges ==
    ASSUME Stacked, stack # <<>>, NEW A, StackOf(A), NEW run \in RunOf(A),
           run.agent = Top.agent, run.chain = Top.chain, Listed(run, A),
           run.way = "sequential" => Len(stack) = 1,
           stack' = WithTop(run)
    PROVE  Stacked'
<1>1. Len(stack) \in Nat /\ Len(stack) >= 1 /\ Top \in RunOf(A) /\ stack \in Seq(RunOf(A))
  BY TopIsRun DEF StackOf
<1>2. /\ stack' \in Seq(RunOf(A)) /\ Len(stack') = Len(stack)
      /\ stack'[Len(stack)] = run
      /\ \A i \in 1 .. Len(stack) : i # Len(stack) => stack'[i] = stack[i]
  BY <1>1 DEF WithTop
<1>3. StackOf(A)'
  BY <1>1, <1>2 DEF StackOf
<1>4. DelegatesOnce'
  BY <1>1, <1>2 DEF DelegatesOnce, Stacked
<1>5. \A j \in 1 .. Len(stack) : stack'[j].agent = stack[j].agent /\ stack'[j].chain = stack[j].chain
  BY <1>1, <1>2 DEF Top
<1>6. Chains'
  <2> SUFFICES ASSUME NEW i \in 1 .. Len(stack')
               PROVE  stack'[i].chain = [j \in 1 .. i - 1 |-> NameOf[stack'[j].agent]]
    BY DEF Chains
  <2>1. i \in 1 .. Len(stack) /\ stack[i].chain = [j \in 1 .. i - 1 |-> NameOf[stack[j].agent]]
    BY <1>2 DEF Stacked, Chains
  <2>2. \A j \in 1 .. i - 1 : j \in 1 .. Len(stack)
    BY <1>1, <2>1
  <2> QED BY <1>5, <2>1, <2>2
<1> QED BY <1>3, <1>4, <1>6 DEF Stacked

\* A run ends: there is none left, or the one below has one more result.
LEMMA Ended ==
    ASSUME Stacked, stack # <<>>, NEW ok, EndRun(ok)
    PROVE  /\ Stacked'
           /\ Len(stack) > 1 =>
                /\ Len(stack') = Len(stack) - 1
                /\ Len(stack'[Len(stack')].results) = Len(stack[Len(stack')].results) + 1
<1>1. PICK A : StackOf(A)
  BY DEF Stacked
<1>2. Len(stack) \in Nat /\ Len(stack) >= 1 /\ stack \in Seq(RunOf(A))
  BY <1>1, TopIsRun DEF StackOf
<1>3. CASE Len(stack) = 1
  <2>1. stack' = <<>>
    BY <1>2, <1>3 DEF EndRun
  <2>2. StackOf(A)' /\ DelegatesOnce' /\ Chains'
    BY <2>1 DEF StackOf, DelegatesOnce, Chains
  <2> QED BY <1>3, <2>2 DEF Stacked
<1>4. CASE Len(stack) > 1
  <2> DEFINE n == Len(stack) - 1
  <2>0. PICK answer, list, B, ended :
        /\ answer = [to |-> NextAsked(stack[n]).to, task |-> NextAsked(stack[n]).task,
                      ok |-> ok, ran |-> Top.task]
        /\ list = Append(stack[n].results, answer)
        /\ B = A \cup {answer, list}
        /\ ended = [stack[n] EXCEPT !.results = list]
    OBVIOUS
  <2>1. n \in Nat /\ n >= 1 /\ n \in 1 .. Len(stack)
    BY <1>2, <1>4
  <2>2. Below \in Seq(RunOf(A)) /\ Len(Below) = n /\ \A i \in 1 .. n : Below[i] = stack[i]
    BY <1>2, <2>1, SubSeqProperties DEF Below
  <2>3. stack' = [Below EXCEPT ![n] = ended]
    <3>1. stack' = [Below EXCEPT ![n] = AnsweredBy(Below[n], ok, Top.task)]
      BY <1>4, <2>2 DEF EndRun
    <3>2. Below[n] = stack[n]
      BY <2>1, <2>2
    <3>3. AnsweredBy(stack[n], ok, Top.task) = ended
      BY <2>0 DEF AnsweredBy
    <3> QED BY <3>1, <3>2, <3>3
  <2>4. stack[n].way = "sequential" /\ stack[n] \in RunOf(A) /\ stack[n].results \in Seq(A)
    BY <1>1, <1>2, <2>1 DEF StackOf, Listed
  <2>5. list \in Seq(B) /\ Len(list) = Len(stack[n].results) + 1
    BY <2>0, <2>4, AppendProperties
  <2>6. StackOf(B)
    BY <1>1, <2>0, Larger
  <2>7. ended \in RunOf(B) /\ ended.results = list /\ ended.agent = stack[n].agent
        /\ ended.chain = stack[n].chain /\ ended.way = stack[n].way
    <3>1. stack[n] \in RunOf(B) /\ list \in B
      BY <2>0, <2>1, <2>6 DEF StackOf
    <3>2. ended = [stack[n] EXCEPT !.results = list]
      BY <2>0
    <3> HIDE DEF n
    <3> QED BY <3>1, <3>2 DEF RunOf
  <2>8. Below \in Seq(RunOf(B))
    BY <1>2, <2>1, <2>6, SubSeqProperties DEF Below, StackOf
  <2>9. /\ stack' \in Seq(RunOf(B)) /\ Len(stack') = n
        /\ stack'[n] = ended
        /\ \A i \in 1 .. n : i # n => stack'[i] = stack[i]
    BY <2>1, <2>2, <2>3, <2>7, <2>8
  <2>10. stack'[n].results = list /\ stack'[n].agent = stack[n].agent
         /\ stack'[n].chain = stack[n].chain /\ stack'[n].way = stack[n].way
    BY <2>7, <2>9
  <2>11. \A i \in 1 .. n : /\ stack'[i].agent = stack[i].agent
                           /\ stack'[i].chain = stack[i].chain
                           /\ stack'[i].way = stack[i].way
    BY <2>9, <2>10
  <2>12. StackOf(B)'
    <3>1. \A i \in 1 .. n : Listed(stack'[i], B)
      <4>1. Listed(stack'[n], B)
        BY <2>5, <2>9, <2>10 DEF Listed
      <4>2. \A i \in 1 .. n : Listed(stack[i], B)
        BY <1>2, <2>1, <2>6 DEF StackOf
      <4> QED BY <2>9, <4>1, <4>2
    <3>2. \A i \in 1 .. n : i < n => stack'[i].way = "sequential"
      BY <1>2, <2>1, <2>6, <2>11 DEF StackOf
    <3> QED BY <2>9, <3>1, <3>2 DEF StackOf
  <2>13. DelegatesOnce'
    BY <1>2, <2>1, <2>9, <2>11 DEF DelegatesOnce, Stacked
  <2>14. Chains'
    <3> SUFFICES ASSUME NEW i \in 1 .. Len(stack')
                 PROVE  stack'[i].chain = [j \in 1 .. i - 1 |-> NameOf[stack'[j].agent]]
      BY DEF Chains
    <3>1. i \in 1 .. n /\ stack[i].chain = [j \in 1 .. i - 1 |-> NameOf[stack[j].agent]]
      BY <1>2, <2>1, <2>9 DEF Stacked, Chains
    <3>2. \A j \in 1 .. i - 1 : j \in 1 .. n
      BY <2>1, <3>1
    <3> QED BY <2>11, <3>1, <3>2
  <2>15. Stacked'
    BY <2>12, <2>13, <2>14 DEF Stacked
  <2> QED BY <2>5, <2>9, <2>10, <2>15
<1>5. Len(stack) = 1 \/ Len(stack) > 1
  <2>1. Len(stack) \in Nat /\ Len(stack) >= 1
    BY <1>2
  <2> QED BY <2>1
<1> QED BY <1>3, <1>4, <1>5

\* A delegation becomes a run above the one that asked for it.
LEMMA Delegated ==
    ASSUME Stacked, Delegate
    PROVE  Stacked' /\ Len(stack') = Len(stack) + 1
<1>1. PICK A : StackOf(A)
  BY DEF Stacked
<1>2. stack # <<>> /\ Top.way = "sequential"
  BY DEF Delegate, Delegating, On
<1>3. /\ Len(stack) \in Nat /\ Len(stack) >= 1 /\ stack \in Seq(RunOf(A))
      /\ Top \in RunOf(A)
  BY <1>1, <1>2, TopIsRun DEF StackOf
<1>4. Len(stack) = 1
  <2>1. Len(stack) \in 1 .. Len(stack) /\ stack[Len(stack)].way = "sequential"
    BY <1>2, <1>3 DEF Top
  <2> QED BY <2>1 DEF Stacked, DelegatesOnce
<1>0. PICK d, session, B, run :
      /\ d = NextAsked(Top)
      /\ session = IF Top.session > 0 THEN Top.session ELSE Len(sessions) + 1
      /\ B = A \cup {d.to, d.task, session, <<>>, NameOf[Top.agent]}
      /\ run = NewRun(d.to, d.task, Append(Top.chain, NameOf[Top.agent]), session, "preparing")
  OBVIOUS
<1>5. StackOf(B)
  BY <1>0, <1>1, Larger
<1>6. Top.chain \in Seq(A) /\ Top.agent \in A
  BY <1>3 DEF RunOf
<1>7. Append(Top.chain, NameOf[Top.agent]) \in Seq(B)
  BY <1>0, <1>6
<1>8. run \in RunOf(B) /\ run.way = "preparing" /\ run.results = <<>>
  BY <1>0, <1>7 DEF RunOf, NewRun, Ways
<1>9. stack' = Append(stack, run)
  BY <1>0 DEF Delegate
<1>10. /\ stack' \in Seq(RunOf(B)) /\ Len(stack') = 2
       /\ stack'[1] = stack[1] /\ stack'[2] = run
  <2>1. stack \in Seq(RunOf(B))
    BY <1>5 DEF StackOf
  <2>2. Append(stack, run) \in Seq(RunOf(B))
    BY <1>8, <2>1, AppendProperties
  <2>3. Len(Append(stack, run)) = 2 /\ Append(stack, run)[2] = run
        /\ Append(stack, run)[1] = stack[1]
    BY <1>4, <2>1
  <2> QED BY <1>9, <2>2, <2>3
<1>11. StackOf(B)'
  <2>1. Listed(stack'[1], B) /\ Listed(stack'[2], B)
    <3>1. Listed(stack[1], B)
      BY <1>4, <1>5 DEF StackOf
    <3>2. Listed(stack'[1], B)
      BY <1>10, <3>1
    <3>3. run.results \in Seq(B)
      BY <1>8
    <3>4. Listed(stack'[2], B)
      BY <1>10, <3>3 DEF Listed
    <3> QED BY <3>2, <3>4
  <2>2. stack'[1].way = "sequential"
    BY <1>2, <1>4, <1>10 DEF Top
  <2> QED BY <1>10, <2>1, <2>2 DEF StackOf
<1>12. DelegatesOnce'
  BY <1>8, <1>10 DEF DelegatesOnce
<1>13. Chains'
  <2>1. stack[1].chain = [j \in 1 .. 0 |-> NameOf[stack[j].agent]]
    BY <1>4 DEF Stacked, Chains
  <2>2. stack'[1].chain = [j \in 1 .. 1 - 1 |-> NameOf[stack'[j].agent]]
    BY <1>10, <2>1
  <2>3. Len(Top.chain) = 0
    BY <1>4, <1>6, <2>1 DEF Top
  <2>4. Append(Top.chain, NameOf[Top.agent]) = [j \in 1 .. 1 |-> NameOf[Top.agent]]
    BY <1>6, <2>3
  <2>5. run.chain = [j \in 1 .. 1 |-> NameOf[stack'[j].agent]]
    BY <1>0, <1>4, <1>10, <2>4 DEF NewRun, Top
  <2>6. stack'[2].chain = [j \in 1 .. 2 - 1 |-> NameOf[stack'[j].agent]]
    BY <1>10, <2>5
  <2> QED BY <1>10, <2>2, <2>6 DEF Chains
<1> QED BY <1>4, <1>10, <1>11, <1>12, <1>13 DEF Stacked

-----------------------------------------------------------------------------
LEMMA InitStacked == Init => Stacked
<1> SUFFICES ASSUME Init PROVE Stacked
  OBVIOUS
<1>1. PICK a \in Agents, s \in {0, 1} : stack = <<NewRun(a, UserTask, <<>>, s, "preparing")>>
  BY DEF Init
<1>0. PICK A : A = {a, UserTask, s, <<>>}
  OBVIOUS
<1>2. stack[1] \in RunOf(A) /\ stack[1].way = "preparing" /\ stack[1].results = <<>>
      /\ stack[1].chain = <<>> /\ Len(stack) = 1 /\ stack \in Seq(RunOf(A))
  BY <1>0, <1>1 DEF NewRun, RunOf, Ways
<1>3. StackOf(A)
  <2>1. Listed(stack[1], A)
    BY <1>2 DEF Listed
  <2> QED BY <1>2, <2>1 DEF StackOf
<1>4. DelegatesOnce /\ Chains
  BY <1>2 DEF DelegatesOnce, Chains
<1> QED BY <1>3, <1>4 DEF Stacked

\* What FailureContained says of a step.
Contained ==
    Len(stack') < Len(stack) /\ Len(stack) > 1 =>
        /\ Len(stack') = Len(stack) - 1
        /\ Len(stack'[Len(stack')].results) = Len(stack[Len(stack')].results) + 1

\* A step changes how far the top run is, which has at most one result more if it goes on delegating.
LEMMA TopStep ==
    ASSUME Stacked, stack # <<>>, NEW way \in Ways \ {"preparing"}, NEW asked, NEW results,
           way = "sequential" => Len(stack) = 1,
           way \in {"asking", "sequential"} =>
               /\ Top.way \in {"preparing", "asking", "sequential"}
               /\ results = Top.results \/ \E answer : results = Append(Top.results, answer),
           stack' = WithTop([Top EXCEPT !.way = way, !.asked = asked, !.results = results])
    PROVE  Stacked' /\ Contained
<1>1. PICK A : StackOf(A)
  BY DEF Stacked
<1>2. PICK answer : way \in {"asking", "sequential"} =>
                        results = Top.results \/ results = Append(Top.results, answer)
  OBVIOUS
<1>3. PICK B, run : /\ B = A \cup {asked, results, answer}
                    /\ run = [Top EXCEPT !.way = way, !.asked = asked, !.results = results]
  OBVIOUS
<1>4. StackOf(B)
  BY <1>1, <1>3, Larger
<1>5. Len(stack) \in Nat /\ Len(stack) >= 1 /\ Top \in RunOf(B) /\ Listed(Top, B)
      /\ stack \in Seq(RunOf(B))
  BY <1>4, TopIsRun DEF StackOf
<1>6. /\ run \in RunOf(B) /\ run.agent = Top.agent /\ run.chain = Top.chain
      /\ run.way = way /\ run.results = results
  BY <1>3, <1>5 DEF RunOf
<1>7. Listed(run, B)
  <2> SUFFICES ASSUME way \in {"asking", "sequential"} PROVE results \in Seq(B)
    BY <1>6 DEF Listed
  <2>1. Top.results \in Seq(B) /\ answer \in B
    BY <1>3, <1>5 DEF Listed
  <2> QED BY <1>2, <2>1, AppendProperties
<1>8. Stacked'
  BY <1>3, <1>4, <1>6, <1>7, TopChanges
<1>9. Len(stack') = Len(stack)
  BY <1>5 DEF WithTop
<1> QED BY <1>5, <1>8, <1>9 DEF Contained

\* Fields that are not mentioned stay as they are.
LEMMA Unmentioned ==
    ASSUME NEW A, NEW r \in RunOf(A), NEW way, NEW asked, NEW results
    PROVE  /\ [r EXCEPT !.way = way]
                = [r EXCEPT !.way = way, !.asked = r.asked, !.results = r.results]
           /\ [r EXCEPT !.way = way, !.asked = asked]
                = [r EXCEPT !.way = way, !.asked = asked, !.results = r.results]
           /\ [r EXCEPT !.way = way, !.results = results]
                = [r EXCEPT !.way = way, !.asked = r.asked, !.results = results]
           /\ [r EXCEPT !.results = results]
                = [r EXCEPT !.way = r.way, !.asked = r.asked, !.results = results]
BY DEF RunOf

LEMMA NextStacked == Stacked /\ [Next]_vars => Stacked' /\ Contained
<1> SUFFICES ASSUME Stacked, [Next]_vars PROVE Stacked' /\ Contained
  OBVIOUS
<1>0. PICK A : StackOf(A)
  BY DEF Stacked
<1>1. Len(stack) \in Nat /\ (stack # <<>> => Top \in RunOf(A) /\ Len(stack) >= 1)
  BY <1>0, TopIsRun DEF StackOf
<1>2. ASSUME stack' = stack PROVE Stacked' /\ Contained
  <2>1. Stacked'
    BY <1>2 DEF Stacked, StackOf, DelegatesOnce, Chains
  <2> QED BY <1>1, <1>2, <2>1 DEF Contained
<1>3. ASSUME stack # <<>>, NEW ok, EndRun(ok) PROVE Stacked' /\ Contained
  BY <1>3, Ended DEF Contained
<1>4. ASSUME NEW mentions \in Mentions, Respond(mentions) PROVE Stacked' /\ Contained
  <2>1. stack # <<>> /\ Top.way = "asking" /\ Top \in RunOf(A)
    BY <1>1, <1>4 DEF Respond, On
  <2>2. PICK asked : asked = Parse(mentions, NameOf[Top.agent])
    OBVIOUS
  <2>3. CASE stack' = WithTop([Top EXCEPT !.way = "done"])
    <3>1. stack' = WithTop([Top EXCEPT !.way = "done", !.asked = Top.asked, !.results = Top.results])
      BY <2>1, <2>3, Unmentioned
    <3>2. "done" \in Ways \ {"preparing"} /\ "done" # "sequential" /\ "done" \notin {"asking", "sequential"}
      BY DEF Ways
    <3> QED BY <2>1, <3>1, <3>2, TopStep
  <2>4. CASE ~TakesParallelPath(asked) /\ stack' = WithTop([Top EXCEPT !.way = "sequential", !.asked = asked])
    <3>1. Len(stack) = 1
      BY <2>4 DEF TakesParallelPath, OptionOf
    <3>2. stack' = WithTop([Top EXCEPT !.way = "sequential", !.asked = asked, !.results = Top.results])
      BY <2>1, <2>4, Unmentioned
    <3> QED BY <2>1, <3>1, <3>2, TopStep DEF Ways
  <2>5. CASE stack' = WithTop([Top EXCEPT !.way = "parallel", !.asked = asked])
    <3>1. stack' = WithTop([Top EXCEPT !.way = "parallel", !.asked = asked, !.results = Top.results])
      BY <2>1, <2>5, Unmentioned
    <3>2. "parallel" \in Ways \ {"preparing"} /\ "parallel" # "sequential" /\ "parallel" \notin {"asking", "sequential"}
      BY DEF Ways
    <3> QED BY <2>1, <3>1, <3>2, TopStep
  <2>6. CASE EndRun(FALSE)
    BY <1>3, <2>1, <2>6
  <2> QED BY <1>4, <2>2, <2>3, <2>4, <2>5, <2>6 DEF Respond
<1>5. ASSUME CallFails \/ RunEnds \/ StartFails PROVE Stacked' /\ Contained
  BY <1>3, <1>5 DEF CallFails, RunEnds, StartFails, On
<1>6. ASSUME Delegate PROVE Stacked' /\ Contained
  BY <1>1, <1>6, Delegated DEF Contained
<1>7. ASSUME Refuse PROVE Stacked' /\ Contained
  <2>1. stack # <<>> /\ Top.way = "sequential" /\ Top \in RunOf(A)
    BY <1>1, <1>7 DEF Refuse, Delegating, On
  <2>2. PICK answer : stack' = WithTop([Top EXCEPT !.results = Append(Top.results, answer)])
    BY <1>7 DEF Refuse, AnsweredBy
  <2>3. stack' = WithTop([Top EXCEPT !.way = "sequential", !.asked = Top.asked, !.results = Append(Top.results, answer)])
    BY <2>1, <2>2, Unmentioned
  <2>4. Len(stack) = 1
    <3>1. Len(stack) \in 1 .. Len(stack) /\ stack[Len(stack)].way = "sequential"
      BY <1>1, <2>1 DEF Top
    <3> QED BY <3>1 DEF Stacked, DelegatesOnce
  <2> QED BY <2>1, <2>3, <2>4, TopStep DEF Ways
<1>8. ASSUME StartRun PROVE Stacked' /\ Contained
  <2>1. stack # <<>> /\ Top.way = "preparing" /\ Top \in RunOf(A)
        /\ stack' = WithTop([Top EXCEPT !.way = "asking"])
    BY <1>1, <1>8 DEF StartRun, On
  <2>2. stack' = WithTop([Top EXCEPT !.way = "asking", !.asked = Top.asked, !.results = Top.results])
    BY <2>1, Unmentioned
  <2>3. "asking" \in Ways \ {"preparing"} /\ "asking" # "sequential" /\ Top.way \in {"preparing", "asking", "sequential"}
    BY <2>1 DEF Ways
  <2> QED BY <2>1, <2>2, <2>3, TopStep
<1>9. ASSUME NotFound PROVE Stacked' /\ Contained
  <2>1. Len(stack) = 1 /\ stack' = <<>>
    BY <1>9 DEF NotFound
  <2>2. StackOf(A)' /\ DelegatesOnce' /\ Chains'
    BY <2>1 DEF StackOf, DelegatesOnce, Chains
  <2> QED BY <2>1, <2>2 DEF Stacked, Contained
<1>10. ASSUME SequenceEnds \/ GraphEnds PROVE Stacked' /\ Contained
  <2>1. stack # <<>> /\ Top \in RunOf(A)
    BY <1>1, <1>10 DEF SequenceEnds, GraphEnds, On
  <2>2. PICK results : stack' = WithTop([Top EXCEPT !.way = "done", !.asked = Top.asked, !.results = results])
    <3>1. ASSUME stack' = WithTop([Top EXCEPT !.way = "done"])
          PROVE  stack' = WithTop([Top EXCEPT !.way = "done", !.asked = Top.asked, !.results = Top.results])
      BY <2>1, <3>1, Unmentioned
    <3>2. ASSUME NEW results, stack' = WithTop([Top EXCEPT !.way = "done", !.results = results])
          PROVE  stack' = WithTop([Top EXCEPT !.way = "done", !.asked = Top.asked, !.results = results])
      BY <2>1, <3>2, Unmentioned
    <3>3. GraphEnds => \E results : stack' = WithTop([Top EXCEPT !.way = "done", !.results = results])
      BY DEF GraphEnds
    <3> QED BY <1>10, <3>1, <3>2, <3>3 DEF SequenceEnds
  <2>3. "done" \in Ways \ {"preparing"} /\ "done" # "sequential" /\ "done" \notin {"asking", "sequential"}
    BY DEF Ways
  <2> QED BY <2>1, <2>2, <2>3, TopStep
<1>11. ASSUME GraphStep \/ CommandStep \/ Timeout \/ SessionChanges \/ Done \/ UNCHANGED vars
       PROVE  stack' = stack
  BY <1>11 DEF GraphStep, CommandStep, SaveResult, CleanUp, DisplayError, Timeout, SessionChanges, Done, vars
<1> QED BY <1>2, <1>4, <1>5, <1>6, <1>7, <1>8, <1>9, <1>10, <1>11 DEF Next, RunStep

-----------------------------------------------------------------------------
LEMMA AlwaysStacked == Spec => []Stacked
BY InitStacked, NextStacked, PTL DEF Spec

\* Whatever the agents' limits and dependencies and whatever they answer, a chain names everybody a run works for
\* and nobody is more than two delegations away from the user's agent.
THEOREM DelegationEnds == Spec => []DelegationBounded
<1>1. Stacked => DelegationBounded
  <2> SUFFICES ASSUME Stacked PROVE DelegationBounded
    OBVIOUS
  <2>1. PICK A : StackOf(A)
    BY DEF Stacked
  <2>2. Len(stack) \in Nat /\ DOMAIN stack = 1 .. Len(stack)
    BY <2>1 DEF StackOf
  <2>3. Len(stack) <= 2
    <3> SUFFICES ASSUME Len(stack) > 2 PROVE FALSE
      BY <2>2
    <3>1. 2 \in 1 .. Len(stack) /\ 2 < Len(stack)
      BY <2>2
    <3>2. stack[2].way = "sequential"
      BY <2>1, <3>1 DEF StackOf
    <3> QED BY <3>1, <3>2 DEF Stacked, DelegatesOnce
  <2> QED BY <2>2, <2>3 DEF Stacked, Chains, DelegationBounded
<1> QED BY <1>1, AlwaysStacked, PTL

\* A delegated run that ends, for whatever reason, is one more result of the run that asked for it.
THEOREM FailuresStay == Spec => FailureContained
<1>1. Stacked /\ [Next]_vars => [Contained]_vars
  BY NextStacked
<1> QED BY <1>1, AlwaysStacked, PTL DEF Spec, FailureContained, Contained

-----------------------------------------------------------------------------
\* The names of agents: what a loader of profiles resolves them to.

Entries == [key : Names, size : {1}, fresh : BOOLEAN]
IsCache(c) == c = [entries |-> c.entries, total |-> c.total] /\ c.entries \in Seq(Entries)
KeysOf(c) == {c.entries[i].key : i \in DOMAIN c.entries}
\* A cache that has the keys of another one, or fewer.
Fewer(c, d) == IsCache(c) /\ KeysOf(c) \subseteq KeysOf(d)

\* Every number up to the size of a set of numbers is the rank of one of them.
LEMMA Ranked ==
    ASSUME NEW n \in Nat, NEW I \in SUBSET (1..n), NEW j \in 1..Cardinality(I)
    PROVE  \E i \in I : Cardinality({h \in I : h <= i}) = j
<1>1. IsFiniteSet(I) /\ Cardinality(I) \in Nat
  <2>1. IsFiniteSet(1..n)
    BY FS_Interval
  <2> QED BY <2>1, FS_Subset, FS_CardinalityType
<1>2. PICK r : r = [i \in I |-> Cardinality({h \in I : h <= i})]
  OBVIOUS
<1>3. ASSUME NEW i \in I
      PROVE  /\ IsFiniteSet({h \in I : h <= i}) /\ r[i] = Cardinality({h \in I : h <= i})
             /\ r[i] \in 1..Cardinality(I)
  <2>1. PICK H : H = {h \in I : h <= i}
    OBVIOUS
  <2>2. H \in SUBSET I /\ i \in H
    BY <2>1
  <2>3. IsFiniteSet(H) /\ Cardinality(H) <= Cardinality(I) /\ Cardinality(H) \in Nat
    BY <1>1, <2>2, FS_Subset, FS_CardinalityType
  <2>4. Cardinality(H) # 0
    BY <2>2, <2>3, FS_EmptySet
  <2> QED BY <1>1, <1>2, <2>1, <2>3, <2>4
<1>4. ASSUME NEW h \in I, NEW i \in I, h < i PROVE r[h] # r[i]
  <2>1. {x \in I : x <= h} \in SUBSET {x \in I : x <= i}
    <3>1. \A x \in 1..n : x <= h => x <= i
      BY <1>4
    <3> QED BY <3>1
  <2>2. i \in {x \in I : x <= i} /\ i \notin {x \in I : x <= h}
    BY <1>4
  <2> QED BY <1>3, <2>1, <2>2, FS_Subset
<1>5. \A h, i \in I : r[h] = r[i] => h = i
  BY <1>4
<1>6. r \in Injection(I, 1..Cardinality(I))
  BY <1>2, <1>3, <1>5 DEF Injection, IsInjective
<1>7. IsFiniteSet(1..Cardinality(I)) /\ Cardinality(1..Cardinality(I)) = Cardinality(I)
  <2>1. 1 \in Int /\ Cardinality(I) \in Int
    BY <1>1
  <2>2. /\ IsFiniteSet(1..Cardinality(I))
        /\ Cardinality(1..Cardinality(I)) = IF 1 > Cardinality(I) THEN 0 ELSE Cardinality(I) - 1 + 1
    BY <2>1, FS_Interval
  <2> QED BY <1>1, <2>2
<1>8. r \in Surjection(I, 1..Cardinality(I))
  BY <1>6, <1>7, FS_Injection
<1>9. PICK i \in I : r[i] = j
  BY <1>8 DEF Surjection
<1> QED BY <1>3, <1>9

\* The numbers of a set can be counted upwards.
LEMMA Counted ==
    ASSUME NEW n \in Nat, NEW I \in SUBSET (1..n)
    PROVE  \E f \in UNION {[1..m -> I] : m \in 0..n} : ProfileCache!Ascending(I, f)
<1>1. IsFiniteSet(1..n) /\ Cardinality(1..n) = n
  <2>1. IsFiniteSet(1..n) /\ Cardinality(1..n) = IF 1 > n THEN 0 ELSE n - 1 + 1
    BY FS_Interval
  <2> QED BY <2>1
<1>2. PICK m \in 0..n : m = Cardinality(I)
  <2>1. Cardinality(I) <= n /\ Cardinality(I) \in Nat
    BY <1>1, FS_Subset, FS_CardinalityType
  <2> QED BY <2>1
<1>0. \A i \in I : i \in Nat
  <2>1. \A i \in 1..n : i \in Nat
    OBVIOUS
  <2> QED BY <2>1
<1>3. PICK r : r = [i \in I |-> Cardinality({h \in I : h <= i})]
  OBVIOUS
<1>4. PICK f : f = [j \in 1..m |-> CHOOSE i \in I : r[i] = j]
  OBVIOUS
<1>5. \A j \in 1..m : f[j] \in I /\ r[f[j]] = j
  <2>1. ASSUME NEW j \in 1..m PROVE \E i \in I : r[i] = j
    BY <1>2, <1>3, Ranked
  <2> QED BY <1>4, <2>1
<1>6. ASSUME NEW h \in I, NEW i \in I, h <= i PROVE r[h] <= r[i] /\ r[h] \in Nat
  <2>1. {x \in I : x <= h} \in SUBSET {x \in I : x <= i}
    <3>1. \A x \in 1..n : x <= h => x <= i
      BY <1>6
    <3> QED BY <3>1
  <2>2. {x \in I : x <= i} \in SUBSET (1..n)
    OBVIOUS
  <2>3. IsFiniteSet({x \in I : x <= i}) /\ IsFiniteSet({x \in I : x <= h})
    BY <1>1, <2>1, <2>2, FS_Subset
  <2>4. Cardinality({x \in I : x <= h}) <= Cardinality({x \in I : x <= i}) /\ Cardinality({x \in I : x <= h}) \in Nat
    BY <2>1, <2>3, FS_Subset, FS_CardinalityType
  <2> QED BY <1>3, <2>4
<1>7. ASSUME NEW h \in I, NEW i \in I, h < i PROVE r[h] < r[i]
  <2>1. {x \in I : x <= h} \in SUBSET {x \in I : x <= i}
    <3>1. \A x \in 1..n : x <= h => x <= i
      BY <1>7
    <3> QED BY <3>1
  <2>2. i \in {x \in I : x <= i} /\ i \notin {x \in I : x <= h}
    BY <1>7
  <2>3. {x \in I : x <= i} \in SUBSET (1..n)
    OBVIOUS
  <2>4. IsFiniteSet({x \in I : x <= i})
    BY <1>1, <2>3, FS_Subset
  <2>5. r[h] # r[i]
    BY <1>3, <2>1, <2>2, <2>4, FS_Subset
  <2>6. r[h] <= r[i] /\ r[h] \in Nat /\ r[i] \in Nat
    BY <1>6, <1>7
  <2> QED BY <2>5, <2>6
<1>8. \A j, k \in 1..m : j < k => f[j] < f[k]
  <2>1. ASSUME NEW j \in 1..m, NEW k \in 1..m, j < k PROVE f[j] < f[k]
    <3>1. f[j] \in I /\ f[k] \in I /\ r[f[j]] = j /\ r[f[k]] = k
      BY <1>5
    <3>2. f[k] <= f[j] => k <= j
      BY <1>6, <3>1
    <3>3. f[j] \in Nat /\ f[k] \in Nat
      BY <1>0, <3>1
    <3> QED BY <2>1, <3>2, <3>3
  <2> QED BY <2>1
<1>9. ASSUME NEW i \in I PROVE \E j \in 1..m : f[j] = i
  <2>1. {x \in I : x <= i} \in SUBSET I /\ IsFiniteSet(I)
    BY <1>1, FS_Subset
  <2>2. r[i] <= m /\ r[i] \in Nat /\ IsFiniteSet({x \in I : x <= i})
    BY <1>2, <1>3, <2>1, FS_Subset, FS_CardinalityType
  <2>3. i \in {x \in I : x <= i}
    OBVIOUS
  <2>4. r[i] # 0
    BY <1>3, <2>2, <2>3, FS_EmptySet
  <2>5. r[i] \in 1..m
    BY <2>2, <2>4
  <2>6. f[r[i]] \in I /\ r[f[r[i]]] = r[i]
    BY <1>5, <2>5
  <2>7. (f[r[i]] < i => r[i] < r[i]) /\ (i < f[r[i]] => r[i] < r[i])
    BY <1>7, <2>6
  <2>8. f[r[i]] = i
    <3>1. f[r[i]] \in Nat /\ i \in Nat
      BY <1>0, <2>6
    <3> QED BY <2>2, <2>7, <3>1
  <2> QED BY <2>5, <2>8
<1>10. f \in [1..m -> I] /\ DOMAIN f = 1..m
  BY <1>4, <1>5
<1>11. ProfileCache!Ascending(I, f)
  BY <1>8, <1>9, <1>10 DEF ProfileCache!Ascending
<1> QED BY <1>10, <1>11

\* What a choice of places leaves.
LEMMA OnlyThere ==
    ASSUME NEW s \in Seq(Entries), NEW I \in SUBSET (DOMAIN s)
    PROVE  /\ ProfileCache!Only(s, I) \in Seq(Entries)
           /\ \A j \in DOMAIN ProfileCache!Only(s, I) : \E i \in DOMAIN s : ProfileCache!Only(s, I)[j] = s[i]
<1>1. PICK n \in Nat : n = Len(s) /\ DOMAIN s = 1..n
  BY LenProperties
<1>2. PICK f : f = CHOOSE g \in UNION {[1..m -> I] : m \in 0..n} : ProfileCache!Ascending(I, g)
  OBVIOUS
<1>3. PICK m \in 0..n : f \in [1..m -> I]
  <2>1. f \in UNION {[1..m -> I] : m \in 0..n}
    BY <1>1, <1>2, Counted
  <2> QED BY <2>1
<1>4. PICK t : t = [j \in 1..m |-> s[f[j]]]
  OBVIOUS
<1>5. ProfileCache!Only(s, I) = t
  BY <1>1, <1>2, <1>3, <1>4 DEF ProfileCache!Only
<1>6. \A i \in DOMAIN s : s[i] \in Entries
  BY <1>1, ElementOfSeq
<1>7. t \in [1..m -> Entries]
  BY <1>3, <1>4, <1>6
<1>8. t \in Seq(Entries) /\ DOMAIN t = 1..m
  BY <1>7, SeqDef
<1> QED BY <1>3, <1>4, <1>5, <1>8

\* get: nothing new.
LEMMA GetFewer ==
    ASSUME NEW c, IsCache(c), NEW k
    PROVE  Fewer(ProfileCache!Get(c, k), c)
<1>1. PICK s \in Seq(Entries) : s = c.entries
  BY DEF IsCache
<1>2. PICK I \in SUBSET (DOMAIN s) : I = ProfileCache!At(c, k)
  BY <1>1 DEF ProfileCache!At
<1>3. PICK a \in Seq(Entries) : /\ a = ProfileCache!Only(s, (DOMAIN s) \ I)
                              /\ \A j \in DOMAIN a : \E i \in DOMAIN s : a[j] = s[i]
  BY OnlyThere
<1>4. PICK b \in Seq(Entries) : /\ b = ProfileCache!Only(s, I)
                              /\ \A j \in DOMAIN b : \E i \in DOMAIN s : b[j] = s[i]
  BY OnlyThere
<1>5. CASE ~ProfileCache!Fresh(c, k)
  <2>1. PICK d : d = ProfileCache!Get(c, k)
    OBVIOUS
  <2>2. d = [entries |-> ProfileCache!Others(c, k), total |-> c.total - ProfileCache!Replaced(c, k)]
    BY <1>5, <2>1 DEF ProfileCache!Get, ProfileCache!Delete
  <2>3. PICK x : d = [entries |-> a, total |-> x]
    <3>1. a = ProfileCache!Others(c, k)
      BY <1>1, <1>2, <1>3 DEF ProfileCache!Others
    <3> QED BY <2>2, <3>1
  <2>4. d.entries = a /\ IsCache(d)
    BY <2>3 DEF IsCache
  <2>5. KeysOf(d) \subseteq KeysOf(c)
    <3>1. \A j \in DOMAIN d.entries : \E i \in DOMAIN c.entries : d.entries[j] = c.entries[i]
      BY <1>1, <1>3, <2>4
    <3> QED BY <3>1 DEF KeysOf
  <2> QED BY <2>1, <2>4, <2>5 DEF Fewer
<1>6. CASE ProfileCache!Fresh(c, k)
  <2>1. PICK d : d = ProfileCache!Get(c, k)
    OBVIOUS
  <2>2. d.entries = a \o b /\ d = [entries |-> d.entries, total |-> d.total]
    BY <1>1, <1>2, <1>3, <1>4, <1>6, <2>1 DEF ProfileCache!Get, ProfileCache!Others, IsCache
  <2>3. PICK m \in Nat, n \in Nat : m = Len(a) /\ DOMAIN a = 1..m /\ n = Len(b) /\ DOMAIN b = 1..n
    BY LenProperties
  <2>4. PICK t : t = a \o b
    OBVIOUS
  <2>5. /\ t \in Seq(Entries) /\ Len(t) = Len(a) + Len(b)
        /\ \A i \in 1 .. Len(a) + Len(b) : t[i] = IF i <= Len(a) THEN a[i] ELSE b[i - Len(a)]
    BY <2>4, ConcatProperties
  <2>6. DOMAIN t = 1..(m + n)
    BY <2>3, <2>5, LenProperties
  <2>7. ASSUME NEW j \in DOMAIN t PROVE \E i \in DOMAIN s : t[j] = s[i]
    <3>1. CASE j <= m
      <4>1. j \in DOMAIN a /\ t[j] = a[j]
        BY <2>3, <2>5, <2>6, <3>1
      <4> QED BY <1>3, <4>1
    <3>2. CASE ~(j <= m)
      <4>1. j - m \in DOMAIN b /\ t[j] = b[j - m]
        BY <2>3, <2>5, <2>6, <3>2
      <4> QED BY <1>4, <4>1
    <3> QED BY <3>1, <3>2
  <2> QED BY <1>1, <2>1, <2>2, <2>4, <2>5, <2>7 DEF Fewer, IsCache, KeysOf
<1> QED BY <1>5, <1>6

LEMMA CleanupFewer ==
    ASSUME NEW c, IsCache(c)
    PROVE  Fewer(ProfileCache!Cleanup(c), c)
<1>1. PICK s \in Seq(Entries) : s = c.entries
  BY DEF IsCache
<1>2. PICK I \in SUBSET (DOMAIN s) : I = {i \in DOMAIN s : s[i].fresh}
  OBVIOUS
<1>3. PICK a \in Seq(Entries) : /\ a = ProfileCache!Only(s, I)
                              /\ \A j \in DOMAIN a : \E i \in DOMAIN s : a[j] = s[i]
  BY OnlyThere
<1>4. PICK d : d = ProfileCache!Cleanup(c)
  OBVIOUS
<1>5. d.entries = a /\ d = [entries |-> d.entries, total |-> d.total]
  BY <1>1, <1>2, <1>3, <1>4 DEF ProfileCache!Cleanup
<1> QED BY <1>1, <1>3, <1>4, <1>5 DEF Fewer, IsCache, KeysOf

LEMMA ExpireFewer ==
    ASSUME NEW c, IsCache(c), NEW k
    PROVE  Fewer(ProfileCache!Expire(c, k), c)
<1>1. PICK s \in Seq(Entries), n \in Nat : s = c.entries /\ n = Len(s) /\ DOMAIN s = 1..n
  BY LenProperties DEF IsCache
<1>2. \A i \in 1..n : s[i] \in Entries
  BY <1>1, ElementOfSeq
<1>3. PICK t : t = [i \in 1..n |-> IF s[i].key = k THEN [s[i] EXCEPT !.fresh = FALSE] ELSE s[i]]
  OBVIOUS
<1>4. \A i \in 1..n : t[i] \in Entries /\ t[i].key = s[i].key
  BY <1>2, <1>3 DEF Entries
<1>5. t \in Seq(Entries) /\ DOMAIN t = 1..n
  <2>1. t \in [1..n -> Entries]
    BY <1>3, <1>4
  <2> QED BY <1>3, <2>1, SeqDef
<1>6. PICK d : d = ProfileCache!Expire(c, k)
  OBVIOUS
<1>7. d.entries = t /\ d = [entries |-> d.entries, total |-> d.total]
  BY <1>1, <1>3, <1>6 DEF ProfileCache!Expire, IsCache
<1> QED BY <1>1, <1>4, <1>5, <1>6, <1>7 DEF Fewer, IsCache, KeysOf

LEMMA FreshKey ==
    ASSUME NEW c, NEW k, ProfileCache!Fresh(c, k)
    PROVE  k \in KeysOf(c)
BY DEF ProfileCache!Fresh, ProfileCache!At, KeysOf
\* set: how many entries are evicted, and what there is then.
LEMMA EvictsSome ==
    ASSUME NEW s \in Seq(Entries), NEW total, NEW size
    PROVE  ProfileCache!Evictions(s, total, size) \in 0 .. Len(s)
<1> DEFINE Room(n) == /\ Len(s) - n < MaxProfiles \/ n = Len(s)
                      /\ 0 = 0 \/ n = Len(s) \/ total - ProfileCache!SizeOf(SubSeq(s, 1, n)) + size <= 0
<1>1. PICK m \in Nat : m = Len(s)
  BY LenProperties
<1>2. PICK T : T = {n \in 0..m : Room(n)}
  OBVIOUS
<1>3. m \in T /\ T \subseteq Nat
  BY <1>1, <1>2
<1>4. PICK n \in T : \A j \in T : ~(<<j, n>> \in OpToRel(<, Nat))
  BY <1>3, NatLessThanWellFounded, WFMin
<1>5. \A j \in T : ~(j < n)
  BY <1>3, <1>4 DEF OpToRel
<1>6. n \in 0 .. Len(s) /\ Room(n) /\ \A j \in 0 .. n - 1 : ~Room(j)
  <2>1. n \in 0..m /\ Room(n)
    BY <1>2
  <2>2. \A j \in 0 .. n - 1 : j \in 0..m /\ j < n
    BY <2>1
  <2> HIDE DEF Room
  <2> QED BY <1>1, <1>2, <1>5, <2>1, <2>2
<1>7. \E x \in 0 .. Len(s) : Room(x) /\ \A j \in 0 .. x - 1 : ~Room(j)
  BY <1>6
<1> QED BY <1>7 DEF ProfileCache!Evictions

LEMMA SetFewer ==
    ASSUME NEW c, IsCache(c), NEW k \in Names
    PROVE  IsCache(ProfileCache!Set(c, k, 1)) /\ KeysOf(ProfileCache!Set(c, k, 1)) \subseteq KeysOf(c) \union {k}
<1>1. PICK s \in Seq(Entries), m \in Nat : s = c.entries /\ m = Len(s) /\ DOMAIN s = 1..m
  BY LenProperties DEF IsCache
<1>2. PICK n \in 0..m : n = ProfileCache!Evicted(c, k, 1)
  BY <1>1, EvictsSome DEF ProfileCache!Evicted
<1>3. PICK gone : gone = SubSeq(s, 1, n)
  OBVIOUS
<1>4. \A i \in 1..m : s[i] \in Entries
  BY <1>1, ElementOfSeq
<1>5. Len(gone) = n
  <2>1. \A i \in 1..n : s[i] \in Entries
    BY <1>4
  <2>2. Len(gone) = IF 1 <= n THEN n - 1 + 1 ELSE 0
    BY <1>3, <2>1, SubSeqProperties
  <2> QED BY <2>2
<1>6. PICK kept \in Seq(Entries) : /\ kept = SubSeq(s, n + 1, m)
                                  /\ \A i \in DOMAIN kept : \E j \in DOMAIN s : kept[i] = s[j]
  <2>1. PICK t : t = SubSeq(s, n + 1, m)
    OBVIOUS
  <2>2. \A i \in (n + 1) .. m : s[i] \in Entries
    BY <1>4
  <2>3. /\ t \in Seq(Entries) /\ Len(t) = IF n + 1 <= m THEN m - (n + 1) + 1 ELSE 0
        /\ \A i \in 1 .. m - (n + 1) + 1 : t[i] = s[n + 1 + i - 1]
    BY <2>1, <2>2, SubSeqProperties
  <2>4. DOMAIN t = 1 .. m - n
    BY <2>3, LenProperties
  <2>5. \A i \in DOMAIN t : n + i \in DOMAIN s /\ t[i] = s[n + i]
    BY <1>1, <2>3, <2>4
  <2> QED BY <2>1, <2>3, <2>5
<1>7. PICK new \in Entries : new = [key |-> k, size |-> 1, fresh |-> TRUE] /\ new.key = k
  <2>1. PICK e : e = [key |-> k, size |-> 1, fresh |-> TRUE]
    OBVIOUS
  <2>2. e \in Entries /\ e.key = k
    BY <2>1 DEF Entries
  <2> QED BY <2>1, <2>2
<1>8. PICK r : r = [i \in DOMAIN kept |-> IF kept[i].key = k THEN new ELSE kept[i]]
  OBVIOUS
<1>9. r \in Seq(Entries) /\ \A i \in DOMAIN r : r[i] = new \/ \E j \in DOMAIN s : r[i] = s[j]
  <2>1. PICK l \in Nat : DOMAIN kept = 1..l
    BY LenProperties
  <2>2. \A i \in 1..l : kept[i] \in Entries
    BY <2>1, ElementOfSeq, LenProperties
  <2>3. r \in [1..l -> Entries]
    BY <1>8, <2>1, <2>2
  <2>4. r \in Seq(Entries)
    BY <2>3, SeqDef
  <2> QED BY <1>6, <1>8, <2>4
<1>10. PICK a \in Seq(Entries) : a = Append(kept, new) /\ \A i \in DOMAIN a : a[i] = new \/ \E j \in DOMAIN s : a[i] = s[j]
  <2>1. PICK a : a = Append(kept, new)
    OBVIOUS
  <2>2. PICK l \in Nat : l = Len(kept) /\ DOMAIN kept = 1..l
    BY LenProperties
  <2>3. /\ a \in Seq(Entries) /\ Len(a) = Len(kept) + 1
        /\ \A i \in 1..Len(kept) : a[i] = kept[i]
        /\ a[Len(kept) + 1] = new
    BY <2>1, AppendProperties
  <2>4. DOMAIN a = 1..(l + 1)
    BY <2>2, <2>3, LenProperties
  <2>5. \A i \in 1..(l + 1) : i \in 1..l \/ i = l + 1
    BY <2>2
  <2>6. \A i \in 1..(l + 1) : a[i] = new \/ \E j \in DOMAIN s : a[i] = s[j]
    <3>1. ASSUME NEW i \in 1..l PROVE \E j \in DOMAIN s : a[i] = s[j]
      <4>1. a[i] = kept[i] /\ i \in DOMAIN kept
        BY <2>2, <2>3, Zenon
      <4> QED BY <1>6, <4>1, Zenon
    <3>2. a[l + 1] = new
      BY <2>2, <2>3
    <3> QED BY <2>5, <3>1, <3>2
  <2>7. a \in Seq(Entries) /\ \A i \in DOMAIN a : a[i] = new \/ \E j \in DOMAIN s : a[i] = s[j]
    BY <2>3, <2>4, <2>6
  <2> QED BY <2>1, <2>7
<1>11. PICK t \in Seq(Entries) :
         /\ \E x : ProfileCache!Set(c, k, 1) = IF ProfileCache!TooLarge(1) THEN c ELSE [entries |-> t, total |-> x]
         /\ \A i \in DOMAIN t : t[i] = new \/ \E j \in DOMAIN s : t[i] = s[j]
  <2>1. PICK t : t = IF \E i \in DOMAIN kept : kept[i].key = k THEN r ELSE a
    OBVIOUS
  <2>2. t \in Seq(Entries) /\ \A i \in DOMAIN t : t[i] = new \/ \E j \in DOMAIN s : t[i] = s[j]
    <3>1. t = r \/ t = a
      BY <2>1
    <3>2. CASE t = r
      BY <1>9, <3>2, Zenon
    <3>3. CASE t = a
      BY <1>10, <3>3, Zenon
    <3> QED BY <3>1, <3>2, <3>3
  <2>3. \E x : ProfileCache!Set(c, k, 1) = IF ProfileCache!TooLarge(1) THEN c ELSE [entries |-> t, total |-> x]
    <3>1. gone = SubSeq(c.entries, 1, ProfileCache!Evicted(c, k, 1)) /\ kept = SubSeq(c.entries, Len(gone) + 1, Len(c.entries))
      BY <1>1, <1>2, <1>3, <1>5, <1>6
    <3> QED BY <1>7, <1>8, <1>10, <2>1, <3>1 DEF ProfileCache!Set
  <2> QED BY <2>2, <2>3
<1>12. CASE ProfileCache!TooLarge(1)
  BY <1>11, <1>12
<1>13. CASE ~ProfileCache!TooLarge(1)
  <2>1. PICK d : d = ProfileCache!Set(c, k, 1)
    OBVIOUS
  <2>2. d.entries = t /\ d = [entries |-> d.entries, total |-> d.total]
    <3>1. PICK x : d = [entries |-> t, total |-> x]
      BY <1>11, <1>13, <2>1
    <3> QED BY <3>1
  <2> QED BY <1>1, <1>7, <1>11, <2>1, <2>2 DEF IsCache, KeysOf
<1> QED BY <1>12, <1>13

-----------------------------------------------------------------------------
(* The invariant *)

\* There was a profile of that name at some time.
Seen(n) == \E l \in past : Profile(l, n) # None

LoadSteps == {"load", "local", "builtin", "build"}
BuildSteps == {"list", "add", "listBuiltIn", "addBuiltIn"}
MapSteps == BuildSteps \union {"map", "lookup"}
Steps == LoadSteps \union MapSteps \union {"unknown", "refused", "compare", "ability", "text"}

IsCall(r) ==
    /\ r = [at |-> r.at, id |-> r.id, name |-> r.name, why |-> r.why, todo |-> r.todo, found |-> r.found, all |-> r.all,
            abilities |-> r.abilities]
    /\ r.at \in Steps /\ r.why \in {"resolve", "context", "similar"}
    /\ r.id \in Identifiers
    /\ r.todo \in SUBSET Names /\ r.found \in SUBSET Names /\ r.all \in SUBSET Names

\* An agent was called so at some time; an identifier that no profile can be loaded by, or was not at some time.
Meant(n, i) == \E l \in past : Called(l, n, i)
Bad(i) == i \in Refused \/ (i \in Names /\ \E l \in past : Profile(l, i) # None /\ ~Profile(l, i).valid)

\* What a call has seen so far: a profile that it builds was there, one that it did not find was not.
Sound(r) ==
    /\ r.why = "context" => Meant(r.name, r.id)
    /\ r.at = "refused" => r.why = "resolve" /\ Bad(r.id)
    /\ r.at = "build" => r.name \in Names /\ Seen(r.name)
    /\ r.at \in MapSteps \union {"unknown"} => r.why # "context"
    /\ r.at = "compare" => r.why = "similar"
    /\ r.why = "resolve" =>
          /\ r.at \in LoadSteps => r.name = r.id
          /\ r.at = "builtin" /\ r.id \in Names => \E l \in past : l[r.id] = None
          /\ r.at \in MapSteps /\ r.id \in Names => \E l \in past : Profile(l, r.id) = None

Going == /\ call = [c \in Calls |-> call[c]]
         /\ \A c \in Calls : call[c] = Idle \/ (IsCall(call[c]) /\ Sound(call[c]))

\* The answers to identifiers that a map gives, once some names have been added to it.
Scanned(D) ==
    /\ \A i \in DOMAIN displayNameMap : displayNameMap[i] \in D /\ \E l \in past : DisplayedAs(l, displayNameMap[i], i)
    /\ \A m \in D \ Refused : \A i \in Identifiers : (\A l \in past : DisplayedAs(l, m, i)) =>
          i \in DOMAIN displayNameMap /\ (displayNameMap[i] = m \/ \E l \in past : Ahead(l, displayNameMap[i], m))

\* The names that have been added by a call that builds the map.
Added(r) == IF r.at = "list" THEN {} ELSE IF r.at = "add" THEN r.found \ r.todo
            ELSE IF r.at = "listBuiltIn" THEN r.found ELSE (r.found \union BuiltInNames) \ r.todo

\* The names to come are of the same directory; all those added were ahead of them when the directory was read.
Ordered(r, l) ==
    /\ r.found = LocalNames(l)
    /\ r.at = "add" => r.todo \subseteq r.found
    /\ r.at = "addBuiltIn" => r.todo \subseteq BuiltInNames \ r.found
    /\ r.at # "listBuiltIn" => \A m \in Added(r), n \in r.todo : Ahead(l, m, n)

Answered(n, i) ==
    \A m \in Names \ Refused : (\A l \in past : Called(l, m, i)) => n # None /\ (n = m \/ \E l \in past : Before(l, n, m, i))

Resolved(r) == r # Idle /\ (r.why = "context" \/ r.at = "unknown")

Mapped ==
    ~unmapped =>
        /\ mapInitialized => Scanned(Names)
        /\ \A c \in Calls : call[c].at \in BuildSteps =>
              /\ ~mapInitialized /\ \A other \in Calls : call[other].at \in BuildSteps => other = c
              /\ Scanned(Added(call[c])) /\ (call[c].at # "list" => \E l \in past : Ordered(call[c], l))
        /\ \A c \in Calls : call[c].at = "lookup" => mapInitialized
        /\ \A c \in Calls : Resolved(call[c]) => Answered(call[c].name, call[c].id)

\* Every display name of the map was one of its agent.
MapMeant == \A i \in DOMAIN displayNameMap : Meant(displayNameMap[i], i)

Loading == /\ local \in past
           /\ IsCache(cache) /\ \A k \in KeysOf(cache) : Seen(k)
           /\ Going
           /\ mapInitialized \in BOOLEAN /\ unmapped \in BOOLEAN
           /\ Mapped

-----------------------------------------------------------------------------
LEMMA NamesApart == None \notin Identifiers /\ Names \subseteq Identifiers
BY NamesAssumption DEF Identifiers

LEMMA FirstThere ==
    ASSUME NEW S \in SUBSET Names, S # {}
    PROVE  First(S) \in S /\ \A m \in S \ {First(S)} : Place[First(S)] < Place[m]
<1>1. PICK P : P = {Place[n] : n \in S}
  OBVIOUS
<1>2. P \subseteq Nat /\ P # {}
  BY <1>1, NamesAssumption
<1>3. PICK p \in P : \A q \in P : ~(<<q, p>> \in OpToRel(<, Nat))
  BY <1>2, NatLessThanWellFounded, WFMin
<1>4. \A q \in P : p <= q
  <2>1. ASSUME NEW q \in P, q < p PROVE FALSE
    <3>1. <<q, p>> \in OpToRel(<, Nat)
      BY <1>2, <2>1 DEF OpToRel
    <3> QED BY <1>3, <3>1
  <2> QED BY <1>2, <2>1
<1>5. \E n \in S : \A m \in S : Place[n] <= Place[m]
  BY <1>1, <1>4
<1>6. First(S) \in S /\ \A m \in S : Place[First(S)] <= Place[m]
  BY <1>5 DEF First
<1>7. \A m, n \in S : Place[m] \in Nat /\ Place[n] \in Nat /\ (Place[m] = Place[n] => m = n)
  BY NamesAssumption
<1> QED BY <1>6, <1>7

\* A call goes to another step.
LEMMA Stepped ==
    ASSUME NEW r, IsCall(r), NEW at \in Steps, NEW s, s = [r EXCEPT !.at = at]
    PROVE  /\ IsCall(s) /\ s.at = at /\ s.id = r.id /\ s.name = r.name /\ s.why = r.why
           /\ s.todo = r.todo /\ s.found = r.found /\ s.all = r.all
<1>1. s = [at |-> at, id |-> r.id, name |-> r.name, why |-> r.why, todo |-> r.todo, found |-> r.found, all |-> r.all,
           abilities |-> r.abilities]
  BY DEF IsCall
<1>2. /\ s.at = at /\ s.id = r.id /\ s.name = r.name /\ s.why = r.why
      /\ s.todo = r.todo /\ s.found = r.found /\ s.all = r.all /\ s.abilities = r.abilities
  BY <1>1
<1> QED BY <1>1, <1>2 DEF IsCall

LEMMA NotIdle ==
    ASSUME NEW r, IsCall(r)
    PROVE  r # Idle
<1>1. r.at # "idle"
  BY DEF IsCall, Steps, LoadSteps, MapSteps, BuildSteps
<1>2. Idle.at = "idle"
  BY DEF Idle
<1> QED BY <1>1, <1>2

\* What was seen is seen when there are more files of the past.
LEMMA PastGrows ==
    ASSUME Loading, past \subseteq past', local' \in past', UNCHANGED <<loader, call>>
    PROVE  Loading'
<1>1. \A n : Seen(n) => Seen(n)'
  BY DEF Seen
<1>2. \A r : Sound(r) => Sound(r)'
  BY <1>1 DEF Sound, Meant, Bad
<1>3. \A D : Scanned(D) => Scanned(D)'
  BY DEF Scanned, loader
<1>4. \A n, i : Answered(n, i) => Answered(n, i)'
  BY DEF Answered
<1>5. Going'
  BY <1>2 DEF Loading, Going
<1>6. Mapped'
  BY <1>3, <1>4 DEF Loading, Mapped, loader
<1> QED BY <1>1, <1>5, <1>6 DEF Loading, loader

\* A call moves; nothing else changes but what the cache has and what the map is.
LEMMA Moves ==
    ASSUME Loading, NEW c \in Calls, NEW r, call' = [call EXCEPT ![c] = r], UNCHANGED files,
           r = Idle \/ (IsCall(r) /\ Sound(r))
    PROVE  Going' /\ \A k \in Calls : call'[k] = IF k = c THEN r ELSE call[k]
<1>1. call = [k \in Calls |-> call[k]]
  BY DEF Loading, Going
<1>2. \A k \in Calls : call'[k] = IF k = c THEN r ELSE call[k]
  BY <1>1
<1>3. call' = [k \in Calls |-> call'[k]]
  BY <1>1
<1>4. past' = past
  BY DEF files
<1>5. \A s : Sound(s) => Sound(s)'
  BY <1>4 DEF Sound, Seen, Meant, Bad
<1>6. \A k \in Calls : call[k] = Idle \/ (IsCall(call[k]) /\ Sound(call[k]))
  BY DEF Loading, Going
<1>7. ASSUME NEW k \in Calls PROVE call'[k] = Idle \/ (IsCall(call[k])' /\ Sound(call[k])')
  <2>1. PICK s : s = call'[k]
    OBVIOUS
  <2>2. s = Idle \/ (IsCall(s) /\ Sound(s)')
    BY <1>2, <1>5, <1>6, <2>1
  <2>3. IsCall(s) => IsCall(call[k])'
    BY <2>1
  <2>4. Sound(s)' => Sound(call[k])'
    BY <2>1 DEF Sound, Seen, Meant, Bad
  <2> QED BY <2>1, <2>2, <2>3, <2>4
<1> QED BY <1>2, <1>3, <1>7 DEF Going

LEMMA SameAnswers ==
    ASSUME UNCHANGED files
    PROVE  /\ \A n, i : Answered(n, i)' <=> Answered(n, i)
           /\ \A n : Seen(n)' <=> Seen(n)
           /\ displayNameMap' = displayNameMap => \A D : Scanned(D)' <=> Scanned(D)
BY DEF files, Answered, Seen, Scanned

\* A call moves, and neither was nor is among those that build the map.
LEMMA Elsewhere ==
    ASSUME Loading, NEW c \in Calls, NEW r, call' = [call EXCEPT ![c] = r], UNCHANGED files,
           UNCHANGED <<displayNameMap, mapInitialized, unmapped>>,
           IsCache(cache'), \A k \in KeysOf(cache') : Seen(k),
           r = Idle \/ (IsCall(r) /\ Sound(r)),
           call[c].at \notin BuildSteps, r.at \notin BuildSteps,
           r.at = "lookup" => mapInitialized \/ unmapped,
           Resolved(r) => unmapped \/ Answered(r.name, r.id)
    PROVE  Loading'
<1>1. Going' /\ \A k \in Calls : call'[k] = IF k = c THEN r ELSE call[k]
  BY Moves
<1>2. /\ \A n, i : Answered(n, i)' <=> Answered(n, i)
      /\ \A n : Seen(n)' <=> Seen(n)
      /\ \A D : Scanned(D)' <=> Scanned(D)
  BY SameAnswers
<1>3. past' = past /\ local' = local
  BY DEF files
<1>4. Mapped'
  <2>1. SUFFICES ASSUME ~unmapped' PROVE Mapped'
    BY DEF Mapped
  <2>2. Mapped /\ ~unmapped
    BY <2>1 DEF Loading
  <2>3. mapInitialized' => Scanned(Names)'
    BY <1>2, <2>2 DEF Mapped
  <2>4. ASSUME NEW k \in Calls, call'[k].at \in BuildSteps
        PROVE  /\ ~mapInitialized' /\ \A other \in Calls : call'[other].at \in BuildSteps => other = k
               /\ Scanned(Added(call[k]))' /\ (call'[k].at # "list" => \E l \in past' : Ordered(call'[k], l))
    <3>1. k # c /\ call'[k] = call[k]
      BY <1>1, <2>4
    <3>2. /\ ~mapInitialized /\ \A other \in Calls : call[other].at \in BuildSteps => other = k
          /\ Scanned(Added(call[k])) /\ (call[k].at # "list" => \E l \in past : Ordered(call[k], l))
      BY <2>2, <2>4, <3>1 DEF Mapped
    <3>3. \A other \in Calls : call'[other].at \in BuildSteps => other = k
      BY <1>1, <3>2
    <3>4. PICK D : D = Added(call[k]) /\ D = Added(call'[k])
      BY <3>1
    <3>5. Scanned(D)'
      BY <1>2, <3>2, <3>4
    <3>6. Scanned(Added(call[k]))'
      BY <3>4, <3>5
    <3> QED BY <1>3, <2>2, <3>1, <3>2, <3>3, <3>6
  <2>5. \A k \in Calls : call'[k].at = "lookup" => mapInitialized'
    BY <1>1, <2>1, <2>2 DEF Mapped
  <2>6. \A k \in Calls : Resolved(call'[k]) => Answered(call[k].name, call[k].id)'
    <3>1. ASSUME NEW k \in Calls, Resolved(call'[k]) PROVE Answered(call[k].name, call[k].id)'
      <4>1. PICK s : s = call'[k]
        OBVIOUS
      <4>2. Answered(s.name, s.id)
        BY <1>1, <2>1, <2>2, <3>1, <4>1 DEF Mapped
      <4>3. PICK n, i : n = s.name /\ i = s.id
        OBVIOUS
      <4>4. Answered(n, i)'
        BY <1>2, <4>2, <4>3
      <4> QED BY <4>1, <4>3, <4>4
    <3> QED BY <3>1
  <2> QED BY <2>3, <2>4, <2>5, <2>6 DEF Mapped
<1> QED BY <1>1, <1>2, <1>3, <1>4 DEF Loading

LEMMA AtWork ==
    ASSUME Loading, NEW c \in Calls, call[c].at \in Steps
    PROVE  IsCall(call[c]) /\ Sound(call[c])
<1>1. call[c] # Idle
  BY DEF Idle, Steps, LoadSteps, MapSteps, BuildSteps
<1> QED BY <1>1 DEF Loading, Going

LEMMA StillCached ==
    ASSUME Loading, Fewer(cache', cache)
    PROVE  IsCache(cache') /\ \A k \in KeysOf(cache') : Seen(k)
BY DEF Loading, Fewer

\* A call goes on about the same profile for the same reason.
LEMMA Onward ==
    ASSUME Loading, NEW c \in Calls, NEW r, r = call[c], IsCall(r), r.at \notin BuildSteps,
           NEW s, call' = [call EXCEPT ![c] = s], IsCall(s), Sound(s), s.at \notin BuildSteps \union {"unknown"},
           s.why = r.why /\ s.id = r.id /\ s.name = r.name,
           s.at = "lookup" => mapInitialized \/ unmapped,
           UNCHANGED files, UNCHANGED <<displayNameMap, mapInitialized, unmapped>>,
           IsCache(cache'), \A k \in KeysOf(cache') : Seen(k)
    PROVE  Loading'
<1>1. r # Idle
  BY NotIdle
<1>2. Resolved(s) => Resolved(r)
  BY <1>1 DEF Resolved
<1>3. Resolved(r) => unmapped \/ Answered(r.name, r.id)
  BY DEF Loading, Mapped
<1>4. Resolved(s) => unmapped \/ Answered(s.name, s.id)
  BY <1>2, <1>3
<1> QED BY <1>4, Elsewhere

LEMMA Ending ==
    ASSUME Loading, NEW c \in Calls, call[c].at \notin BuildSteps, End(c),
           UNCHANGED files, UNCHANGED <<displayNameMap, mapInitialized, unmapped>>,
           IsCache(cache'), \A k \in KeysOf(cache') : Seen(k)
    PROVE  Loading'
<1>1. PICK r : r = Idle /\ r.at = "idle"
  <2>1. Idle.at = "idle"
    BY DEF Idle
  <2> QED BY <2>1
<1>2. ~Resolved(r) /\ r.at \notin BuildSteps /\ r.at # "lookup"
  <2>1. ~Resolved(r)
    BY <1>1, Zenon DEF Resolved
  <2>2. r.at \notin BuildSteps /\ r.at # "lookup"
    BY <1>1 DEF BuildSteps
  <2> QED BY <2>1, <2>2
<1>3. call' = [call EXCEPT ![c] = r]
  BY <1>1 DEF End
<1> QED BY <1>1, <1>2, <1>3, Elsewhere

\* The steps of loading a profile.
LEMMA NextStep ==
    ASSUME Loading, NEW c \in Calls, call[c].at \in LoadSteps \union {"ability"},
           NEW at \in LoadSteps \union {"compare", "text", "map", "refused"}, Step(c, at),
           at = "refused" => call[c].why = "resolve" /\ Bad(call[c].id),
           at = "map" => call[c].why = "resolve" /\ (call[c].id \in Names => \E l \in past : Profile(l, call[c].id) = None),
           at = "compare" => call[c].why = "similar",
           at = "builtin" /\ call[c].why = "resolve" /\ call[c].id \in Names => \E l \in past : l[call[c].id] = None,
           at = "build" => call[c].name \in Names /\ Seen(call[c].name),
           at = "text" => call[c].at = "ability",
           at \in LoadSteps => call[c].at \in LoadSteps,
           UNCHANGED files, UNCHANGED <<displayNameMap, mapInitialized, unmapped>>,
           IsCache(cache'), \A k \in KeysOf(cache') : Seen(k)
    PROVE  Loading'
<1>1. PICK r : r = call[c]
  OBVIOUS
<1>2. IsCall(r) /\ Sound(r) /\ r.at \notin BuildSteps
  BY <1>1, AtWork DEF Steps, LoadSteps, BuildSteps, MapSteps
<1>3. PICK s : s = [r EXCEPT !.at = at]
  OBVIOUS
<1>4. at \in Steps /\ at \notin BuildSteps \union {"unknown", "lookup"}
  BY DEF Steps, LoadSteps, BuildSteps, MapSteps
<1>5. /\ IsCall(s) /\ s.at = at /\ s.id = r.id /\ s.name = r.name /\ s.why = r.why
  BY <1>2, <1>3, <1>4, Stepped
<1>6. Sound(s)
  BY <1>1, <1>2, <1>5 DEF Sound, Steps, LoadSteps, BuildSteps, MapSteps
<1>7. call' = [call EXCEPT ![c] = s]
  BY <1>1, <1>3 DEF Step
<1>8. s.at # "lookup" /\ s.at \notin BuildSteps \union {"unknown"}
  BY <1>4, <1>5
<1> QED BY <1>1, <1>2, <1>5, <1>6, <1>7, <1>8, Onward

\* A name of an agent that was there is its own answer.
LEMMA NameAnswered ==
    ASSUME NEW n \in Names, Seen(n)
    PROVE  Answered(n, n)
BY NamesApart DEF Answered, Seen, Before, Identifiers

LEMMA LoadedWell ==
    ASSUME Loading, NEW c \in Calls, call[c].at \in {"load", "build"}, Loaded(c),
           call[c].name \in Names, Seen(call[c].name),
           UNCHANGED files, UNCHANGED <<displayNameMap, mapInitialized, unmapped>>,
           IsCache(cache'), \A k \in KeysOf(cache') : Seen(k)
    PROVE  Loading'
<1>1. PICK r : r = call[c]
  OBVIOUS
<1>2. IsCall(r) /\ Sound(r) /\ r.at \notin BuildSteps /\ r.at \in LoadSteps
  BY <1>1, AtWork DEF Steps, LoadSteps, BuildSteps, MapSteps
<1>3. r = [at |-> r.at, id |-> r.id, name |-> r.name, why |-> r.why, todo |-> r.todo, found |-> r.found, all |-> r.all,
           abilities |-> r.abilities]
  BY <1>2 DEF IsCall
<1>4. CASE r.why = "resolve"
  <2>1. PICK s : s = [r EXCEPT !.at = "load", !.why = "context"]
    OBVIOUS
  <2>2. s = [at |-> "load", id |-> r.id, name |-> r.name, why |-> "context", todo |-> r.todo, found |-> r.found, all |-> r.all,
             abilities |-> r.abilities]
    BY <1>3, <2>1
  <2>3. /\ s.at = "load" /\ s.id = r.id /\ s.name = r.name /\ s.why = "context"
        /\ s.todo = r.todo /\ s.found = r.found /\ s.all = r.all /\ s.abilities = r.abilities
    BY <2>2
  <2>4. IsCall(s)
    BY <1>2, <2>2, <2>3 DEF IsCall, Steps, LoadSteps
  <2>8. Meant(s.name, s.id)
    BY <1>1, <1>2, <1>4, <2>3 DEF Sound, Meant, Seen, Called
  <2>5. Sound(s) /\ s.at \notin BuildSteps /\ s.at # "lookup"
    BY <2>3, <2>8 DEF Sound, MapSteps, BuildSteps
  <2>6. call' = [call EXCEPT ![c] = s]
    BY <1>1, <1>4, <2>1 DEF Loaded
  <2>7. Answered(s.name, s.id)
    BY <1>1, <1>2, <1>4, <2>3, NameAnswered DEF Sound
  <2> QED BY <1>1, <1>2, <2>4, <2>5, <2>6, <2>7, Elsewhere
<1>5. CASE r.why = "context"
  <2>1. PICK a, s : a = AbilitiesOf[call[c].name] /\ s = [r EXCEPT !.at = "ability", !.abilities = a]
    OBVIOUS
  <2>2. s = [at |-> "ability", id |-> r.id, name |-> r.name, why |-> r.why, todo |-> r.todo, found |-> r.found, all |-> r.all,
             abilities |-> a]
    BY <1>3, <2>1
  <2>3. /\ s.at = "ability" /\ s.id = r.id /\ s.name = r.name /\ s.why = r.why
        /\ s.todo = r.todo /\ s.found = r.found /\ s.all = r.all /\ s.abilities = a
    BY <2>2
  <2>4. IsCall(s)
    BY <1>2, <2>2, <2>3 DEF IsCall, Steps, LoadSteps
  <2>5. Sound(s) /\ s.at \notin BuildSteps \union {"unknown"} /\ s.at # "lookup"
    BY <1>2, <1>5, <2>3 DEF Sound, MapSteps, BuildSteps
  <2>6. call' = [call EXCEPT ![c] = s]
    BY <1>1, <1>5, <2>1 DEF Loaded
  <2> QED BY <1>1, <1>2, <2>3, <2>4, <2>5, <2>6, Onward
<1>6. CASE r.why = "similar"
  <2>1. PICK s : s = [r EXCEPT !.at = "compare"]
    OBVIOUS
  <2>2. "compare" \in Steps
    BY DEF Steps
  <2>3. IsCall(s) /\ s.at = "compare" /\ s.id = r.id /\ s.name = r.name /\ s.why = r.why
    BY <1>2, <2>1, <2>2, Stepped
  <2>4. Sound(s) /\ s.at \notin BuildSteps \union {"unknown"} /\ s.at # "lookup"
    BY <1>6, <2>3 DEF Sound, MapSteps, BuildSteps
  <2>5. call' = [call EXCEPT ![c] = s]
    BY <1>1, <1>6, <2>1 DEF Loaded
  <2> QED BY <1>1, <1>2, <2>3, <2>4, <2>5, Onward
<1> QED BY <1>2, <1>4, <1>5, <1>6 DEF IsCall

LEMMA FailsWell ==
    ASSUME Loading, NEW c \in Calls, call[c].at \in LoadSteps, Fails(c), call[c].why = "resolve" => Bad(call[c].id),
           UNCHANGED files, UNCHANGED <<displayNameMap, mapInitialized, unmapped>>,
           IsCache(cache'), \A k \in KeysOf(cache') : Seen(k)
    PROVE  Loading'
<1>1. IsCache(cache') /\ \A k \in KeysOf(cache') : Seen(k)
  OBVIOUS
<1>2. CASE call[c].why = "similar"
  <2>1. Step(c, "compare")
    BY <1>2 DEF Fails
  <2> QED BY <1>1, <1>2, <2>1, NextStep DEF LoadSteps
<1>3. CASE call[c].why = "context"
  <2>1. End(c) /\ call[c].at \notin BuildSteps
    BY <1>3 DEF Fails, LoadSteps, BuildSteps
  <2> QED BY <1>1, <2>1, Ending
<1>4. CASE call[c].why = "resolve"
  <2>1. Step(c, "refused")
    BY <1>4 DEF Fails
  <2> QED BY <1>1, <1>4, <2>1, NextStep DEF LoadSteps
<1>5. IsCall(call[c])
  BY AtWork DEF Steps
<1> QED BY <1>2, <1>3, <1>4, <1>5 DEF IsCall

LEMMA ProfileLoads ==
    ASSUME Loading, NEW c \in Calls,
           ProfileHit(c) \/ ProfileMiss(c) \/ ReadLocal(c) \/ ReadBuiltIn(c) \/ buildProfile(c)
    PROVE  Loading'
<1>0. IsCache(cache) /\ (\A k \in KeysOf(cache) : k \in Names /\ Seen(k)) /\ local \in past
  <2>1. IsCache(cache) /\ (\A k \in KeysOf(cache) : Seen(k)) /\ local \in past
    BY DEF Loading
  <2>2. ASSUME NEW i \in DOMAIN cache.entries PROVE cache.entries[i].key \in Names
    <3>1. PICK s \in Seq(Entries) : s = cache.entries
      BY <2>1 DEF IsCache
    <3>2. s[i] \in Entries
      BY <2>2, <3>1, ElementOfSeq, LenProperties
    <3> QED BY <3>1, <3>2 DEF Entries
  <2> QED BY <2>1, <2>2 DEF KeysOf
<1>1. CASE ProfileHit(c)
  <2>1. Fewer(cache', cache)
    BY <1>0, <1>1, GetFewer DEF ProfileHit
  <2>2. call[c].name \in KeysOf(cache)
    BY <1>1, FreshKey DEF ProfileHit
  <2>3. IsCache(cache') /\ \A k \in KeysOf(cache') : Seen(k)
    BY <2>1, StillCached
  <2> QED BY <1>0, <1>1, <2>2, <2>3, LoadedWell DEF ProfileHit
<1>2. CASE ProfileMiss(c)
  <2>1. Fewer(cache', cache)
    BY <1>0, <1>2, GetFewer DEF ProfileMiss
  <2>2. IsCache(cache') /\ \A k \in KeysOf(cache') : Seen(k)
    BY <2>1, StillCached
  <2>3. UNCHANGED files /\ UNCHANGED <<displayNameMap, mapInitialized, unmapped>> /\ call[c].at = "load" /\ call[c].at \in LoadSteps
    BY <1>2 DEF ProfileMiss, LoadSteps
  <2>4. CASE call[c].name \notin Refused
    <3>1. Step(c, "local")
      BY <1>2, <2>4 DEF ProfileMiss
    <3> QED BY <2>2, <2>3, <3>1, NextStep DEF LoadSteps
  <2>5. CASE call[c].name \in Refused
    <3>1. Fails(c)
      BY <1>2, <2>5 DEF ProfileMiss
    <3>2. Sound(call[c])
      BY <2>3, AtWork DEF Steps
    <3>3. call[c].why = "resolve" => Bad(call[c].id)
      BY <2>3, <2>5, <3>2 DEF Sound, Bad
    <3> QED BY <2>2, <2>3, <3>1, <3>3, FailsWell
  <2> QED BY <2>4, <2>5
<1>3. CASE ReadLocal(c)
  <2>1. PICK p : p = IF call[c].name \in Names THEN local[call[c].name] ELSE None
    OBVIOUS
  <2>2. /\ call[c].at = "local" /\ UNCHANGED <<files, loader>>
        /\ IF p # None THEN Parsed(c, p) ELSE Step(c, "builtin")
    BY <1>3, <2>1 DEF ReadLocal
  <2>3. UNCHANGED files /\ UNCHANGED <<displayNameMap, mapInitialized, unmapped>> /\ cache' = cache
    BY <2>2 DEF loader
  <2>4. CASE p = None
    <3>1. Sound(call[c])
      BY <2>2, AtWork DEF Steps, LoadSteps
    <3>2. call[c].why = "resolve" /\ call[c].id \in Names => \E l \in past : l[call[c].id] = None
      BY <1>0, <2>1, <2>2, <2>4, <3>1 DEF Sound, LoadSteps
    <3> QED BY <1>0, <2>2, <2>3, <2>4, <3>2, NextStep DEF LoadSteps
  <2>5. CASE p # None /\ p.valid
    <3>1. call[c].name \in Names /\ Seen(call[c].name)
      BY <1>0, <2>1, <2>5 DEF Seen, Profile
    <3>2. Step(c, "build")
      BY <2>2, <2>5 DEF Parsed
    <3> QED BY <1>0, <2>2, <2>3, <3>1, <3>2, NextStep DEF LoadSteps
  <2>6. CASE p # None /\ ~p.valid
    <3>1. Fails(c)
      BY <2>2, <2>6 DEF Parsed
    <3>2. Sound(call[c])
      BY <2>2, AtWork DEF Steps, LoadSteps
    <3>3. call[c].why = "resolve" => Bad(call[c].id)
      BY <1>0, <2>1, <2>2, <2>6, <3>2 DEF Sound, Bad, Profile, LoadSteps
    <3> QED BY <1>0, <2>2, <2>3, <3>1, <3>3, FailsWell DEF LoadSteps
  <2> QED BY <2>4, <2>5, <2>6
<1>4. CASE ReadBuiltIn(c)
  <2>1. PICK p : p = IF call[c].name \in Names THEN BuiltIn[call[c].name] ELSE None
    OBVIOUS
  <2>2. /\ call[c].at = "builtin" /\ UNCHANGED <<files, loader>>
        /\ IF p # None THEN Parsed(c, p) ELSE IF call[c].why = "resolve" THEN Step(c, "map") ELSE Fails(c)
    BY <1>4, <2>1 DEF ReadBuiltIn
  <2>3. UNCHANGED files /\ UNCHANGED <<displayNameMap, mapInitialized, unmapped>> /\ cache' = cache
    BY <2>2 DEF loader
  <2>4. CASE p = None /\ call[c].why = "resolve"
    <3>1. Sound(call[c])
      BY <2>2, AtWork DEF Steps, LoadSteps
    <3>2. call[c].id \in Names => \E l \in past : Profile(l, call[c].id) = None
      BY <2>1, <2>2, <2>4, <3>1 DEF Sound, LoadSteps, Profile
    <3> QED BY <1>0, <2>2, <2>3, <2>4, <3>2, NextStep DEF LoadSteps
  <2>5. CASE p # None /\ p.valid
    <3>1. call[c].name \in Names /\ Seen(call[c].name)
      BY <1>0, <2>1, <2>5 DEF Seen, Profile
    <3>2. Step(c, "build")
      BY <2>2, <2>5 DEF Parsed
    <3> QED BY <1>0, <2>2, <2>3, <3>1, <3>2, NextStep DEF LoadSteps
  <2>6. CASE (p # None /\ ~p.valid) \/ (p = None /\ call[c].why # "resolve")
    <3>1. Fails(c)
      BY <2>2, <2>6 DEF Parsed
    <3>2. Sound(call[c])
      BY <2>2, AtWork DEF Steps, LoadSteps
    <3>3. call[c].why = "resolve" => Bad(call[c].id)
      BY <1>0, <2>1, <2>2, <2>6, <3>2 DEF Sound, Bad, Profile, LoadSteps
    <3> QED BY <1>0, <2>2, <2>3, <3>1, <3>3, FailsWell DEF LoadSteps
  <2> QED BY <2>4, <2>5, <2>6
<1>5. CASE buildProfile(c)
  <2>1. call[c].name \in Names /\ Seen(call[c].name)
    <3>1. Sound(call[c]) /\ call[c].at = "build"
      BY <1>5, AtWork DEF buildProfile, Steps, LoadSteps
    <3> QED BY <3>1 DEF Sound
  <2>2. IsCache(cache') /\ KeysOf(cache') \subseteq KeysOf(cache) \union {call[c].name}
    BY <1>0, <1>5, <2>1, SetFewer DEF buildProfile
  <2>3. IsCache(cache') /\ \A k \in KeysOf(cache') : Seen(k)
    BY <1>0, <2>1, <2>2
  <2> QED BY <1>5, <2>1, <2>3, LoadedWell DEF buildProfile
<1> QED BY <1>1, <1>2, <1>3, <1>4, <1>5

LEMMA Unchanged ==
    ASSUME Loading, UNCHANGED <<files, loader, call>>
    PROVE  Loading'
<1>1. past \subseteq past' /\ local' \in past' /\ UNCHANGED <<loader, call>>
  BY DEF Loading, files
<1> QED BY <1>1, PastGrows

\* The other steps of calls that leave the map alone.
LEMMA CallsGoOn ==
    ASSUME Loading, NEW c \in Calls,
           \/ UnknownAgent(c) \/ findSimilarAgents(c) \/ CompareNext(c) \/ (\E i \in Identifiers : createContext(c, i))
           \/ AbilityHit(c) \/ AbilityMiss(c) \/ ReadAbility(c) \/ ContextCreated(c)
    PROVE  Loading'
<1>1. UNCHANGED files /\ UNCHANGED <<displayNameMap, mapInitialized, unmapped>> /\ cache' = cache
  BY DEF UnknownAgent, findSimilarAgents, CompareNext, createContext, AbilityHit, AbilityMiss, ReadAbility, ContextCreated, loader
<1>2. IsCache(cache') /\ \A k \in KeysOf(cache') : Seen(k)
  BY <1>1 DEF Loading
<1>3. PICK r : r = call[c]
  OBVIOUS
<1>4. r.at \in Steps => IsCall(r) /\ Sound(r)
  BY <1>3, AtWork
<1>5. CASE UnknownAgent(c) \/ ContextCreated(c)
  <2>1. End(c) /\ call[c].at \notin BuildSteps
    BY <1>5 DEF UnknownAgent, ContextCreated, BuildSteps
  <2> QED BY <1>1, <1>2, <2>1, Ending
<1>6. CASE findSimilarAgents(c)
  <2>1. IsCall(r) /\ call[c].at \notin BuildSteps
    BY <1>3, <1>4, <1>6 DEF findSimilarAgents, Steps, BuildSteps
  <2>2. PICK s : s = [r EXCEPT !.at = "map", !.why = "similar", !.all = listProfiles]
    OBVIOUS
  <2>3. s = [at |-> "map", id |-> r.id, name |-> r.name, why |-> "similar", todo |-> r.todo, found |-> r.found, all |-> listProfiles,
             abilities |-> r.abilities]
    BY <2>1, <2>2 DEF IsCall
  <2>4. /\ s.at = "map" /\ s.id = r.id /\ s.name = r.name /\ s.why = "similar"
        /\ s.todo = r.todo /\ s.found = r.found /\ s.all = listProfiles /\ s.abilities = r.abilities
    BY <2>3
  <2>5. listProfiles \in SUBSET Names
    BY DEF listProfiles
  <2>6. IsCall(s)
    BY <2>1, <2>3, <2>4, <2>5 DEF IsCall, Steps, MapSteps
  <2>7. Sound(s) /\ ~Resolved(s) /\ s.at \notin BuildSteps /\ s.at # "lookup"
    BY <2>4 DEF Sound, Resolved, MapSteps, BuildSteps, LoadSteps
  <2>8. call' = [call EXCEPT ![c] = s]
    BY <1>3, <1>6, <2>2 DEF findSimilarAgents
  <2> QED BY <1>1, <1>2, <2>1, <2>6, <2>7, <2>8, Elsewhere
<1>7. CASE CompareNext(c)
  <2>1. IsCall(r) /\ Sound(r) /\ r.at = "compare" /\ call[c].at \notin BuildSteps
    BY <1>3, <1>4, <1>7 DEF CompareNext, Steps, BuildSteps
  <2>2. CASE r.todo = {}
    <3>1. End(c)
      BY <1>3, <1>7, <2>2 DEF CompareNext
    <3> QED BY <1>1, <1>2, <2>1, <3>1, Ending
  <2>3. CASE r.todo # {}
    <3>1. PICK n \in Names : n = First(r.todo)
      BY <2>1, <2>3, FirstThere DEF IsCall
    <3>2. PICK s : s = [r EXCEPT !.at = "load", !.name = n, !.todo = r.todo \ {n}]
      OBVIOUS
    <3>3. s = [at |-> "load", id |-> r.id, name |-> n, why |-> r.why, todo |-> r.todo \ {n}, found |-> r.found, all |-> r.all,
               abilities |-> r.abilities]
      BY <2>1, <3>2 DEF IsCall
    <3>4. /\ s.at = "load" /\ s.id = r.id /\ s.name = n /\ s.why = r.why
          /\ s.todo = r.todo \ {n} /\ s.found = r.found /\ s.all = r.all /\ s.abilities = r.abilities
      BY <3>3
    <3>5. IsCall(s)
      BY <2>1, <3>3, <3>4, NamesApart DEF IsCall, Steps, LoadSteps
    <3>6. r.why = "similar"
      BY <2>1 DEF Sound
    <3>7. Sound(s) /\ ~Resolved(s) /\ s.at \notin BuildSteps /\ s.at # "lookup"
      BY <3>4, <3>6 DEF Sound, Resolved, MapSteps, BuildSteps, LoadSteps
    <3>8. call' = [call EXCEPT ![c].at = "load", ![c].name = n, ![c].todo = call[c].todo \ {n}]
      BY <1>3, <1>7, <2>3, <3>1 DEF CompareNext
    <3>9. call' = [call EXCEPT ![c] = s]
      BY <1>3, <3>2, <3>8
    <3> QED BY <1>1, <1>2, <2>1, <3>5, <3>7, <3>9, Elsewhere
  <2> QED BY <2>2, <2>3
<1>8. CASE \E i \in Identifiers : createContext(c, i)
  <2>1. PICK i \in Identifiers : createContext(c, i)
    BY <1>8
  <2>2. PICK s : s = [at |-> "load", id |-> i, name |-> i, why |-> "resolve", todo |-> {}, found |-> {}, all |-> {}, abilities |-> <<>>]
    OBVIOUS
  <2>3. /\ s.at = "load" /\ s.id = i /\ s.name = i /\ s.why = "resolve"
        /\ s.todo = {} /\ s.found = {} /\ s.all = {} /\ s.abilities = <<>>
    BY <2>2
  <2>4. IsCall(s)
    BY <2>2, <2>3 DEF IsCall, Steps, LoadSteps
  <2>5. Sound(s) /\ ~Resolved(s) /\ s.at \notin BuildSteps /\ s.at # "lookup"
    BY <2>3 DEF Sound, Resolved, MapSteps, BuildSteps, LoadSteps
  <2>6. call' = [call EXCEPT ![c] = s] /\ call[c].at \notin BuildSteps
    BY <2>1, <2>2 DEF createContext, Idle, BuildSteps
  <2> QED BY <1>1, <1>2, <2>4, <2>5, <2>6, Elsewhere
<1>9. CASE AbilityMiss(c)
  <2>1. Step(c, "text") /\ call[c].at = "ability"
    BY <1>9 DEF AbilityMiss
  <2> QED BY <1>1, <1>2, <2>1, NextStep DEF LoadSteps
<1>10. CASE AbilityHit(c) \/ ReadAbility(c)
  <2>1. NextAbility(c, "ability") /\ r.at \in {"ability", "text"}
    BY <1>3, <1>10 DEF AbilityHit, ReadAbility
  <2>2. IsCall(r) /\ r.at \notin BuildSteps
    BY <1>4, <2>1 DEF Steps, BuildSteps
  <2>3. PICK s : s = [r EXCEPT !.at = "ability", !.abilities = Tail(r.abilities)]
    OBVIOUS
  <2>4. PICK a : s = [at |-> "ability", id |-> r.id, name |-> r.name, why |-> r.why, todo |-> r.todo, found |-> r.found, all |-> r.all,
             abilities |-> a]
    BY <2>2, <2>3 DEF IsCall
  <2>5. /\ s.at = "ability" /\ s.id = r.id /\ s.name = r.name /\ s.why = r.why
        /\ s.todo = r.todo /\ s.found = r.found /\ s.all = r.all /\ s.abilities = a
    BY <2>4
  <2>6. IsCall(s)
    BY <2>2, <2>4, <2>5 DEF IsCall, Steps
  <2>9. Sound(r)
    BY <1>4, <2>1 DEF Steps
  <2>7. Sound(s) /\ s.at \notin BuildSteps \union {"unknown"} /\ s.at # "lookup"
    BY <2>5, <2>9 DEF Sound, MapSteps, BuildSteps, LoadSteps
  <2>8. call' = [call EXCEPT ![c] = s]
    BY <1>3, <2>1, <2>3 DEF NextAbility
  <2> QED BY <1>1, <1>2, <1>3, <2>2, <2>5, <2>6, <2>7, <2>8, Onward
<1> QED BY <1>5, <1>6, <1>7, <1>8, <1>9, <1>10

\* Time passes, files come and go.
LEMMA OthersGoOn ==
    ASSUME Loading,
           \/ \E n \in Names : ExpireProfile(n)
           \/ \E a \in Abilities : ExpireAbility(a)
           \/ CleanupProfiles \/ CleanupAbilities
           \/ \E x \in Commands :
                 \/ \E n \in Names : remove(x, n) \/ \E d \in DisplayNames : create(x, n, d)
                 \/ Checked(x) \/ Written(x) \/ Removed(x)
    PROVE  Loading'
<1>1. CASE (\E n \in Names : ExpireProfile(n)) \/ CleanupProfiles
  <2>1. Fewer(cache', cache)
    <3>1. IsCache(cache)
      BY DEF Loading
    <3>2. CASE CleanupProfiles
      BY <3>1, <3>2, CleanupFewer DEF CleanupProfiles
    <3>3. CASE \E n \in Names : ExpireProfile(n)
      BY <3>1, <3>3, ExpireFewer DEF ExpireProfile
    <3> QED BY <1>1, <3>2, <3>3
  <2>2. IsCache(cache') /\ \A k \in KeysOf(cache') : Seen(k)
    BY <2>1, StillCached
  <2>3. UNCHANGED <<files, displayNameMap, mapInitialized, unmapped, call>>
    BY <1>1 DEF ExpireProfile, CleanupProfiles
  <2>4. local' = local /\ past' = past
    BY <2>3 DEF files
  <2>5. Going' /\ Mapped'
    <3>1. Going /\ Mapped
      BY DEF Loading
    <3>2. /\ \A n, i : Answered(n, i)' <=> Answered(n, i)
          /\ \A D : Scanned(D)' <=> Scanned(D)
      BY <2>3, SameAnswers
    <3>3. Going'
      BY <2>3, <2>4, <3>1 DEF Going, Sound, Seen, Meant, Bad
    <3>4. Mapped'
      BY <2>3, <2>4, <3>1, <3>2 DEF Mapped
    <3> QED BY <3>3, <3>4
  <2> QED BY <2>2, <2>3, <2>4, <2>5 DEF Loading, Seen
<1>2. CASE (\E a \in Abilities : ExpireAbility(a)) \/ CleanupAbilities
  BY <1>2, Unchanged DEF ExpireAbility, CleanupAbilities
<1>3. ASSUME NEW x \in Commands,
             \/ \E n \in Names : remove(x, n) \/ \E d \in DisplayNames : create(x, n, d)
             \/ Checked(x) \/ Written(x) \/ Removed(x)
      PROVE  Loading'
  <2>1. past \subseteq past' /\ local' \in past' /\ UNCHANGED <<loader, call>>
    BY <1>3 DEF Loading, remove, create, Checked, Written, Removed, Put
  <2> QED BY <2>1, PastGrows
<1> QED BY <1>1, <1>2, <1>3

\* What is needed when a call builds the map, or has just built it.
LEMMA Builds ==
    ASSUME Loading, NEW c \in Calls, NEW s, IsCall(s), Sound(s), call' = [call EXCEPT ![c] = s], ~Resolved(s),
           UNCHANGED files, cache' = cache, mapInitialized' \in BOOLEAN, unmapped' \in BOOLEAN,
           ~unmapped' =>
               /\ ~unmapped /\ ~mapInitialized
               /\ \A other \in Calls : call[other].at \in BuildSteps => other = c
               /\ s.at \in BuildSteps => ~mapInitialized' /\ Scanned(Added(s))' /\ (s.at # "list" => \E l \in past : Ordered(s, l))
               /\ s.at \notin BuildSteps => mapInitialized' /\ Scanned(Names)'
    PROVE  Loading'
<1>0. s = Idle \/ (IsCall(s) /\ Sound(s))
  OBVIOUS
<1>1. Going' /\ \A k \in Calls : call'[k] = IF k = c THEN s ELSE call[k]
  BY <1>0, Moves, ZenonT(60)
<1>2. /\ \A n, i : Answered(n, i)' <=> Answered(n, i)
      /\ \A n : Seen(n)' <=> Seen(n)
  BY SameAnswers
<1>3. past' = past /\ local' = local
  BY DEF files
<1>4. Mapped'
  <2>1. SUFFICES ASSUME ~unmapped' PROVE Mapped'
    BY DEF Mapped
  <2>2. Mapped /\ ~unmapped /\ ~mapInitialized
    BY <2>1 DEF Loading
  <2>3. CASE s.at \in BuildSteps
    <3>1. ASSUME NEW k \in Calls, call'[k].at \in BuildSteps
          PROVE  /\ ~mapInitialized' /\ \A other \in Calls : call'[other].at \in BuildSteps => other = k
                 /\ Scanned(Added(call[k]))' /\ (call'[k].at # "list" => \E l \in past' : Ordered(call'[k], l))
      <4>1. k = c /\ call'[k] = s
        BY <1>1, <2>1, <3>1
      <4>2. Added(call[k])' = Added(s)
        BY <4>1 DEF Added
      <4>3. PICK D : D = Added(s)
        OBVIOUS
      <4>4. Scanned(D)'
        BY <2>1, <2>3, <4>3
      <4>5. Scanned(Added(call[k]))'
        BY <4>2, <4>3, <4>4
      <4>6. \A other \in Calls : call'[other].at \in BuildSteps => other = k
        BY <1>1, <2>1, <4>1
      <4> QED BY <1>3, <2>1, <2>3, <4>1, <4>5, <4>6
    <3>2. ~mapInitialized'
      BY <2>1, <2>3
    <3>3. \A k \in Calls : call'[k].at # "lookup"
      <4>1. s.at # "lookup"
        BY <2>3 DEF BuildSteps
      <4> QED BY <1>1, <2>2, <4>1 DEF Mapped
    <3>4. \A k \in Calls : Resolved(call[k])' => Answered(call[k].name, call[k].id)'
      <4>1. ASSUME NEW k \in Calls, Resolved(call[k])' PROVE Answered(call[k].name, call[k].id)'
        <5>1. PICK r : r = call'[k]
          OBVIOUS
        <5>2. Resolved(r)
          BY <4>1, <5>1 DEF Resolved
        <5>3. k # c /\ r = call[k]
          BY <1>1, <5>1, <5>2
        <5>4. PICK n, i : n = r.name /\ i = r.id
          OBVIOUS
        <5>5. Answered(n, i)
          BY <2>2, <5>2, <5>3, <5>4 DEF Mapped
        <5>6. Answered(n, i)'
          BY <1>2, <5>5
        <5> QED BY <5>1, <5>4, <5>6
      <4> QED BY <4>1
    <3> QED BY <3>1, <3>2, <3>3, <3>4 DEF Mapped
  <2>4. CASE s.at \notin BuildSteps
    <3>1. mapInitialized' /\ Scanned(Names)'
      BY <2>1, <2>4
    <3>2. \A k \in Calls : call'[k].at \notin BuildSteps
      BY <1>1, <2>1, <2>4
    <3>3. \A k \in Calls : Resolved(call[k])' => Answered(call[k].name, call[k].id)'
      <4>1. ASSUME NEW k \in Calls, Resolved(call[k])' PROVE Answered(call[k].name, call[k].id)'
        <5>1. PICK r : r = call'[k]
          OBVIOUS
        <5>2. Resolved(r)
          BY <4>1, <5>1 DEF Resolved
        <5>3. k # c /\ r = call[k]
          BY <1>1, <5>1, <5>2
        <5>4. PICK n, i : n = r.name /\ i = r.id
          OBVIOUS
        <5>5. Answered(n, i)
          BY <2>2, <5>2, <5>3, <5>4 DEF Mapped
        <5>6. Answered(n, i)'
          BY <1>2, <5>5
        <5> QED BY <5>1, <5>4, <5>6
      <4> QED BY <4>1
    <3> QED BY <3>1, <3>2, <3>3 DEF Mapped
  <2> QED BY <2>3, <2>4
<1>5. IsCache(cache)' /\ \A k \in KeysOf(cache') : Seen(k)'
  <2>1. IsCache(cache) /\ \A k \in KeysOf(cache) : Seen(k)
    BY DEF Loading
  <2> QED BY <1>2, <2>1
<1> QED BY <1>1, <1>3, <1>4, <1>5 DEF Loading

\* One more name is added to the map, when all those added are ahead of it.
LEMMA AddsOne ==
    ASSUME NEW n \in Names, addToDisplayNameMap(n), past' = past, local \in past, NEW D \in SUBSET Names, Scanned(D),
           NEW l \in past, \A m \in D : Ahead(l, m, n)
    PROVE  Scanned(D \union {n})'
<1>1. PICK p : p = Profile(local, n)
  OBVIOUS
<1>2. CASE n \in Refused \/ p = None \/ p.displayName \in {None} \union DOMAIN displayNameMap
  <2>1. displayNameMap' = displayNameMap
    BY <1>1, <1>2 DEF addToDisplayNameMap
  <2>2. ASSUME n \notin Refused, NEW i \in Identifiers, \A k \in past : DisplayedAs(k, n, i)
        PROVE  i \in DOMAIN displayNameMap /\ \E k \in past : Ahead(k, displayNameMap[i], n)
    <3>1. p # None /\ p.displayName = i
      BY <1>1, <2>2 DEF DisplayedAs
    <3>2. i \in DOMAIN displayNameMap
      BY <1>2, <2>2, <3>1, NamesApart
    <3>3. displayNameMap[i] \in D
      BY <3>2 DEF Scanned
    <3> QED BY <3>2, <3>3
  <2> QED BY <2>1, <2>2 DEF Scanned
<1>3. CASE ~(n \in Refused \/ p = None \/ p.displayName \in {None} \union DOMAIN displayNameMap)
  <2>1. PICK d : d = p.displayName
    OBVIOUS
  <2>2. displayNameMap' = [i \in DOMAIN displayNameMap \union {d} |-> IF i = d THEN n ELSE displayNameMap[i]]
    BY <1>1, <1>3, <2>1 DEF addToDisplayNameMap
  <2>3. /\ DOMAIN displayNameMap' = DOMAIN displayNameMap \union {d} /\ displayNameMap'[d] = n
        /\ \A i \in DOMAIN displayNameMap : displayNameMap'[i] = displayNameMap[i]
    BY <1>3, <2>1, <2>2
  <2>4. DisplayedAs(local, n, d) /\ d \notin DOMAIN displayNameMap
    BY <1>1, <1>3, <2>1 DEF DisplayedAs
  <2>5. ASSUME NEW i \in DOMAIN displayNameMap'
        PROVE  displayNameMap'[i] \in D \union {n} /\ \E k \in past : DisplayedAs(k, displayNameMap'[i], i)
    BY <2>3, <2>4 DEF Scanned
  <2>6. ASSUME NEW m \in (D \union {n}) \ Refused, NEW i \in Identifiers, \A k \in past : DisplayedAs(k, m, i)
        PROVE  i \in DOMAIN displayNameMap' /\ (displayNameMap'[i] = m \/ \E k \in past : Ahead(k, displayNameMap'[i], m))
    <3>1. CASE m \in D
      BY <2>3, <2>6, <3>1 DEF Scanned
    <3>2. CASE m = n
      <4>1. i = d
        BY <1>1, <2>1, <2>6, <3>2 DEF DisplayedAs
      <4> QED BY <2>3, <3>2, <4>1
    <3> QED BY <3>1, <3>2
  <2> QED BY <2>5, <2>6 DEF Scanned
<1> QED BY <1>2, <1>3

\* A call that builds the map, and what it has found so far.
LEMMA AtBuilding ==
    ASSUME Loading, NEW c \in Calls, call[c].at \in BuildSteps
    PROVE  /\ IsCall(call[c]) /\ Sound(call[c]) /\ call[c].why # "context"
           /\ ~unmapped =>
                 /\ ~mapInitialized /\ \A other \in Calls : call[other].at \in BuildSteps => other = c
                 /\ Scanned(Added(call[c])) /\ (call[c].at # "list" => \E l \in past : Ordered(call[c], l))
<1>1. IsCall(call[c]) /\ Sound(call[c])
  BY AtWork DEF Steps, MapSteps
<1>2. call[c].why # "context"
  BY <1>1 DEF Sound, MapSteps
<1> QED BY <1>1, <1>2 DEF Loading, Mapped

\* A call stays among those that ask the map.
LEMMA StillSound ==
    ASSUME NEW r, IsCall(r), Sound(r), r.at \in MapSteps, NEW s, s.at \in MapSteps, s.why = r.why, s.id = r.id
    PROVE  Sound(s) /\ ~Resolved(s)
<1>1. Sound(s)
  BY DEF Sound, MapSteps, BuildSteps, LoadSteps
<1>2. s.why # "context" /\ s.at # "unknown"
  BY DEF Sound, MapSteps, BuildSteps
<1> QED BY <1>1, <1>2 DEF Resolved

LEMMA MapStarted ==
    ASSUME Loading, NEW c \in Calls, buildDisplayNameMap(c)
    PROVE  Loading'
<1>1. PICK r : r = call[c]
  OBVIOUS
<1>2. IsCall(r) /\ Sound(r) /\ r.at = "map" /\ r.at \notin BuildSteps /\ r.at \in MapSteps
  BY <1>1, AtWork DEF buildDisplayNameMap, Steps, MapSteps, BuildSteps
<1>3. UNCHANGED files /\ cache' = cache /\ mapInitialized' = mapInitialized
  BY DEF buildDisplayNameMap
<1>4. CASE mapInitialized
  <2>1. PICK s : s = [r EXCEPT !.at = "lookup"]
    OBVIOUS
  <2>2. "lookup" \in Steps /\ "lookup" \in MapSteps
    BY DEF Steps, MapSteps
  <2>3. IsCall(s) /\ s.at = "lookup" /\ s.id = r.id /\ s.name = r.name /\ s.why = r.why
    BY <1>2, <2>1, <2>2, Stepped
  <2>4. Sound(s) /\ s.at \notin BuildSteps \union {"unknown"}
    BY <1>2, <2>2, <2>3, StillSound DEF BuildSteps
  <2>5. call' = [call EXCEPT ![c] = s] /\ UNCHANGED <<displayNameMap, mapInitialized, unmapped>>
    BY <1>1, <1>3, <1>4, <2>1 DEF buildDisplayNameMap, Step
  <2>6. IsCache(cache') /\ \A k \in KeysOf(cache') : Seen(k)
    BY <1>3 DEF Loading
  <2> QED BY <1>1, <1>2, <1>3, <1>4, <2>3, <2>4, <2>5, <2>6, Onward
<1>5. CASE ~mapInitialized
  <2>1. PICK s : s = [r EXCEPT !.at = "list"]
    OBVIOUS
  <2>2. "list" \in Steps /\ "list" \in MapSteps
    BY DEF Steps, MapSteps, BuildSteps
  <2>3. IsCall(s) /\ s.at = "list" /\ s.id = r.id /\ s.name = r.name /\ s.why = r.why
    BY <1>2, <2>1, <2>2, Stepped
  <2>4. Sound(s) /\ ~Resolved(s) /\ s.at \in BuildSteps
    BY <1>2, <2>2, <2>3, StillSound DEF BuildSteps
  <2>5. call' = [call EXCEPT ![c] = s] /\ displayNameMap' = [d \in {} |-> None]
    BY <1>1, <1>5, <2>1 DEF buildDisplayNameMap, Step
  <2>6. unmapped' = (unmapped \/ \E other \in Calls \ {c} : call[other].at \in BuildSteps)
    BY <1>5 DEF buildDisplayNameMap, Building, BuildSteps
  <2>7. Added(s) = {}
    BY <2>3 DEF Added
  <2>8. Scanned({})'
    BY <2>5 DEF Scanned
  <2>9. unmapped \in BOOLEAN /\ unmapped' \in BOOLEAN /\ mapInitialized' \in BOOLEAN
    BY <1>3, <2>6 DEF Loading
  <2>10. \A other \in Calls : ~unmapped' /\ call[other].at \in BuildSteps => other = c
    BY <1>1, <1>2, <2>6
  <2>11. PICK D : D = Added(s)
    OBVIOUS
  <2>12. Scanned(D)'
    BY <2>7, <2>8, <2>11
  <2>13. Scanned(Added(s))'
    BY <2>11, <2>12
  <2>14. ~unmapped' => ~unmapped
    BY <2>6
  <2> QED BY <1>3, <1>5, <2>3, <2>4, <2>5, <2>9, <2>10, <2>13, <2>14, Builds
<1> QED BY <1>4, <1>5 DEF Loading

LEMMA LocalListed ==
    ASSUME Loading, NEW c \in Calls, ListLocal(c)
    PROVE  Loading'
<1>1. PICK r : r = call[c]
  OBVIOUS
<1>2. r.at = "list" /\ r.at \in BuildSteps /\ r.at \in MapSteps
  BY <1>1 DEF ListLocal, BuildSteps, MapSteps
<1>3. /\ IsCall(r) /\ Sound(r)
      /\ ~unmapped => /\ ~mapInitialized /\ \A other \in Calls : call[other].at \in BuildSteps => other = c
                      /\ Scanned(Added(r))
  BY <1>1, <1>2, AtBuilding
<1>4. PICK F : F = LocalNames(local)
  OBVIOUS
<1>5. PICK s : s = [r EXCEPT !.at = "add", !.todo = F, !.found = F]
  OBVIOUS
<1>6. s = [at |-> "add", id |-> r.id, name |-> r.name, why |-> r.why, todo |-> F, found |-> F, all |-> r.all, abilities |-> r.abilities]
  BY <1>3, <1>5 DEF IsCall
<1>7. /\ s.at = "add" /\ s.id = r.id /\ s.name = r.name /\ s.why = r.why
      /\ s.todo = F /\ s.found = F /\ s.all = r.all /\ s.abilities = r.abilities
  BY <1>6
<1>8. F \in SUBSET Names
  BY <1>4 DEF LocalNames
<1>9. IsCall(s) /\ s.at \in MapSteps /\ s.at \in BuildSteps
  BY <1>3, <1>6, <1>7, <1>8 DEF IsCall, Steps, MapSteps, BuildSteps
<1>10. Sound(s) /\ ~Resolved(s)
  BY <1>2, <1>3, <1>7, <1>9, StillSound
<1>11. call' = [call EXCEPT ![c] = s]
  <2>1. call' = [call EXCEPT ![c].at = "add", ![c].todo = F, ![c].found = F]
    BY <1>4 DEF ListLocal
  <2> QED BY <1>1, <1>5, <2>1
<1>12. UNCHANGED <<files, loader>>
  BY DEF ListLocal
<1>13. Added(r) = {} /\ Added(s) = {}
  BY <1>2, <1>7 DEF Added
<1>14. Ordered(s, local) /\ local \in past
  BY <1>4, <1>7, <1>13 DEF Ordered, Loading
<1>15. UNCHANGED files /\ UNCHANGED <<cache, displayNameMap, mapInitialized, unmapped>>
  BY <1>12 DEF loader
<1>16. PICK D : D = Added(s) /\ D = Added(r)
  BY <1>13
<1>17. Scanned(D) => Scanned(D)'
  BY <1>15, SameAnswers
<1>18. ~unmapped => Scanned(Added(s))'
  BY <1>3, <1>16, <1>17
<1>19. unmapped' \in BOOLEAN /\ mapInitialized' \in BOOLEAN
  BY <1>15 DEF Loading
<1> QED BY <1>3, <1>9, <1>10, <1>11, <1>14, <1>15, <1>18, <1>19, Builds

LEMMA NextAdded ==
    ASSUME Loading, NEW c \in Calls, AddNext(c)
    PROVE  Loading'
<1>1. PICK r : r = call[c]
  OBVIOUS
<1>2. r.at \in {"add", "addBuiltIn"} /\ r.at \in BuildSteps /\ r.at \in MapSteps /\ r.todo # {}
  BY <1>1 DEF AddNext, BuildSteps, MapSteps
<1>3. /\ IsCall(r) /\ Sound(r)
      /\ ~unmapped => /\ ~mapInitialized /\ \A other \in Calls : call[other].at \in BuildSteps => other = c
                      /\ Scanned(Added(r)) /\ \E l \in past : Ordered(r, l)
  BY <1>1, <1>2, AtBuilding
<1>4. PICK n \in r.todo : n = First(r.todo) /\ \A m \in r.todo \ {n} : Place[n] < Place[m]
  BY <1>2, <1>3, FirstThere DEF IsCall
<1>5. PICK s : s = [r EXCEPT !.todo = r.todo \ {n}]
  OBVIOUS
<1>6. s = [at |-> r.at, id |-> r.id, name |-> r.name, why |-> r.why, todo |-> r.todo \ {n}, found |-> r.found, all |-> r.all,
           abilities |-> r.abilities]
  BY <1>3, <1>5 DEF IsCall
<1>7. /\ s.at = r.at /\ s.id = r.id /\ s.name = r.name /\ s.why = r.why
      /\ s.todo = r.todo \ {n} /\ s.found = r.found /\ s.all = r.all /\ s.abilities = r.abilities
  BY <1>6
<1>8. r.todo \in SUBSET Names /\ r.found \in SUBSET Names /\ n \in Names
  BY <1>3 DEF IsCall
<1>9. IsCall(s)
  BY <1>3, <1>6, <1>7, <1>8 DEF IsCall
<1>10. Sound(s) /\ ~Resolved(s)
  BY <1>2, <1>3, <1>7, StillSound
<1>11. call' = [call EXCEPT ![c] = s]
  <2>1. call' = [call EXCEPT ![c].todo = call[c].todo \ {n}]
    BY <1>1, <1>4 DEF AddNext
  <2> QED BY <1>1, <1>5, <2>1
<1>12. /\ addToDisplayNameMap(n) /\ UNCHANGED files /\ UNCHANGED <<cache, mapInitialized, unmapped>>
  BY <1>1, <1>4 DEF AddNext
<1>13. past' = past /\ local \in past
  BY <1>12 DEF files, Loading
<1>14. ASSUME ~unmapped PROVE Scanned(Added(s))' /\ \E l \in past : Ordered(s, l)
  <2>1. PICK l \in past : Ordered(r, l)
    BY <1>3, <1>14
  <2>2. /\ r.at = "add" => r.todo \subseteq r.found
        /\ r.at = "addBuiltIn" => r.todo \subseteq BuiltInNames \ r.found
        /\ r.found = LocalNames(l) /\ \A m \in Added(r), t \in r.todo : Ahead(l, m, t)
    BY <1>2, <2>1 DEF Ordered
  <2>3. PICK D : D = Added(r)
    OBVIOUS
  <2>4. D \in SUBSET Names
    BY <1>2, <1>8, <2>3 DEF Added, BuiltInNames
  <2>5. Added(s) = D \union {n}
    BY <1>2, <1>7, <2>2, <2>3 DEF Added
  <2>6. \A t \in r.todo \ {n} : Ahead(l, n, t)
    BY <1>2, <1>4, <1>8, <2>2 DEF Ahead, LocalNames
  <2>7. Ordered(s, l)
    BY <1>2, <1>7, <2>2, <2>3, <2>5, <2>6 DEF Ordered
  <2>8. Scanned(D)
    BY <1>3, <1>14, <2>3
  <2>9. \A m \in D : Ahead(l, m, n)
    BY <2>2, <2>3
  <2>10. Scanned(D \union {n})'
    BY <1>8, <1>12, <1>13, <2>4, <2>8, <2>9, AddsOne
  <2>11. PICK E : E = D \union {n}
    OBVIOUS
  <2>12. Scanned(E)'
    BY <2>10, <2>11
  <2> QED BY <2>5, <2>7, <2>11, <2>12
<1>15. unmapped' \in BOOLEAN /\ mapInitialized' \in BOOLEAN
  BY <1>12 DEF Loading
<1>16. s.at \in BuildSteps
  BY <1>2, <1>7
<1> QED BY <1>3, <1>9, <1>10, <1>11, <1>12, <1>14, <1>15, <1>16, Builds

\* The names of the built-in agents come when all local ones have been added.
LEMMA ListsGoOn ==
    ASSUME Loading, NEW c \in Calls, LocalAdded(c) \/ ListBuiltIn(c)
    PROVE  Loading'
<1>1. PICK r : r = call[c]
  OBVIOUS
<1>2. (r.at = "listBuiltIn" \/ (r.at = "add" /\ r.todo = {})) /\ r.at \in BuildSteps /\ r.at \in MapSteps
  BY <1>1 DEF LocalAdded, ListBuiltIn, BuildSteps, MapSteps
<1>3. /\ IsCall(r) /\ Sound(r)
      /\ ~unmapped => /\ ~mapInitialized /\ \A other \in Calls : call[other].at \in BuildSteps => other = c
                      /\ Scanned(Added(r)) /\ \E l \in past : Ordered(r, l)
  BY <1>1, <1>2, AtBuilding
<1>0. PICK at : at = IF r.at = "add" THEN "listBuiltIn" ELSE "addBuiltIn"
  OBVIOUS
<1>4. PICK T \in SUBSET Names : /\ at = IF r.at = "add" THEN "listBuiltIn" ELSE "addBuiltIn"
                                /\ T = IF r.at = "add" THEN {} ELSE BuiltInNames \ r.found
  BY <1>0 DEF BuiltInNames
<1>5. PICK s : s = [r EXCEPT !.at = at, !.todo = T]
  OBVIOUS
<1>6. s = [at |-> at, id |-> r.id, name |-> r.name, why |-> r.why, todo |-> T, found |-> r.found, all |-> r.all, abilities |-> r.abilities]
  BY <1>3, <1>5 DEF IsCall
<1>7. /\ s.at = at /\ s.id = r.id /\ s.name = r.name /\ s.why = r.why
      /\ s.todo = T /\ s.found = r.found /\ s.all = r.all /\ s.abilities = r.abilities
  BY <1>6
<1>8. IsCall(s) /\ s.at \in MapSteps /\ s.at \in BuildSteps
  BY <1>3, <1>4, <1>6, <1>7 DEF IsCall, Steps, MapSteps, BuildSteps
<1>9. Sound(s) /\ ~Resolved(s)
  BY <1>2, <1>3, <1>7, <1>8, StillSound
<1>10. call' = [call EXCEPT ![c] = s]
  <2>1. CASE ListBuiltIn(c)
    <3>1. call' = [call EXCEPT ![c].at = at, ![c].todo = T]
      BY <1>1, <1>4, <2>1 DEF ListBuiltIn
    <3> QED BY <1>1, <1>5, <3>1
  <2>2. CASE LocalAdded(c)
    <3>1. r.at = "add" /\ r.todo = {} /\ call' = [call EXCEPT ![c] = [r EXCEPT !.at = "listBuiltIn"]]
      BY <1>1, <2>2 DEF LocalAdded, Step
    <3>2. s = [r EXCEPT !.at = "listBuiltIn"]
      <4>1. r.todo = T /\ at = "listBuiltIn"
        BY <1>4, <3>1
      <4> QED BY <1>3, <1>6, <4>1 DEF IsCall
    <3> QED BY <3>1, <3>2
  <2> QED BY <2>1, <2>2
<1>11. UNCHANGED files /\ UNCHANGED <<cache, displayNameMap, mapInitialized, unmapped>>
  BY DEF LocalAdded, ListBuiltIn, loader
<1>12. Added(s) = Added(r)
  BY <1>2, <1>4, <1>7 DEF Added
<1>13. ASSUME NEW l, Ordered(r, l) PROVE Ordered(s, l)
  <2>1. CASE r.at = "add"
    BY <1>4, <1>7, <1>13, <2>1 DEF Ordered
  <2>2. CASE r.at = "listBuiltIn"
    <3>1. r.found = LocalNames(l) /\ Added(s) = r.found /\ s.at = "addBuiltIn" /\ T = BuiltInNames \ r.found
      BY <1>4, <1>7, <1>12, <1>13, <2>2 DEF Added, Ordered
    <3>2. \A m \in r.found, t \in T : Ahead(l, m, t)
      BY <1>4, <3>1 DEF Ahead, LocalNames
    <3> QED BY <1>7, <3>1, <3>2 DEF Ordered
  <2> QED BY <1>2, <2>1, <2>2
<1>14. PICK D : D = Added(s) /\ D = Added(r)
  BY <1>12
<1>15. Scanned(D) => Scanned(D)'
  BY <1>11, SameAnswers
<1>16. ~unmapped => Scanned(Added(s))' /\ \E l \in past : Ordered(s, l)
  BY <1>3, <1>13, <1>14, <1>15
<1>17. unmapped' \in BOOLEAN /\ mapInitialized' \in BOOLEAN
  BY <1>11 DEF Loading
<1> QED BY <1>3, <1>8, <1>9, <1>10, <1>11, <1>16, <1>17, Builds

LEMMA MapDone ==
    ASSUME Loading, NEW c \in Calls, MapBuilt(c) \/ ListingFails(c)
    PROVE  Loading'
<1>1. PICK r : r = call[c]
  OBVIOUS
<1>2. r.at \in BuildSteps /\ r.at \in MapSteps
  BY <1>1 DEF MapBuilt, ListingFails, BuildSteps, MapSteps
<1>3. /\ IsCall(r) /\ Sound(r)
      /\ ~unmapped => /\ ~mapInitialized /\ \A other \in Calls : call[other].at \in BuildSteps => other = c
                      /\ Scanned(Added(r)) /\ (r.at # "list" => \E l \in past : Ordered(r, l))
  BY <1>1, <1>2, AtBuilding
<1>4. PICK s : s = [r EXCEPT !.at = "lookup"]
  OBVIOUS
<1>5. "lookup" \in Steps /\ "lookup" \in MapSteps /\ "lookup" \notin BuildSteps
  BY DEF Steps, MapSteps, BuildSteps
<1>6. IsCall(s) /\ s.at = "lookup" /\ s.id = r.id /\ s.name = r.name /\ s.why = r.why
  BY <1>3, <1>4, <1>5, Stepped
<1>7. Sound(s) /\ ~Resolved(s) /\ s.at \notin BuildSteps
  BY <1>2, <1>3, <1>5, <1>6, StillSound
<1>8. call' = [call EXCEPT ![c] = s]
  BY <1>1, <1>4 DEF MapBuilt, ListingFails, Step
<1>9. UNCHANGED files /\ cache' = cache /\ displayNameMap' = displayNameMap
  BY DEF MapBuilt, ListingFails
<1>10. mapInitialized' \in BOOLEAN /\ unmapped' \in BOOLEAN
  BY DEF MapBuilt, ListingFails, Loading
<1>11. ASSUME ~unmapped' PROVE ~unmapped /\ mapInitialized' /\ Scanned(Names)'
  <2>1. MapBuilt(c) /\ ~unmapped /\ mapInitialized'
    BY <1>11 DEF MapBuilt, ListingFails
  <2>2. r.at = "addBuiltIn" /\ r.todo = {}
    BY <1>1, <2>1 DEF MapBuilt
  <2>3. PICK l \in past : Ordered(r, l)
    BY <1>3, <2>1, <2>2
  <2>4. PICK D \in SUBSET Names : D = Added(r)
    BY <1>3, <2>2 DEF Added, BuiltInNames, IsCall
  <2>5. D = LocalNames(l) \union BuiltInNames
    BY <2>2, <2>3, <2>4 DEF Added, Ordered
  <2>6. Scanned(D)
    BY <1>3, <2>1, <2>4
  <2>7. ASSUME NEW m \in Names, NEW i, \A k \in past : DisplayedAs(k, m, i) PROVE m \in D
    <3>1. Profile(l, m) # None
      BY <2>3, <2>7 DEF DisplayedAs
    <3> QED BY <2>5, <3>1 DEF Profile, LocalNames, BuiltInNames
  <2>8. Scanned(Names)
    BY <2>4, <2>6, <2>7 DEF Scanned
  <2>9. Scanned(Names)'
    BY <1>9, <2>8 DEF Scanned, files
  <2> QED BY <2>1, <2>9
<1> QED BY <1>3, <1>6, <1>7, <1>8, <1>9, <1>10, <1>11, Builds

\* What a whole map gives for an identifier that is no name of an agent.
LEMMA MapAnswers ==
    ASSUME Scanned(Names), NEW i \in Identifiers, i \in Names => \E l \in past : Profile(l, i) = None
    PROVE  /\ i \in DOMAIN displayNameMap => Answered(displayNameMap[i], i) /\ displayNameMap[i] \in Names
           /\ i \notin DOMAIN displayNameMap => Answered(None, i)
<1>1. ASSUME NEW m \in Names \ Refused, \A l \in past : Called(l, m, i)
      PROVE  m # i /\ \A l \in past : DisplayedAs(l, m, i)
  BY <1>1 DEF Called, DisplayedAs
<1>2. CASE i \in DOMAIN displayNameMap
  <2>1. PICK n \in Names : n = displayNameMap[i] /\ \E l \in past : DisplayedAs(l, n, i)
    BY <1>2 DEF Scanned
  <2>2. n # None
    BY NamesApart
  <2>3. ASSUME NEW m \in Names \ Refused, \A l \in past : Called(l, m, i)
        PROVE  n = m \/ \E l \in past : Before(l, n, m, i)
    BY <1>1, <2>1, <2>3 DEF Scanned, Before
  <2>5. Answered(n, i)
    BY <2>2, <2>3 DEF Answered
  <2> QED BY <1>2, <2>1, <2>5
<1>3. CASE i \notin DOMAIN displayNameMap
  <2>1. ASSUME NEW m \in Names \ Refused, \A l \in past : Called(l, m, i) PROVE FALSE
    BY <1>1, <1>3, <2>1 DEF Scanned
  <2>2. Answered(None, i)
    BY <2>1 DEF Answered
  <2> QED BY <1>3, <2>2
<1> QED BY <1>2, <1>3

LEMMA LookedUp ==
    ASSUME Loading, MapMeant, NEW c \in Calls, Lookup(c)
    PROVE  Loading'
<1>1. PICK r : r = call[c]
  OBVIOUS
<1>2. r.at = "lookup" /\ call[c].at \notin BuildSteps
  BY <1>1 DEF Lookup, BuildSteps
<1>3. IsCall(r) /\ Sound(r) /\ r.why # "context"
  <2>1. IsCall(r) /\ Sound(r)
    BY <1>1, <1>2, AtWork DEF Steps, MapSteps
  <2> QED BY <1>2, <2>1 DEF Sound, MapSteps
<1>4. UNCHANGED files /\ UNCHANGED <<displayNameMap, mapInitialized, unmapped>> /\ cache' = cache
  BY DEF Lookup, loader
<1>5. IsCache(cache') /\ \A k \in KeysOf(cache') : Seen(k)
  BY <1>4 DEF Loading
<1>6. ~unmapped => Scanned(Names)
  BY <1>1, <1>2 DEF Loading, Mapped
<1>7. r = [at |-> r.at, id |-> r.id, name |-> r.name, why |-> r.why, todo |-> r.todo, found |-> r.found, all |-> r.all,
           abilities |-> r.abilities]
  BY <1>3 DEF IsCall
<1>8. r.id \in Identifiers /\ r.todo \in SUBSET Names /\ r.found \in SUBSET Names /\ r.all \in SUBSET Names
  BY <1>3 DEF IsCall
<1>9. CASE r.why = "similar"
  <2>1. PICK s : s = [r EXCEPT !.at = "compare", !.todo = r.all, !.all = {}, !.found = {}]
    OBVIOUS
  <2>2. s = [at |-> "compare", id |-> r.id, name |-> r.name, why |-> r.why, todo |-> r.all, found |-> {}, all |-> {},
             abilities |-> r.abilities]
    BY <1>7, <2>1
  <2>3. /\ s.at = "compare" /\ s.id = r.id /\ s.name = r.name /\ s.why = r.why
        /\ s.todo = r.all /\ s.found = {} /\ s.all = {} /\ s.abilities = r.abilities
    BY <2>2
  <2>4. IsCall(s)
    BY <1>3, <1>8, <2>2, <2>3 DEF IsCall, Steps
  <2>5. Sound(s) /\ ~Resolved(s) /\ s.at \notin BuildSteps /\ s.at # "lookup"
    BY <1>9, <2>3 DEF Sound, Resolved, MapSteps, BuildSteps
  <2>6. call' = [call EXCEPT ![c].at = "compare", ![c].todo = r.all, ![c].all = {}, ![c].found = {}]
    BY <1>1, <1>9 DEF Lookup
  <2>7. call' = [call EXCEPT ![c] = s]
    BY <1>1, <2>1, <2>6
  <2> QED BY <1>2, <1>4, <1>5, <2>4, <2>5, <2>7, Elsewhere
<1>10. CASE r.why = "resolve"
  <2>1. r.id \in Names => \E l \in past : Profile(l, r.id) = None
    BY <1>2, <1>3, <1>10 DEF Sound, MapSteps
  <2>2. ~unmapped => /\ r.id \in DOMAIN displayNameMap => Answered(displayNameMap[r.id], r.id)
                     /\ r.id \notin DOMAIN displayNameMap => Answered(None, r.id)
    BY <1>6, <1>8, <2>1, MapAnswers
  <2>3. CASE r.id \in DOMAIN displayNameMap
    <3>1. PICK n : n = displayNameMap[r.id]
      OBVIOUS
    <3>2. PICK s : s = [r EXCEPT !.at = "load", !.why = "context", !.name = n, !.found = {}]
      OBVIOUS
    <3>3. s = [at |-> "load", id |-> r.id, name |-> n, why |-> "context", todo |-> r.todo, found |-> {}, all |-> r.all,
               abilities |-> r.abilities]
      BY <1>7, <3>2
    <3>4. /\ s.at = "load" /\ s.id = r.id /\ s.name = n /\ s.why = "context"
          /\ s.todo = r.todo /\ s.found = {} /\ s.all = r.all /\ s.abilities = r.abilities
      BY <3>3
    <3>6. IsCall(s)
      BY <1>8, <3>3, <3>4 DEF IsCall, Steps, LoadSteps
    <3>5. Meant(s.name, s.id)
      BY <2>3, <3>1, <3>4 DEF MapMeant
    <3>7. Sound(s) /\ s.at \notin BuildSteps /\ s.at # "lookup"
      BY <3>4, <3>5 DEF Sound, MapSteps, BuildSteps
    <3>8. call' = [call EXCEPT ![c].at = "load", ![c].why = "context", ![c].name = n, ![c].found = {}]
      BY <1>1, <1>10, <2>3, <3>1 DEF Lookup
    <3>9. call' = [call EXCEPT ![c] = s]
      BY <1>1, <3>2, <3>8
    <3>10. unmapped \/ Answered(s.name, s.id)
      BY <2>2, <2>3, <3>1, <3>4
    <3> QED BY <1>2, <1>4, <1>5, <3>6, <3>7, <3>9, <3>10, Elsewhere
  <2>4. CASE r.id \notin DOMAIN displayNameMap
    <3>1. PICK s : s = [r EXCEPT !.at = "unknown", !.name = None, !.todo = {}, !.found = {}]
      OBVIOUS
    <3>2. s = [at |-> "unknown", id |-> r.id, name |-> None, why |-> r.why, todo |-> {}, found |-> {}, all |-> r.all,
               abilities |-> r.abilities]
      BY <1>7, <3>1
    <3>3. /\ s.at = "unknown" /\ s.id = r.id /\ s.name = None /\ s.why = r.why
          /\ s.todo = {} /\ s.found = {} /\ s.all = r.all /\ s.abilities = r.abilities
      BY <3>2
    <3>4. IsCall(s)
      BY <1>3, <1>8, <3>2, <3>3 DEF IsCall, Steps
    <3>5. Sound(s) /\ s.at \notin BuildSteps /\ s.at # "lookup"
      BY <1>10, <3>3 DEF Sound, MapSteps, BuildSteps, LoadSteps
    <3>6. call' = [call EXCEPT ![c].at = "unknown", ![c].name = None, ![c].todo = {}, ![c].found = {}]
      BY <1>1, <1>10, <2>4 DEF Lookup
    <3>7. call' = [call EXCEPT ![c] = s]
      BY <1>1, <3>1, <3>6
    <3>8. unmapped \/ Answered(s.name, s.id)
      BY <2>2, <2>4, <3>3
    <3> QED BY <1>2, <1>4, <1>5, <3>4, <3>5, <3>7, <3>8, Elsewhere
  <2> QED BY <2>3, <2>4
<1> QED BY <1>3, <1>9, <1>10 DEF IsCall

-----------------------------------------------------------------------------
LEMMA LoadingStarts == ProfilesInit => Loading
<1> SUFFICES ASSUME ProfilesInit PROVE Loading
  OBVIOUS
<1>1. \A c \in Calls : call[c] = Idle
  BY DEF ProfilesInit
<1>2. \A c \in Calls : call[c].at = "idle" /\ ~Resolved(call[c])
  <2>1. Idle.at = "idle"
    BY DEF Idle
  <2>2. ~Resolved(Idle)
    BY Zenon DEF Resolved
  <2> QED BY <1>1, <2>1, <2>2
<1>3. Going
  <2>1. call = [c \in Calls |-> Idle]
    BY DEF ProfilesInit
  <2>2. call = [c \in Calls |-> call[c]]
    BY <2>1
  <2> QED BY <1>1, <2>2 DEF Going
<1>4. Mapped
  BY <1>2 DEF ProfilesInit, Mapped, BuildSteps
<1>5. IsCache(cache) /\ KeysOf(cache) = {}
  <2>1. cache = [entries |-> <<>>, total |-> 0]
    BY DEF ProfilesInit, ProfileCache!Empty
  <2>2. cache.entries = <<>> /\ cache = [entries |-> cache.entries, total |-> cache.total]
    BY <2>1
  <2>3. <<>> \in Seq(Entries) /\ DOMAIN <<>> = {}
    OBVIOUS
  <2> QED BY <2>2, <2>3 DEF IsCache, KeysOf
<1> QED BY <1>3, <1>4, <1>5 DEF ProfilesInit, Loading

\* Whoever empties or fills the map, and whatever files come and go.
LEMMA MeantStays == Loading /\ MapMeant /\ [ProfilesNext]_profilesVars => MapMeant'
<1> SUFFICES ASSUME Loading, MapMeant, [ProfilesNext]_profilesVars PROVE MapMeant'
  OBVIOUS
<1>1. CASE past \subseteq past' /\ displayNameMap' = displayNameMap
  BY <1>1 DEF MapMeant, Meant
<1>2. ASSUME NEW c \in Calls, buildDisplayNameMap(c) PROVE MapMeant'
  <2>1. past' = past /\ (displayNameMap' = displayNameMap \/ displayNameMap' = [d \in {} |-> None])
    BY <1>2 DEF buildDisplayNameMap, files
  <2> QED BY <2>1 DEF MapMeant, Meant
<1>3. ASSUME NEW c \in Calls, AddNext(c) PROVE MapMeant'
  <2>1. PICK n, p : n = First(call[c].todo) /\ p = Profile(local, n)
    OBVIOUS
  <2>2. addToDisplayNameMap(n) /\ past' = past /\ local \in past
    BY <1>3, <2>1 DEF AddNext, files, Loading
  <2>3. CASE n \in Refused \/ p = None \/ p.displayName \in {None} \union DOMAIN displayNameMap
    BY <2>1, <2>2, <2>3 DEF addToDisplayNameMap, MapMeant, Meant
  <2>4. CASE ~(n \in Refused \/ p = None \/ p.displayName \in {None} \union DOMAIN displayNameMap)
    <3>1. displayNameMap' = [i \in DOMAIN displayNameMap \union {p.displayName} |-> IF i = p.displayName THEN n ELSE displayNameMap[i]]
      BY <2>1, <2>2, <2>4 DEF addToDisplayNameMap
    <3>2. Called(local, n, p.displayName)
      BY <2>1, <2>4 DEF Called, DisplayedAs
    <3> QED BY <2>2, <3>1, <3>2 DEF MapMeant, Meant
  <2> QED BY <2>3, <2>4
<1>4. CASE UNCHANGED profilesVars
  BY <1>1, <1>4 DEF profilesVars
<1>5. ASSUME NEW c \in Calls,
             \/ \E i \in Identifiers : createContext(c, i)
             \/ ProfileHit(c) \/ ProfileMiss(c) \/ ReadLocal(c) \/ ReadBuiltIn(c) \/ buildProfile(c)
             \/ ListLocal(c) \/ LocalAdded(c) \/ ListBuiltIn(c) \/ MapBuilt(c)
             \/ ListingFails(c) \/ Lookup(c) \/ UnknownAgent(c)
             \/ findSimilarAgents(c) \/ CompareNext(c)
             \/ AbilityHit(c) \/ AbilityMiss(c) \/ ReadAbility(c) \/ ContextCreated(c)
      PROVE  past' = past /\ displayNameMap' = displayNameMap
  BY <1>5 DEF createContext, ProfileHit, ProfileMiss, ReadLocal, ReadBuiltIn, buildProfile, ListLocal, LocalAdded, ListBuiltIn,
     MapBuilt, ListingFails, Lookup, UnknownAgent, findSimilarAgents, CompareNext, AbilityHit, AbilityMiss, ReadAbility,
     ContextCreated, files, loader
<1>6. CASE \/ \E n \in Names : ExpireProfile(n)
           \/ \E a \in Abilities : ExpireAbility(a)
           \/ CleanupProfiles \/ CleanupAbilities
  BY <1>1, <1>6 DEF ExpireProfile, ExpireAbility, CleanupProfiles, CleanupAbilities, files, loader
<1>7. ASSUME NEW x \in Commands,
             \/ \E n \in Names : remove(x, n) \/ \E d \in DisplayNames : create(x, n, d)
             \/ Checked(x) \/ Written(x) \/ Removed(x)
      PROVE  past \subseteq past' /\ displayNameMap' = displayNameMap
  BY <1>7 DEF remove, create, Checked, Written, Removed, Put, loader
<1> QED BY <1>1, <1>2, <1>3, <1>4, <1>5, <1>6, <1>7 DEF ProfilesNext

LEMMA LoadingStays == Loading /\ MapMeant /\ [ProfilesNext]_profilesVars => Loading'
<1> SUFFICES ASSUME Loading, MapMeant, [ProfilesNext]_profilesVars PROVE Loading'
  OBVIOUS
<1>1. CASE UNCHANGED profilesVars
  BY <1>1, Unchanged DEF profilesVars, files, loader
<1>2. ASSUME NEW c \in Calls,
             \/ \E i \in Identifiers : createContext(c, i)
             \/ ProfileHit(c) \/ ProfileMiss(c) \/ ReadLocal(c) \/ ReadBuiltIn(c) \/ buildProfile(c)
             \/ buildDisplayNameMap(c) \/ ListLocal(c) \/ AddNext(c) \/ LocalAdded(c) \/ ListBuiltIn(c) \/ MapBuilt(c)
             \/ ListingFails(c) \/ Lookup(c) \/ UnknownAgent(c)
             \/ findSimilarAgents(c) \/ CompareNext(c)
             \/ AbilityHit(c) \/ AbilityMiss(c) \/ ReadAbility(c) \/ ContextCreated(c)
      PROVE  Loading'
  BY <1>2, CallsGoOn, ProfileLoads, MapStarted, LocalListed, NextAdded, ListsGoOn, MapDone, LookedUp
<1>3. CASE \/ \E n \in Names : ExpireProfile(n)
           \/ \E a \in Abilities : ExpireAbility(a)
           \/ CleanupProfiles \/ CleanupAbilities
           \/ \E x \in Commands :
                 \/ \E n \in Names : remove(x, n) \/ \E d \in DisplayNames : create(x, n, d)
                 \/ Checked(x) \/ Written(x) \/ Removed(x)
  BY <1>3, OthersGoOn
<1> QED BY <1>1, <1>2, <1>3 DEF ProfilesNext

\* Identifiers are resolved to agents that they have meant, past none that they have always meant before, and refused only for
\* what they are or for a profile that was not valid (resolveAgentName, getProfilePath, buildDisplayNameMap), for any files, any
\* number of calls and of changes to the files.
THEOREM ResolvedRight == ProfilesSpec => []ResolvedAsMeant
<1>1. Loading => ResolvedAsMeant
  <2>1. SUFFICES ASSUME Loading, NEW c \in Calls, call[c] # Idle
                 PROVE  /\ call[c].why = "context" => Meant(call[c].name, call[c].id)
                        /\ call[c].at = "refused" => Bad(call[c].id)
                        /\ ~unmapped /\ (call[c].why = "context" \/ call[c].at = "unknown") => Answered(call[c].name, call[c].id)
    BY Zenon DEF ResolvedAsMeant, Answered, Meant, Bad
  <2>2. Sound(call[c])
    BY <2>1 DEF Loading, Going
  <2>3. call[c].why = "context" \/ call[c].at = "unknown" => Resolved(call[c])
    BY <2>1 DEF Resolved
  <2> QED BY <2>1, <2>2, <2>3 DEF Loading, Mapped, Sound
<1>2. ProfilesInit => MapMeant
  BY DEF ProfilesInit, MapMeant
<1> QED BY <1>1, <1>2, LoadingStarts, LoadingStays, MeantStays, PTL DEF ProfilesSpec

-----------------------------------------------------------------------------
\* The sizes of entries: some of the places of a sequence, and the units of the entries there.

Texts == [key : Abilities, size : Nat, fresh : BOOLEAN]
UnitsAt(s, I) == UNION {{i} \X (1 .. s[i].size) : i \in I}
Weight(s, I) == Cardinality(UnitsAt(s, I))

LEMMA SizeIsWeight == \A s : AbilityCache!SizeOf(s) = Weight(s, DOMAIN s)
<1>1. \A S : AbilityCache!Cardinality(S) = Cardinality(S)
  BY Zenon DEF AbilityCache!Cardinality, Cardinality
<1>2. \A s : AbilityCache!Units(s) = UnitsAt(s, DOMAIN s)
  BY Zenon DEF AbilityCache!Units, UnitsAt
<1> QED BY <1>1, <1>2, Zenon DEF AbilityCache!SizeOf, Weight

LEMMA UnitIn ==
    ASSUME NEW s, NEW I, NEW p
    PROVE  p \in UnitsAt(s, I) <=> \E i \in I : \E u \in 1 .. s[i].size : p = <<i, u>>
<1>1. p \in UnitsAt(s, I) <=> \E i \in I : p \in {i} \X (1 .. s[i].size)
  BY DEF UnitsAt
<1>2. \A i \in I : p \in {i} \X (1 .. s[i].size) <=> \E u \in 1 .. s[i].size : p = <<i, u>>
  OBVIOUS
<1> QED BY <1>1, <1>2

LEMMA UnitsFinite ==
    ASSUME NEW s, NEW I, IsFiniteSet(I), \A i \in I : s[i].size \in Nat
    PROVE  IsFiniteSet(UnitsAt(s, I)) /\ Weight(s, I) \in Nat
<1>1. PICK S : S = {{i} \X (1 .. s[i].size) : i \in I}
  OBVIOUS
<1>2. PICK f : f = [i \in I |-> {i} \X (1 .. s[i].size)]
  OBVIOUS
<1>3. f \in Surjection(I, S)
  BY <1>1, <1>2 DEF Surjection
<1>4. IsFiniteSet(S)
  BY <1>3, FS_Surjection
<1>5. ASSUME NEW i \in I PROVE IsFiniteSet({i} \X (1 .. s[i].size))
  <2>1. IsFiniteSet({i})
    BY FS_Singleton
  <2>2. 1 \in Int /\ s[i].size \in Int
    OBVIOUS
  <2>3. IsFiniteSet(1 .. s[i].size)
    BY <2>2, FS_Interval
  <2> QED BY <2>1, <2>3, FS_Product
<1>6. IsFiniteSet(UNION S)
  BY <1>1, <1>4, <1>5, FS_UNION
<1> QED BY <1>1, <1>6, FS_CardinalityType DEF UnitsAt, Weight

LEMMA WeightsAdd ==
    ASSUME NEW s, NEW I, NEW J, IsFiniteSet(I), IsFiniteSet(J), I \cap J = {}, \A i \in I \union J : s[i].size \in Nat
    PROVE  Weight(s, I \union J) = Weight(s, I) + Weight(s, J)
<1>1. UnitsAt(s, I \union J) = UnitsAt(s, I) \union UnitsAt(s, J)
  BY DEF UnitsAt
<1>2. UnitsAt(s, I) \cap UnitsAt(s, J) = {}
  BY UnitIn
<1>3. IsFiniteSet(UnitsAt(s, I)) /\ IsFiniteSet(UnitsAt(s, J)) /\ Weight(s, I) \in Nat /\ Weight(s, J) \in Nat
  BY UnitsFinite
<1>4. Cardinality(UnitsAt(s, I) \cap UnitsAt(s, J)) = 0
  BY <1>2, FS_EmptySet
<1>5. PICK a \in Nat, b \in Nat : a = Weight(s, I) /\ b = Weight(s, J)
  BY <1>3
<1>6. Cardinality(UnitsAt(s, I) \union UnitsAt(s, J)) = a + b - 0
  <2>1. a = Cardinality(UnitsAt(s, I)) /\ b = Cardinality(UnitsAt(s, J))
    BY <1>5 DEF Weight
  <2> QED BY <1>3, <1>4, <2>1, FS_Union
<1>7. Weight(s, I \union J) = a + b - 0
  BY <1>1, <1>6 DEF Weight
<1> QED BY <1>5, <1>7

LEMMA WeightOfOne ==
    ASSUME NEW s, NEW i, s[i].size \in Nat
    PROVE  Weight(s, {i}) = s[i].size
<1>1. PICK n \in Nat : n = s[i].size
  OBVIOUS
<1>2. PICK f : f = [u \in 1..n |-> <<i, u>>]
  OBVIOUS
<1>3. \A p : p \in UnitsAt(s, {i}) <=> \E u \in 1..n : p = <<i, u>>
  BY <1>1, UnitIn
<1>4. f \in [1..n -> UnitsAt(s, {i})] /\ (\A p \in UnitsAt(s, {i}) : \E u \in 1..n : f[u] = p)
      /\ \A u, v \in 1..n : f[u] = f[v] => u = v
  BY <1>2, <1>3
<1>5. f \in Bijection(1..n, UnitsAt(s, {i}))
  BY <1>4 DEF Bijection, Injection, IsInjective, Surjection
<1>6. IsFiniteSet(1..n) /\ Cardinality(1..n) = n
  <2>1. 1 \in Int /\ n \in Int
    OBVIOUS
  <2>2. IsFiniteSet(1..n) /\ Cardinality(1..n) = IF 1 > n THEN 0 ELSE n - 1 + 1
    BY <2>1, FS_Interval
  <2> QED BY <2>2
<1>7. ExistsBijection(1..n, UnitsAt(s, {i}))
  BY <1>5 DEF ExistsBijection
<1> QED BY <1>1, <1>6, <1>7, FS_Bijection DEF Weight

\* Entries that are taken to other places, one by one, with their sizes weigh what they weighed.
LEMMA WeightsMove ==
    ASSUME NEW s, NEW I, IsFiniteSet(I), NEW t, NEW J, NEW g \in [J -> I],
           \A i \in I : \E j \in J : g[j] = i, \A j, k \in J : g[j] = g[k] => j = k,
           \A j \in J : t[j].size = s[g[j]].size, \A i \in I : s[i].size \in Nat
    PROVE  Weight(t, J) = Weight(s, I)
<1>1. PICK f : f = [p \in UnitsAt(t, J) |-> <<g[p[1]], p[2]>>]
  OBVIOUS
<1>2. \A p \in UnitsAt(t, J) : \E j \in J : \E u \in 1 .. s[g[j]].size : p = <<j, u>> /\ f[p] = <<g[j], u>>
  BY <1>1, UnitIn
<1>3. f \in [UnitsAt(t, J) -> UnitsAt(s, I)]
  <2>1. \A p \in UnitsAt(t, J) : f[p] \in UnitsAt(s, I)
    BY <1>2, UnitIn
  <2> QED BY <1>1, <2>1
<1>4. ASSUME NEW p \in UnitsAt(t, J), NEW q \in UnitsAt(t, J), f[p] = f[q] PROVE p = q
  <2>1. PICK j \in J : \E u : p = <<j, u>> /\ f[p] = <<g[j], u>>
    BY <1>2
  <2>2. PICK k \in J : \E v : q = <<k, v>> /\ f[q] = <<g[k], v>>
    BY <1>2
  <2>4. PICK u : p = <<j, u>> /\ f[p] = <<g[j], u>>
    BY <2>1
  <2>5. PICK v : q = <<k, v>> /\ f[q] = <<g[k], v>>
    BY <2>2
  <2>3. g[j] = g[k] /\ u = v
    BY <1>4, <2>4, <2>5
  <2> QED BY <2>3, <2>4, <2>5
<1>5. ASSUME NEW q \in UnitsAt(s, I) PROVE \E p \in UnitsAt(t, J) : f[p] = q
  <2>1. PICK i \in I : \E u \in 1 .. s[i].size : q = <<i, u>>
    BY UnitIn
  <2>2. PICK u \in 1 .. s[i].size : q = <<i, u>>
    BY <2>1
  <2>3. PICK j \in J : g[j] = i
    OBVIOUS
  <2>4. <<j, u>> \in UnitsAt(t, J)
    BY <2>2, <2>3, UnitIn
  <2>5. f[<<j, u>>] = q
    BY <1>1, <2>2, <2>3, <2>4
  <2> QED BY <2>4, <2>5
<1>6. f \in Bijection(UnitsAt(t, J), UnitsAt(s, I))
  BY <1>3, <1>4, <1>5 DEF Bijection, Injection, IsInjective, Surjection
<1>7. IsFiniteSet(UnitsAt(t, J))
  <2>1. f \in Injection(UnitsAt(t, J), UnitsAt(s, I))
    BY <1>6 DEF Bijection
  <2>2. IsFiniteSet(UnitsAt(s, I))
    BY UnitsFinite
  <2> QED BY <2>1, <2>2, FS_Injection
<1> QED BY <1>6, <1>7, FS_Bijection DEF ExistsBijection, Weight

Apart(s) == \A i, j \in DOMAIN s : s[i].key = s[j].key => i = j

\* A cache whose total is x less than the size of what it holds.
Accounted(c, x) ==
    /\ c = [entries |-> c.entries, total |-> c.total] /\ c.entries \in Seq(Texts) /\ Apart(c.entries)
    /\ c.total \in Int /\ x \in Nat /\ c.total + x = AbilityCache!SizeOf(c.entries)
    /\ x = 0 => AbilityCache!SizeOf(c.entries) <= MaxAbilitiesSize

\* What there is to know of a sequence of texts.
LEMMA TextsHave ==
    ASSUME NEW s \in Seq(Texts)
    PROVE  \E n \in Nat : /\ n = Len(s) /\ DOMAIN s = 1..n /\ IsFiniteSet(1..n)
                          /\ \A i \in 1..n : s[i] \in Texts /\ s[i].size \in Nat
                          /\ AbilityCache!SizeOf(s) \in Nat
<1>1. PICK n \in Nat : n = Len(s) /\ DOMAIN s = 1..n
  BY LenProperties
<1>2. \A i \in 1..n : s[i] \in Texts
  BY <1>1, ElementOfSeq
<1>3. \A i \in 1..n : s[i].size \in Nat
  BY <1>2 DEF Texts
<1>4. IsFiniteSet(1..n)
  <2>1. 1 \in Int /\ n \in Int
    OBVIOUS
  <2> QED BY <2>1, FS_Interval
<1>5. AbilityCache!SizeOf(s) \in Nat
  BY <1>1, <1>3, <1>4, UnitsFinite, SizeIsWeight
<1> QED BY <1>1, <1>2, <1>3, <1>4, <1>5

\* Some places of a sequence, and the rest.
LEMMA WeightsSplit ==
    ASSUME NEW s \in Seq(Texts), NEW I \in SUBSET (DOMAIN s)
    PROVE  /\ Weight(s, I) \in Nat /\ Weight(s, (DOMAIN s) \ I) \in Nat
           /\ AbilityCache!SizeOf(s) = Weight(s, I) + Weight(s, (DOMAIN s) \ I)
<1>1. PICK n \in Nat : DOMAIN s = 1..n /\ IsFiniteSet(1..n) /\ \A i \in 1..n : s[i].size \in Nat
  BY TextsHave
<1>2. PICK J : J = (DOMAIN s) \ I
  OBVIOUS
<1>3. IsFiniteSet(I) /\ IsFiniteSet(J) /\ I \cap J = {} /\ I \union J = DOMAIN s /\ \A i \in I \union J : s[i].size \in Nat
  BY <1>1, <1>2, FS_Subset
<1>4. Weight(s, I \union J) = Weight(s, I) + Weight(s, J)
  BY <1>3, WeightsAdd
<1>5. Weight(s, I) \in Nat /\ Weight(s, J) \in Nat
  BY <1>3, UnitsFinite
<1> QED BY <1>2, <1>3, <1>4, <1>5, SizeIsWeight

LEMMA OnlyTexts ==
    ASSUME NEW s \in Seq(Texts), Apart(s), NEW I \in SUBSET (DOMAIN s)
    PROVE  \E t \in Seq(Texts) : /\ t = AbilityCache!Only(s, I) /\ Apart(t) /\ AbilityCache!SizeOf(t) = Weight(s, I)
                                 /\ \A j \in DOMAIN t : \E i \in I : t[j] = s[i]
<1>1. PICK n \in Nat : n = Len(s) /\ DOMAIN s = 1..n /\ IsFiniteSet(1..n) /\ \A i \in 1..n : s[i] \in Texts /\ s[i].size \in Nat
  BY TextsHave
<1>2. PICK f : f = CHOOSE g \in UNION {[1..m -> I] : m \in 0..n} : AbilityCache!Ascending(I, g)
  OBVIOUS
<1>3. \A g : AbilityCache!Ascending(I, g) <=> ProfileCache!Ascending(I, g)
  BY Zenon DEF AbilityCache!Ascending, ProfileCache!Ascending
<1>4. f \in UNION {[1..m -> I] : m \in 0..n} /\ AbilityCache!Ascending(I, f)
  <2>1. \E g \in UNION {[1..m -> I] : m \in 0..n} : AbilityCache!Ascending(I, g)
    BY <1>1, <1>3, Counted
  <2> QED BY <1>2, <2>1
<1>5. PICK m \in 0..n : f \in [1..m -> I]
  BY <1>4
<1>6. /\ \A i \in I : \E j \in 1..m : f[j] = i
      /\ \A j, k \in 1..m : f[j] = f[k] => j = k
  <2>1. DOMAIN f = 1..m /\ \A j \in 1..m : f[j] \in Nat
    BY <1>1, <1>5
  <2>2. (\A i \in I : \E j \in 1..m : f[j] = i) /\ \A j, k \in 1..m : j < k => f[j] < f[k]
    BY <1>4, <2>1 DEF AbilityCache!Ascending
  <2>3. \A j, k \in 1..m : j < k => f[j] # f[k]
    BY <2>1, <2>2
  <2> QED BY <2>2, <2>3
<1>7. PICK t : t = [j \in 1..m |-> s[f[j]]]
  OBVIOUS
<1>8. AbilityCache!Only(s, I) = t
  BY <1>1, <1>2, <1>5, <1>7 DEF AbilityCache!Only
<1>9. t \in [1..m -> Texts]
  BY <1>1, <1>5, <1>7
<1>10. t \in Seq(Texts) /\ DOMAIN t = 1..m
  BY <1>9, SeqDef
<1>11. Apart(t)
  BY <1>1, <1>5, <1>6, <1>7, <1>10 DEF Apart
<1>12. AbilityCache!SizeOf(t) = Weight(s, I)
  <2>1. IsFiniteSet(I) /\ \A i \in I : s[i].size \in Nat
    BY <1>1, FS_Subset
  <2>2. \A j \in 1..m : t[j].size = s[f[j]].size
    BY <1>7
  <2>3. PICK J : J = 1..m
    OBVIOUS
  <2>4. f \in [J -> I] /\ (\A i \in I : \E j \in J : f[j] = i) /\ (\A j, k \in J : f[j] = f[k] => j = k)
        /\ \A j \in J : t[j].size = s[f[j]].size
    BY <1>5, <1>6, <2>2, <2>3
  <2>5. Weight(t, J) = Weight(s, I)
    BY <2>1, <2>4, WeightsMove
  <2> QED BY <1>10, <2>3, <2>5, SizeIsWeight
<1> QED BY <1>5, <1>7, <1>8, <1>10, <1>11, <1>12

\* The entry of a key.
LEMMA AtOne ==
    ASSUME NEW c, c.entries \in Seq(Texts), Apart(c.entries), NEW k
    PROVE  /\ AbilityCache!At(c, k) \in SUBSET (DOMAIN c.entries)
           /\ \A i \in DOMAIN c.entries : i \in AbilityCache!At(c, k) <=> c.entries[i].key = k
           /\ AbilityCache!Replaced(c, k) = Weight(c.entries, AbilityCache!At(c, k))
<1>1. /\ AbilityCache!At(c, k) \in SUBSET (DOMAIN c.entries)
      /\ \A i \in DOMAIN c.entries : i \in AbilityCache!At(c, k) <=> c.entries[i].key = k
  BY DEF AbilityCache!At
<1>2. PICK s \in Seq(Texts) : s = c.entries
  OBVIOUS
<1>4. PICK I : I = AbilityCache!At(c, k)
  OBVIOUS
<1>3. PICK t \in Seq(Texts) : t = AbilityCache!Only(s, I) /\ AbilityCache!SizeOf(t) = Weight(s, I)
  BY <1>1, <1>2, <1>4, OnlyTexts
<1> QED BY <1>1, <1>2, <1>3, <1>4 DEF AbilityCache!Replaced

LEMMA TextsJoin ==
    ASSUME NEW a \in Seq(Texts), NEW b \in Seq(Texts), Apart(a), Apart(b),
           \A i \in DOMAIN a, j \in DOMAIN b : a[i].key # b[j].key
    PROVE  /\ a \o b \in Seq(Texts) /\ Apart(a \o b)
           /\ AbilityCache!SizeOf(a \o b) = AbilityCache!SizeOf(a) + AbilityCache!SizeOf(b)
<1>1. PICK m \in Nat : m = Len(a) /\ DOMAIN a = 1..m /\ IsFiniteSet(1..m) /\ \A i \in 1..m : a[i].size \in Nat
  BY TextsHave
<1>2. PICK n \in Nat : n = Len(b) /\ DOMAIN b = 1..n /\ IsFiniteSet(1..n) /\ \A i \in 1..n : b[i].size \in Nat
  BY TextsHave
<1>3. PICK t : t = a \o b
  OBVIOUS
<1>4. /\ t \in Seq(Texts) /\ Len(t) = Len(a) + Len(b)
      /\ \A i \in 1 .. Len(a) + Len(b) : t[i] = IF i <= Len(a) THEN a[i] ELSE b[i - Len(a)]
  BY <1>3, ConcatProperties
<1>5. DOMAIN t = 1..(m + n)
  BY <1>1, <1>2, <1>4, LenProperties
<1>6. (\A i \in 1..m : t[i] = a[i]) /\ \A j \in (m + 1)..(m + n) : j - m \in 1..n /\ t[j] = b[j - m]
  BY <1>1, <1>2, <1>4
<1>7. Apart(t)
  <2>1. \A i, j \in 1..m : t[i].key = t[j].key => i = j
    BY <1>1, <1>6 DEF Apart
  <2>2. \A i, j \in (m + 1)..(m + n) : t[i].key = t[j].key => i = j
    <3>1. ASSUME NEW i \in (m + 1)..(m + n), NEW j \in (m + 1)..(m + n), t[i].key = t[j].key PROVE i = j
      <4>0. (i - m \in 1..n /\ t[i] = b[i - m]) /\ j - m \in 1..n /\ t[j] = b[j - m]
        BY <1>6
      <4>1. PICK x \in 1..n, y \in 1..n : i = m + x /\ j = m + y /\ t[i] = b[x] /\ t[j] = b[y]
        <5>1. PICK x \in 1..n, y \in 1..n : x = i - m /\ y = j - m
          BY <4>0
        <5>2. i = m + x /\ j = m + y
          BY <5>1
        <5> QED BY <4>0, <5>1, <5>2, SMTT(30)
      <4>2. x = y
        BY <1>2, <3>1, <4>1 DEF Apart
      <4> QED BY <4>1, <4>2
    <3> QED BY <3>1
  <2>3. \A i \in 1..m, j \in (m + 1)..(m + n) : t[i].key # t[j].key
    <3>1. ASSUME NEW i \in 1..m, NEW j \in (m + 1)..(m + n) PROVE t[i].key # t[j].key
      <4>1. t[i] = a[i] /\ j - m \in 1..n /\ t[j] = b[j - m]
        BY <1>6
      <4>2. i \in DOMAIN a /\ j - m \in DOMAIN b
        BY <1>1, <1>2, <4>1
      <4> QED BY <4>1, <4>2
    <3> QED BY <3>1
  <2>4. \A i \in 1..(m + n) : i \in 1..m \/ i \in (m + 1)..(m + n)
    OBVIOUS
  <2>5. ASSUME NEW i \in 1..(m + n), NEW j \in 1..(m + n), t[i].key = t[j].key PROVE i = j
    <3>1. CASE i \in 1..m /\ j \in 1..m
      BY <2>1, <2>5, <3>1, Zenon
    <3>2. CASE i \in (m + 1)..(m + n) /\ j \in (m + 1)..(m + n)
      BY <2>2, <2>5, <3>2, Zenon
    <3>3. CASE i \in 1..m /\ j \in (m + 1)..(m + n)
      BY <2>3, <2>5, <3>3, Zenon
    <3>4. CASE j \in 1..m /\ i \in (m + 1)..(m + n)
      BY <2>3, <2>5, <3>4, Zenon
    <3> QED BY <2>4, <3>1, <3>2, <3>3, <3>4, Zenon
  <2> QED BY <1>5, <2>5 DEF Apart
<1>8. PICK I, J : I = 1..m /\ J = (m + 1)..(m + n)
  OBVIOUS
<1>9. Weight(t, I) = Weight(a, 1..m)
  <2>1. PICK g : g = [i \in I |-> i]
    OBVIOUS
  <2>2. g \in [I -> 1..m] /\ (\A i \in 1..m : \E j \in I : g[j] = i) /\ (\A j, k \in I : g[j] = g[k] => j = k)
        /\ \A j \in I : t[j].size = a[g[j]].size
    BY <1>6, <1>8, <2>1
  <2> QED BY <1>1, <2>2, WeightsMove
<1>10. Weight(t, J) = Weight(b, 1..n)
  <2>1. PICK g : g = [i \in J |-> i - m]
    OBVIOUS
  <2>2. g \in [J -> 1..n] /\ \A j \in J : t[j].size = b[g[j]].size
    BY <1>6, <1>8, <2>1
  <2>3. \A i \in 1..n : \E j \in J : g[j] = i
    <3>1. ASSUME NEW i \in 1..n PROVE i + m \in J /\ g[i + m] = i
      BY <1>8, <2>1
    <3> QED BY <3>1
  <2>4. \A j, k \in J : g[j] = g[k] => j = k
    BY <1>8, <2>1
  <2>5. PICK K : K = 1..n
    OBVIOUS
  <2>6. IsFiniteSet(K) /\ \A i \in K : b[i].size \in Nat
    BY <1>2, <2>5, Zenon
  <2>7. g \in [J -> K] /\ (\A i \in K : \E j \in J : g[j] = i) /\ (\A j, k \in J : g[j] = g[k] => j = k)
        /\ \A j \in J : t[j].size = b[g[j]].size
    BY <2>2, <2>3, <2>4, <2>5, Zenon
  <2>8. Weight(t, J) = Weight(b, K)
    BY <2>6, <2>7, WeightsMove
  <2> QED BY <2>5, <2>8
<1>11. AbilityCache!SizeOf(t) = Weight(t, I) + Weight(t, J)
  <2>1. J = (DOMAIN t) \ I /\ I \in SUBSET (DOMAIN t)
    BY <1>5, <1>8
  <2> QED BY <1>4, <2>1, WeightsSplit
<1> QED BY <1>1, <1>2, <1>3, <1>4, <1>7, <1>9, <1>10, <1>11, SizeIsWeight

\* What is there to be shown of a cache whose entries and total are known.
LEMMA AccountedAs ==
    ASSUME NEW t \in Seq(Texts), Apart(t), NEW total \in Int, NEW x \in Nat, NEW c, c = [entries |-> t, total |-> total],
           total + x = AbilityCache!SizeOf(t), x = 0 => AbilityCache!SizeOf(t) <= MaxAbilitiesSize
    PROVE  Accounted(c, x)
<1>1. c.entries = t /\ c.total = total
  OBVIOUS
<1> QED BY <1>1 DEF Accounted

\* Entries that leave take their sizes with them.
LEMMA SomeLeave ==
    ASSUME NEW s \in Seq(Texts), Apart(s), NEW I \in SUBSET (DOMAIN s), NEW total \in Int, NEW x \in Nat,
           total + x = AbilityCache!SizeOf(s), x = 0 => AbilityCache!SizeOf(s) <= MaxAbilitiesSize,
           NEW c, c = [entries |-> AbilityCache!Only(s, (DOMAIN s) \ I), total |-> total - Weight(s, I)]
    PROVE  Accounted(c, x)
<1>1. PICK J \in SUBSET (DOMAIN s) : J = (DOMAIN s) \ I
  OBVIOUS
<1>2. PICK t \in Seq(Texts) : t = AbilityCache!Only(s, J) /\ Apart(t) /\ AbilityCache!SizeOf(t) = Weight(s, J)
  BY OnlyTexts
<1>3. PICK u \in Nat, v \in Nat : u = Weight(s, I) /\ v = Weight(s, J) /\ AbilityCache!SizeOf(s) = u + v
  BY <1>1, WeightsSplit
<1>4. PICK z \in Int : z = total - u
  OBVIOUS
<1>5. z + x = AbilityCache!SizeOf(t)
  BY <1>2, <1>3, <1>4
<1>6. x = 0 => AbilityCache!SizeOf(t) <= MaxAbilitiesSize
  <2>1. MaxAbilitiesSize \in Nat
    BY SizesAssumption
  <2> QED BY <1>2, <1>3, <2>1
<1>7. c = [entries |-> t, total |-> z]
  BY <1>1, <1>2, <1>3, <1>4
<1> QED BY <1>2, <1>5, <1>6, <1>7, AccountedAs

LEMMA GetTexts ==
    ASSUME NEW c, NEW x, Accounted(c, x), NEW k
    PROVE  Accounted(AbilityCache!Get(c, k), x)
<1>1. PICK s \in Seq(Texts) : s = c.entries /\ Apart(s)
  BY DEF Accounted
<1>2. PICK total \in Int : total = c.total
  BY DEF Accounted
<1>3. /\ c = [entries |-> s, total |-> total] /\ x \in Nat
      /\ total + x = AbilityCache!SizeOf(s) /\ (x = 0 => AbilityCache!SizeOf(s) <= MaxAbilitiesSize)
  BY <1>1, <1>2 DEF Accounted
<1>4. PICK I \in SUBSET (DOMAIN s) : I = AbilityCache!At(c, k)
  BY <1>1 DEF AbilityCache!At
<1>5. AbilityCache!Replaced(c, k) = Weight(s, I) /\ \A i \in DOMAIN s : i \in I <=> s[i].key = k
  BY <1>1, <1>4, AtOne
<1>6. PICK d : d = AbilityCache!Get(c, k)
  OBVIOUS
<1>7. CASE ~AbilityCache!Fresh(c, k)
  <2>1. d = [entries |-> AbilityCache!Others(c, k), total |-> c.total - AbilityCache!Replaced(c, k)]
    BY <1>6, <1>7 DEF AbilityCache!Get, AbilityCache!Delete
  <2>2. d = [entries |-> AbilityCache!Only(s, (DOMAIN s) \ I), total |-> total - Weight(s, I)]
    BY <1>1, <1>2, <1>4, <1>5, <2>1 DEF AbilityCache!Others
  <2> QED BY <1>1, <1>3, <1>6, <2>2, SomeLeave
<1>8. CASE AbilityCache!Fresh(c, k)
  <2>1. PICK J \in SUBSET (DOMAIN s) : J = (DOMAIN s) \ I
    OBVIOUS
  <2>2. PICK a \in Seq(Texts) : /\ a = AbilityCache!Only(s, J) /\ Apart(a) /\ AbilityCache!SizeOf(a) = Weight(s, J)
                                /\ \A j \in DOMAIN a : \E i \in J : a[j] = s[i]
    BY <1>1, OnlyTexts
  <2>3. PICK b \in Seq(Texts) : /\ b = AbilityCache!Only(s, I) /\ Apart(b) /\ AbilityCache!SizeOf(b) = Weight(s, I)
                                /\ \A j \in DOMAIN b : \E i \in I : b[j] = s[i]
    BY <1>1, OnlyTexts
  <2>4. \A i \in DOMAIN a, j \in DOMAIN b : a[i].key # b[j].key
    <3>1. (\A i \in DOMAIN a : a[i].key # k) /\ \A j \in DOMAIN b : b[j].key = k
      <4>1. ASSUME NEW i \in DOMAIN a PROVE a[i].key # k
        <5>1. PICK j \in J : a[i] = s[j]
          BY <2>2
        <5> QED BY <1>5, <2>1, <5>1
      <4>2. ASSUME NEW j \in DOMAIN b PROVE b[j].key = k
        <5>1. PICK i \in I : b[j] = s[i]
          BY <2>3
        <5> QED BY <1>5, <5>1
      <4> QED BY <4>1, <4>2
    <3> QED BY <3>1
  <2>5. PICK t \in Seq(Texts) : t = a \o b /\ Apart(t) /\ AbilityCache!SizeOf(t) = AbilityCache!SizeOf(a) + AbilityCache!SizeOf(b)
    BY <2>2, <2>3, <2>4, TextsJoin
  <2>6. d = [entries |-> t, total |-> total]
    <3>1. d = [c EXCEPT !.entries = AbilityCache!Others(c, k) \o AbilityCache!Only(c.entries, AbilityCache!At(c, k))]
      BY <1>6, <1>8 DEF AbilityCache!Get
    <3>2. t = AbilityCache!Others(c, k) \o AbilityCache!Only(c.entries, AbilityCache!At(c, k))
      BY <1>1, <1>4, <2>1, <2>2, <2>3, <2>5 DEF AbilityCache!Others
    <3> QED BY <1>3, <3>1, <3>2
  <2>7. AbilityCache!SizeOf(t) = AbilityCache!SizeOf(s)
    <3>1. Weight(s, I) \in Nat /\ Weight(s, J) \in Nat /\ AbilityCache!SizeOf(s) = Weight(s, I) + Weight(s, J)
      BY <2>1, WeightsSplit, Zenon
    <3>2. PICK u \in Nat, v \in Nat : u = Weight(s, I) /\ v = Weight(s, J) /\ AbilityCache!SizeOf(s) = u + v
      BY <3>1, Zenon
    <3> QED BY <2>2, <2>3, <2>5, <3>2
  <2> QED BY <1>3, <1>6, <2>5, <2>6, <2>7, AccountedAs
<1> QED BY <1>7, <1>8

LEMMA CleanupTexts ==
    ASSUME NEW c, NEW x, Accounted(c, x)
    PROVE  Accounted(AbilityCache!Cleanup(c), x)
<1>1. PICK s \in Seq(Texts) : s = c.entries /\ Apart(s)
  BY DEF Accounted
<1>2. PICK total \in Int : total = c.total
  BY DEF Accounted
<1>3. x \in Nat /\ total + x = AbilityCache!SizeOf(s) /\ (x = 0 => AbilityCache!SizeOf(s) <= MaxAbilitiesSize)
  BY <1>1, <1>2 DEF Accounted
<1>4. PICK I \in SUBSET (DOMAIN s) : I = (DOMAIN s) \ {i \in DOMAIN s : s[i].fresh}
  OBVIOUS
<1>5. {i \in DOMAIN s : s[i].fresh} = (DOMAIN s) \ I
  BY <1>4
<1>6. AbilityCache!SizeOf(AbilityCache!Only(s, I)) = Weight(s, I)
  BY <1>1, OnlyTexts
<1>7. PICK d : d = AbilityCache!Cleanup(c)
  OBVIOUS
<1>8. d = [entries |-> AbilityCache!Only(s, (DOMAIN s) \ I), total |-> total - Weight(s, I)]
  BY <1>1, <1>2, <1>4, <1>5, <1>6, <1>7 DEF AbilityCache!Cleanup
<1> QED BY <1>1, <1>3, <1>7, <1>8, SomeLeave

LEMMA ExpireTexts ==
    ASSUME NEW c, NEW x, Accounted(c, x), NEW k
    PROVE  Accounted(AbilityCache!Expire(c, k), x)
<1>1. PICK s \in Seq(Texts) : s = c.entries /\ Apart(s)
  BY DEF Accounted
<1>2. PICK total \in Int : total = c.total
  BY DEF Accounted
<1>3. /\ c = [entries |-> s, total |-> total] /\ x \in Nat
      /\ total + x = AbilityCache!SizeOf(s) /\ (x = 0 => AbilityCache!SizeOf(s) <= MaxAbilitiesSize)
  BY <1>1, <1>2 DEF Accounted
<1>4. PICK n \in Nat : DOMAIN s = 1..n /\ IsFiniteSet(1..n) /\ \A i \in 1..n : s[i] \in Texts /\ s[i].size \in Nat
  BY TextsHave
<1>5. PICK t : t = [i \in 1..n |-> IF s[i].key = k THEN [s[i] EXCEPT !.fresh = FALSE] ELSE s[i]]
  OBVIOUS
<1>6. \A i \in 1..n : t[i] \in Texts /\ t[i].key = s[i].key /\ t[i].size = s[i].size
  BY <1>4, <1>5 DEF Texts
<1>7. t \in Seq(Texts) /\ DOMAIN t = 1..n
  <2>1. t \in [1..n -> Texts]
    BY <1>5, <1>6
  <2> QED BY <1>5, <2>1, SeqDef
<1>8. Apart(t)
  BY <1>1, <1>4, <1>6, <1>7 DEF Apart
<1>9. AbilityCache!SizeOf(t) = AbilityCache!SizeOf(s)
  <2>1. PICK J : J = 1..n
    OBVIOUS
  <2>2. PICK g : g = [i \in J |-> i]
    OBVIOUS
  <2>3. g \in [J -> J] /\ (\A i \in J : \E j \in J : g[j] = i) /\ (\A i, j \in J : g[i] = g[j] => i = j)
        /\ \A j \in J : t[j].size = s[g[j]].size
    BY <1>6, <2>1, <2>2
  <2>4. Weight(t, J) = Weight(s, J)
    <3>1. IsFiniteSet(J) /\ \A j \in J : s[j].size \in Nat
      BY <1>4, <2>1
    <3> QED BY <2>3, <3>1, WeightsMove
  <2> QED BY <1>4, <1>7, <2>1, <2>4, SizeIsWeight
<1>10. PICK d : d = AbilityCache!Expire(c, k)
  OBVIOUS
<1>11. d = [entries |-> t, total |-> total]
  <2>1. t = [i \in DOMAIN c.entries |-> IF c.entries[i].key = k THEN [c.entries[i] EXCEPT !.fresh = FALSE] ELSE c.entries[i]]
    BY <1>1, <1>4, <1>5
  <2>2. d = [c EXCEPT !.entries = t]
    BY <1>10, <2>1, Zenon DEF AbilityCache!Expire
  <2> QED BY <1>3, <2>2
<1> QED BY <1>3, <1>7, <1>8, <1>9, <1>10, <1>11, AccountedAs

\* How many texts are evicted before one comes, and that it finds room then.
LEMMA RoomFor ==
    ASSUME NEW s \in Seq(Texts), NEW total, NEW size
    PROVE  \E n \in 0 .. Len(s) : /\ n = AbilityCache!Evictions(s, total, size)
                                  /\ n = Len(s) \/ total - AbilityCache!SizeOf(SubSeq(s, 1, n)) + size <= MaxAbilitiesSize
<1> DEFINE Room(n) == /\ Len(s) - n < MaxAbilities \/ n = Len(s)
                      /\ MaxAbilitiesSize = 0 \/ n = Len(s) \/ total - AbilityCache!SizeOf(SubSeq(s, 1, n)) + size <= MaxAbilitiesSize
<1>1. PICK m \in Nat : m = Len(s)
  BY LenProperties
<1>2. PICK T : T = {n \in 0..m : Room(n)}
  OBVIOUS
<1>3. m \in T /\ T \subseteq Nat
  BY <1>1, <1>2
<1>4. PICK n \in T : \A j \in T : ~(<<j, n>> \in OpToRel(<, Nat))
  BY <1>3, NatLessThanWellFounded, WFMin
<1>5. \A j \in T : ~(j < n)
  BY <1>3, <1>4 DEF OpToRel
<1>6. n \in 0 .. Len(s) /\ Room(n) /\ \A j \in 0 .. n - 1 : ~Room(j)
  <2>1. n \in 0..m /\ Room(n)
    BY <1>2
  <2>2. \A j \in 0 .. n - 1 : j \in 0..m /\ j < n
    BY <2>1
  <2> HIDE DEF Room
  <2> QED BY <1>1, <1>2, <1>5, <2>1, <2>2
<1>7. \E i \in 0 .. Len(s) : Room(i) /\ \A j \in 0 .. i - 1 : ~Room(j)
  BY <1>6
<1>8. PICK e : e = AbilityCache!Evictions(s, total, size)
  OBVIOUS
<1>9. e \in 0 .. Len(s) /\ Room(e)
  BY <1>7, <1>8 DEF AbilityCache!Evictions
<1> QED BY <1>8, <1>9, SizesAssumption

\* A stretch of a sequence of texts.
Part(s, a, b) == SubSeq(s, a + 1, b)
From(t, s, a) == \A i \in DOMAIN t : a + i \in DOMAIN s /\ a + i > a /\ t[i] = s[a + i]

LEMMA Stretch ==
    ASSUME NEW s \in Seq(Texts), Apart(s), NEW a \in Nat, NEW b \in Nat, a <= b, b <= Len(s),
           NEW t, t = Part(s, a, b)
    PROVE  /\ t \in Seq(Texts) /\ Apart(t) /\ Len(t) = b - a /\ DOMAIN t = 1 .. b - a
           /\ From(t, s, a)
           /\ AbilityCache!SizeOf(t) = Weight(s, (a + 1)..b)
<1>2. PICK m \in Nat : m = Len(s) /\ DOMAIN s = 1..m /\ b <= m
  BY LenProperties
<1>1. \A i \in 1..m : s[i] \in Texts /\ s[i].size \in Nat
  BY <1>2, TextsHave
<1>3. \A i \in (a + 1)..b : i \in 1..m /\ s[i] \in Texts
  BY <1>1, <1>2
<1>4. /\ t \in Seq(Texts) /\ Len(t) = IF a + 1 <= b THEN b - (a + 1) + 1 ELSE 0
      /\ \A i \in 1 .. b - (a + 1) + 1 : t[i] = s[a + 1 + i - 1]
  <2>1. t = SubSeq(s, a + 1, b)
    BY DEF Part
  <2> QED BY <1>3, <2>1, SubSeqProperties
<1>5. Len(t) = b - a /\ DOMAIN t = 1 .. b - a
  BY <1>4, LenProperties
<1>6. \A i \in 1 .. b - a : a + i \in (a + 1)..b /\ a + i \in 1..m /\ t[i] = s[a + i]
  BY <1>2, <1>4
<1>7. Apart(t)
  <2>1. ASSUME NEW i \in 1 .. b - a, NEW j \in 1 .. b - a, t[i].key = t[j].key PROVE i = j
    <3>1. PICK x \in 1..m, y \in 1..m : x = a + i /\ y = a + j /\ t[i] = s[x] /\ t[j] = s[y]
      BY <1>6
    <3>2. x = y
      BY <1>2, <2>1, <3>1 DEF Apart
    <3> QED BY <3>1, <3>2
  <2> QED BY <1>5, <2>1 DEF Apart
<1>8. AbilityCache!SizeOf(t) = Weight(s, (a + 1)..b)
  <2>1. PICK I, J : I = (a + 1)..b /\ J = 1 .. b - a
    OBVIOUS
  <2>2. PICK g : g = [i \in J |-> a + i]
    OBVIOUS
  <2>3. g \in [J -> I] /\ \A j \in J : t[j].size = s[g[j]].size
    BY <1>6, <2>1, <2>2
  <2>4. \A i \in I : \E j \in J : g[j] = i
    <3>1. ASSUME NEW i \in I PROVE i - a \in J /\ g[i - a] = i
      BY <2>1, <2>2
    <3> QED BY <3>1
  <2>5. \A i, j \in J : g[i] = g[j] => i = j
    BY <2>1, <2>2
  <2>6. IsFiniteSet(I) /\ \A i \in I : s[i].size \in Nat
    <3>1. a + 1 \in Int /\ b \in Int
      OBVIOUS
    <3>2. IsFiniteSet(I)
      BY <2>1, <3>1, FS_Interval
    <3> QED BY <1>1, <1>3, <2>1, <3>2
  <2>7. Weight(t, J) = Weight(s, I)
    BY <2>3, <2>4, <2>5, <2>6, WeightsMove
  <2> QED BY <1>5, <2>1, <2>7, SizeIsWeight
<1>9. From(t, s, a)
  BY <1>2, <1>5, <1>6 DEF From
<1> QED BY <1>4, <1>5, <1>7, <1>8, <1>9

\* One more text.
LEMMA TextAdded ==
    ASSUME NEW s \in Seq(Texts), Apart(s), NEW new \in Texts, \A i \in DOMAIN s : s[i].key # new.key
    PROVE  \E t \in Seq(Texts) : t = Append(s, new) /\ Apart(t) /\ AbilityCache!SizeOf(t) = AbilityCache!SizeOf(s) + new.size
<1>1. PICK l \in Nat : l = Len(s) /\ DOMAIN s = 1..l /\ IsFiniteSet(1..l) /\ \A i \in 1..l : s[i].size \in Nat
  BY TextsHave
<1>2. PICK t : t = Append(s, new)
  OBVIOUS
<1>3. /\ t \in Seq(Texts) /\ Len(t) = Len(s) + 1
      /\ \A i \in 1..Len(s) : t[i] = s[i]
      /\ t[Len(s) + 1] = new
  BY <1>2, AppendProperties
<1>4. DOMAIN t = 1..(l + 1)
  BY <1>1, <1>3, LenProperties
<1>5. (\A i \in 1..l : t[i] = s[i]) /\ t[l + 1] = new /\ \A i \in 1..(l + 1) : i \in 1..l \/ i = l + 1
  BY <1>1, <1>3
<1>6. Apart(t)
  BY <1>1, <1>4, <1>5 DEF Apart
<1>7. PICK I : I = 1..l
  OBVIOUS
<1>8. Weight(t, I) = Weight(s, I)
  <2>1. PICK g : g = [i \in I |-> i]
    OBVIOUS
  <2>2. g \in [I -> I] /\ (\A i \in I : \E j \in I : g[j] = i) /\ (\A i, j \in I : g[i] = g[j] => i = j)
        /\ \A j \in I : t[j].size = s[g[j]].size
    BY <1>5, <1>7, <2>1
  <2>3. IsFiniteSet(I) /\ \A i \in I : s[i].size \in Nat
    BY <1>1, <1>7
  <2> QED BY <2>2, <2>3, WeightsMove
<1>9. Weight(t, {l + 1}) = new.size
  <2>1. t[l + 1].size = new.size /\ new.size \in Nat
    BY <1>5 DEF Texts
  <2> QED BY <2>1, WeightOfOne
<1>10. AbilityCache!SizeOf(t) = Weight(t, I) + Weight(t, {l + 1})
  <2>1. I \in SUBSET (DOMAIN t) /\ (DOMAIN t) \ I = {l + 1}
    BY <1>4, <1>5, <1>7
  <2> QED BY <1>3, <2>1, WeightsSplit
<1> QED BY <1>1, <1>2, <1>3, <1>6, <1>7, <1>8, <1>9, <1>10, SizeIsWeight

\* One text in the place of another one.
LEMMA TextReplaced ==
    ASSUME NEW s \in Seq(Texts), Apart(s), NEW new \in Texts, NEW h \in DOMAIN s, s[h].key = new.key
    PROVE  \E t \in Seq(Texts) : /\ t = [i \in DOMAIN s |-> IF s[i].key = new.key THEN new ELSE s[i]] /\ Apart(t)
                                 /\ AbilityCache!SizeOf(t) = AbilityCache!SizeOf(s) - s[h].size + new.size
<1>1. PICK l \in Nat : /\ l = Len(s) /\ DOMAIN s = 1..l /\ IsFiniteSet(1..l)
                       /\ \A i \in 1..l : s[i] \in Texts /\ s[i].size \in Nat
  BY TextsHave
<1>2. PICK t : t = [i \in DOMAIN s |-> IF s[i].key = new.key THEN new ELSE s[i]]
  OBVIOUS
<1>3. t \in Seq(Texts) /\ DOMAIN t = 1..l
  <2>1. t \in [1..l -> Texts]
    BY <1>1, <1>2
  <2> QED BY <1>1, <1>2, <2>1, SeqDef
<1>4. \A i \in 1..l : t[i] = IF i = h THEN new ELSE s[i]
  BY <1>1, <1>2 DEF Apart
<1>5. Apart(t)
  <2>1. \A i \in 1..l : t[i].key = s[i].key
    BY <1>2, <1>1
  <2> QED BY <1>1, <1>3, <2>1 DEF Apart
<1>6. PICK J : J = (1..l) \ {h}
  OBVIOUS
<1>7. Weight(t, J) = Weight(s, J)
  <2>1. PICK g : g = [i \in J |-> i]
    OBVIOUS
  <2>2. g \in [J -> J] /\ (\A i \in J : \E j \in J : g[j] = i) /\ (\A i, j \in J : g[i] = g[j] => i = j)
        /\ \A j \in J : t[j].size = s[g[j]].size
    BY <1>4, <1>6, <2>1
  <2>3. IsFiniteSet(J) /\ \A i \in J : s[i].size \in Nat
    BY <1>1, <1>6, FS_Subset
  <2> QED BY <2>2, <2>3, WeightsMove
<1>8. Weight(t, {h}) = new.size /\ Weight(s, {h}) = s[h].size
  <2>1. t[h].size = new.size /\ new.size \in Nat /\ s[h].size \in Nat
    BY <1>1, <1>4 DEF Texts
  <2> QED BY <2>1, WeightOfOne
<1>9. /\ AbilityCache!SizeOf(t) = Weight(t, {h}) + Weight(t, J)
      /\ AbilityCache!SizeOf(s) = Weight(s, {h}) + Weight(s, J)
      /\ Weight(s, {h}) \in Nat /\ Weight(s, J) \in Nat
  <2>1. {h} \in SUBSET (DOMAIN s) /\ {h} \in SUBSET (DOMAIN t) /\ J = (DOMAIN s) \ {h} /\ J = (DOMAIN t) \ {h}
    BY <1>1, <1>3, <1>6
  <2>2. /\ Weight(s, {h}) \in Nat /\ Weight(s, (DOMAIN s) \ {h}) \in Nat
        /\ AbilityCache!SizeOf(s) = Weight(s, {h}) + Weight(s, (DOMAIN s) \ {h})
    BY <2>1, WeightsSplit
  <2>3. AbilityCache!SizeOf(t) = Weight(t, {h}) + Weight(t, (DOMAIN t) \ {h})
    BY <1>3, <2>1, WeightsSplit
  <2> QED BY <2>1, <2>2, <2>3
<1>10. PICK u \in Nat, v \in Nat, w \in Nat : u = s[h].size /\ v = Weight(s, J) /\ w = new.size
  BY <1>1, <1>9 DEF Texts
<1>11. AbilityCache!SizeOf(t) = w + v /\ AbilityCache!SizeOf(s) = u + v
  BY <1>7, <1>8, <1>9, <1>10
<1>12. AbilityCache!SizeOf(t) = AbilityCache!SizeOf(s) - s[h].size + new.size
  BY <1>10, <1>11
<1> QED BY <1>2, <1>3, <1>5, <1>12

\* set: a text that is replaced counts no longer, and neither do those that are evicted.
LEMMA SetTexts ==
    ASSUME NEW c, NEW x, Accounted(c, x), NEW k \in Abilities, NEW z \in Nat
    PROVE  Accounted(AbilityCache!Set(c, k, z), x + AbilityCache!Shortfall(c, k, z))
<1>1. PICK s \in Seq(Texts) : s = c.entries /\ Apart(s)
  BY DEF Accounted
<1>2. PICK total \in Int : total = c.total
  BY DEF Accounted
<1>3. /\ c = [entries |-> s, total |-> total] /\ x \in Nat
      /\ total + x = AbilityCache!SizeOf(s) /\ (x = 0 => AbilityCache!SizeOf(s) <= MaxAbilitiesSize)
  BY <1>1, <1>2 DEF Accounted
<1>4. PICK m \in Nat : m = Len(s) /\ DOMAIN s = 1..m /\ IsFiniteSet(1..m) /\ \A i \in 1..m : s[i] \in Texts /\ s[i].size \in Nat
  BY TextsHave
<1>5. PICK I \in SUBSET (1..m) : I = AbilityCache!At(c, k)
  BY <1>1, <1>4 DEF AbilityCache!At
<1>6. \A i \in 1..m : i \in I <=> s[i].key = k
  BY <1>1, <1>4, <1>5, AtOne
<1>7. PICK R \in Nat : R = AbilityCache!Replaced(c, k) /\ R = Weight(s, I)
  BY <1>1, <1>4, <1>5, AtOne, WeightsSplit
<1>8. CASE AbilityCache!TooLarge(z)
  <2>1. AbilityCache!Set(c, k, z) = c /\ AbilityCache!Shortfall(c, k, z) = 0
    BY <1>8 DEF AbilityCache!Set, AbilityCache!Shortfall
  <2> QED BY <1>3, <2>1
<1>9. CASE ~AbilityCache!TooLarge(z)
  <2>1. PICK n \in 0..m : /\ n = AbilityCache!Evicted(c, k, z)
                          /\ n = m \/ total - R - AbilityCache!SizeOf(SubSeq(s, 1, n)) + z <= MaxAbilitiesSize
    BY <1>1, <1>2, <1>4, <1>7, RoomFor DEF AbilityCache!Evicted
  <2>2. PICK gone \in Seq(Texts) : gone = SubSeq(s, 1, n) /\ Len(gone) = n /\ AbilityCache!SizeOf(gone) = Weight(s, 1..n)
    <3>1. PICK a \in Nat : a = 0 /\ n \in Nat /\ a <= n /\ n <= m /\ n - a = n /\ a + 1 = 1
      OBVIOUS
    <3>2. PICK t : t = Part(s, a, n)
      OBVIOUS
    <3>3. t \in Seq(Texts) /\ Len(t) = n - a /\ AbilityCache!SizeOf(t) = Weight(s, (a + 1)..n)
      BY <1>1, <1>4, <3>1, <3>2, Stretch
    <3> QED BY <3>1, <3>2, <3>3 DEF Part
  <2>3. PICK kept \in Seq(Texts) : /\ kept = SubSeq(s, n + 1, m) /\ Apart(kept) /\ DOMAIN kept = 1 .. m - n
                                   /\ \A i \in 1 .. m - n : n + i \in (n + 1)..m /\ kept[i] = s[n + i]
                                   /\ AbilityCache!SizeOf(kept) = Weight(s, (n + 1)..m)
    <3>1. n \in Nat /\ n <= m /\ m <= Len(s)
      BY <1>4
    <3>2. PICK t : t = Part(s, n, m)
      OBVIOUS
    <3>3. /\ t \in Seq(Texts) /\ Apart(t) /\ DOMAIN t = 1 .. m - n
          /\ \A i \in 1 .. m - n : n + i \in (n + 1)..m /\ t[i] = s[n + i]
          /\ AbilityCache!SizeOf(t) = Weight(s, (n + 1)..m)
      <4>1. /\ t \in Seq(Texts) /\ Apart(t) /\ DOMAIN t = 1 .. m - n /\ From(t, s, n)
            /\ AbilityCache!SizeOf(t) = Weight(s, (n + 1)..m)
        BY <1>1, <3>1, <3>2, Stretch
      <4>2. \A i \in 1 .. m - n : n + i \in (n + 1)..m /\ t[i] = s[n + i]
        BY <4>1 DEF From
      <4> QED BY <4>1, <4>2
    <3> QED BY <3>2, <3>3 DEF Part
  <2>4. PICK g \in Nat, l \in Nat : /\ g = AbilityCache!SizeOf(gone) /\ l = AbilityCache!SizeOf(kept)
                                    /\ AbilityCache!SizeOf(s) = g + l
    <3>1. PICK J \in SUBSET (DOMAIN s) : J = 1..n /\ (DOMAIN s) \ J = (n + 1)..m
      BY <1>4
    <3>2. /\ Weight(s, J) \in Nat /\ Weight(s, (DOMAIN s) \ J) \in Nat
          /\ AbilityCache!SizeOf(s) = Weight(s, J) + Weight(s, (DOMAIN s) \ J)
      BY WeightsSplit
    <3> QED BY <2>2, <2>3, <3>1, <3>2
  <2>5. PICK new \in Texts : new = [key |-> k, size |-> z, fresh |-> TRUE] /\ new.key = k /\ new.size = z
    <3>1. PICK e : e = [key |-> k, size |-> z, fresh |-> TRUE]
      OBVIOUS
    <3>2. e \in Texts
      BY <3>1 DEF Texts
    <3> QED BY <3>1, <3>2
  <2>6. PICK w \in Int : w = total - R - g + z
    OBVIOUS
  <2>15. total + x = g + l
    BY <1>3, <2>4
  <2>7. n = m => l = 0
    <3>1. ASSUME n = m PROVE UnitsAt(s, (n + 1)..m) = {}
      BY <3>1 DEF UnitsAt
    <3> QED BY <2>3, <2>4, <3>1, FS_EmptySet DEF Weight
  <2>8. z <= MaxAbilitiesSize
    BY <1>9, SizesAssumption DEF AbilityCache!TooLarge
  <2>9. n = m \/ w <= MaxAbilitiesSize
    BY <2>1, <2>2, <2>4, <2>6
  <2>10. PICK d : d = AbilityCache!Set(c, k, z)
    OBVIOUS
  <2>11. d = [entries |-> IF \E i \in DOMAIN kept : kept[i].key = new.key
                          THEN [i \in DOMAIN kept |-> IF kept[i].key = new.key THEN new ELSE kept[i]]
                          ELSE Append(kept, new),
              total |-> w]
    <3>1. gone = SubSeq(c.entries, 1, AbilityCache!Evicted(c, k, z)) /\ kept = SubSeq(c.entries, Len(gone) + 1, Len(c.entries))
      BY <1>1, <1>4, <2>1, <2>2, <2>3
    <3>2. w = c.total - AbilityCache!Replaced(c, k) - AbilityCache!SizeOf(gone) + z
      BY <1>2, <1>7, <2>4, <2>6
    <3> QED BY <1>9, <2>5, <2>10, <3>1, <3>2 DEF AbilityCache!Set
  <2>12. AbilityCache!Shortfall(c, k, z) = IF \E i \in I : i <= n THEN R ELSE 0
    BY <1>5, <1>7, <1>9, <2>1 DEF AbilityCache!Shortfall
  <2>13. CASE \E i \in DOMAIN kept : kept[i].key = new.key
    <3>1. PICK i \in 1 .. m - n : kept[i].key = new.key
      BY <2>3, <2>13
    <3>2. PICK h \in 1..m : h = n + i /\ kept[i] = s[h]
      BY <2>3
    <3>3. I = {h}
      <4>1. h \in DOMAIN s /\ s[h].key = k
        BY <1>1, <1>4, <2>5, <3>1, <3>2
      <4>2. \A j \in DOMAIN s : s[j].key = k => j = h
        BY <1>1, <4>1, Zenon DEF Apart
      <4>3. h \in 1..m /\ \A j \in 1..m : s[j].key = k => j = h
        BY <1>4, <4>1, <4>2
      <4> QED BY <1>6, <4>1, <4>3
    <3>4. R = s[h].size
      BY <1>4, <1>7, <3>3, WeightOfOne
    <3>5. ~ \E j \in I : j <= n
      BY <3>2, <3>3
    <3>6. PICK t \in Seq(Texts) : /\ t = [j \in DOMAIN kept |-> IF kept[j].key = new.key THEN new ELSE kept[j]] /\ Apart(t)
                                  /\ AbilityCache!SizeOf(t) = AbilityCache!SizeOf(kept) - kept[i].size + new.size
      BY <2>3, <3>1, TextReplaced
    <3>7. AbilityCache!SizeOf(t) = l - R + z
      BY <2>4, <2>5, <3>2, <3>4, <3>6
    <3>8. w + x = AbilityCache!SizeOf(t)
      <4>1. w + x = l - R + z
        BY <1>3, <2>6, <2>15
      <4> QED BY <3>7, <4>1
    <3>9. x = 0 => AbilityCache!SizeOf(t) <= MaxAbilitiesSize
      <4>1. n # m
        BY <3>1
      <4> QED BY <2>9, <3>8, <4>1
    <3>10. d = [entries |-> t, total |-> w]
      BY <2>11, <2>13, <3>6
    <3>11. AbilityCache!Shortfall(c, k, z) = 0 /\ x + 0 = x
      BY <1>3, <2>12, <3>5
    <3>12. Accounted(d, x)
      BY <1>3, <3>6, <3>8, <3>9, <3>10, AccountedAs
    <3> QED BY <2>10, <3>11, <3>12
  <2>14. CASE ~ \E i \in DOMAIN kept : kept[i].key = new.key
    <3>1. PICK t \in Seq(Texts) : t = Append(kept, new) /\ Apart(t) /\ AbilityCache!SizeOf(t) = AbilityCache!SizeOf(kept) + new.size
      BY <2>3, <2>14, TextAdded
    <3>2. AbilityCache!SizeOf(t) = l + z
      BY <2>4, <2>5, <3>1
    <3>3. d = [entries |-> t, total |-> w]
      BY <2>11, <2>14, <3>1
    <3>4. I # {} => \E i \in I : i <= n
      <4>1. ASSUME NEW i \in I, ~(i <= n) PROVE FALSE
        <5>1. i \in 1..m /\ i - n \in 1 .. m - n /\ n + (i - n) = i
          BY <4>1
        <5>2. kept[i - n].key = k
          BY <1>6, <2>3, <4>1, <5>1
        <5> QED BY <2>3, <2>5, <2>14, <5>1, <5>2
      <4> QED BY <4>1
    <3>5. PICK y \in Nat : y = AbilityCache!Shortfall(c, k, z) /\ y = R
      <4>1. CASE I = {}
        <5>1. R = 0
          BY <1>7, <4>1, FS_EmptySet DEF Weight, UnitsAt
        <5> QED BY <2>12, <4>1, <5>1
      <4>2. CASE I # {}
        BY <2>12, <3>4, <4>2
      <4> QED BY <4>1, <4>2
    <3>6. x + y \in Nat /\ w + (x + y) = AbilityCache!SizeOf(t)
      <4>1. x + y \in Nat /\ w + (x + y) = l + z
        BY <1>3, <2>6, <2>15, <3>5
      <4> QED BY <3>2, <4>1
    <3>7. x + y = 0 => AbilityCache!SizeOf(t) <= MaxAbilitiesSize
      <4>1. MaxAbilitiesSize \in Nat
        BY SizesAssumption
      <4>2. CASE n = m
        BY <2>7, <2>8, <3>2, <4>1, <4>2
      <4>3. CASE n # m
        BY <2>9, <3>6, <4>1, <4>3
      <4> QED BY <4>2, <4>3
    <3>8. Accounted(d, x + y)
      BY <3>1, <3>3, <3>6, <3>7, AccountedAs
    <3> QED BY <2>10, <3>5, <3>8
  <2> QED BY <2>13, <2>14
<1> QED BY <1>8, <1>9

\* A call that loads abilities has a list of them, and one that reads a text has one to read.
Asks(r) == r.at \in {"ability", "text"} => r.abilities \in Seq(Abilities) /\ (r.at = "text" => r.abilities # <<>>)
Accounting == Loading /\ MapMeant /\ (\A c \in Calls : Asks(call[c])) /\ Accounted(texts, shortfall)

\* One call moves, to something that asks for what there is.
AsksOn(c) == \E r : call' = [call EXCEPT ![c] = r] /\ Asks(r)

LEMMA StepAsks ==
    ASSUME Loading, NEW c \in Calls, call[c].at \in Steps, NEW at \in Steps \ {"ability", "text"}, Step(c, at)
    PROVE  AsksOn(c)
<1>1. PICK r : r = call[c] /\ IsCall(r)
  BY AtWork
<1>2. PICK s : s = [r EXCEPT !.at = at]
  OBVIOUS
<1>3. s.at = at
  BY <1>1, <1>2, Stepped
<1>4. call' = [call EXCEPT ![c] = s]
  BY <1>1, <1>2 DEF Step
<1> QED BY <1>3, <1>4 DEF AsksOn, Asks

LEMMA EndAsks ==
    ASSUME NEW c, End(c)
    PROVE  AsksOn(c)
<1>1. PICK r : r = Idle /\ r.at = "idle"
  <2>1. Idle.at = "idle"
    BY DEF Idle
  <2> QED BY <2>1
<1>2. call' = [call EXCEPT ![c] = r]
  BY <1>1 DEF End
<1> QED BY <1>1, <1>2 DEF AsksOn, Asks

LEMMA FailsAsk ==
    ASSUME Loading, NEW c \in Calls, call[c].at \in Steps, Fails(c)
    PROVE  AsksOn(c)
<1>1. CASE call[c].why = "similar"
  BY <1>1, StepAsks DEF Fails, Steps
<1>2. CASE call[c].why = "context"
  BY <1>2, EndAsks DEF Fails
<1>3. CASE call[c].why = "resolve"
  BY <1>3, StepAsks DEF Fails, Steps
<1>4. IsCall(call[c])
  BY AtWork
<1> QED BY <1>1, <1>2, <1>3, <1>4 DEF IsCall

LEMMA LoadedAsks ==
    ASSUME Loading, NEW c \in Calls, call[c].at \in Steps, Loaded(c), call[c].name \in Names
    PROVE  AsksOn(c)
<1>1. PICK r : r = call[c] /\ IsCall(r)
  BY AtWork
<1>2. PICK f, g, w, a : r = [at |-> r.at, id |-> r.id, name |-> r.name, why |-> w, todo |-> f, found |-> r.found, all |-> g,
                             abilities |-> a]
  BY <1>1 DEF IsCall
<1>3. CASE r.why = "resolve"
  <2>1. PICK s : s = [r EXCEPT !.at = "load", !.why = "context"]
    OBVIOUS
  <2>2. s.at = "load"
    BY <1>2, <2>1
  <2>3. call' = [call EXCEPT ![c] = s]
    BY <1>1, <1>3, <2>1 DEF Loaded
  <2> QED BY <2>2, <2>3 DEF AsksOn, Asks
<1>4. CASE r.why = "context"
  <2>1. PICK b, s : b = AbilitiesOf[call[c].name] /\ s = [r EXCEPT !.at = "ability", !.abilities = b]
    OBVIOUS
  <2>2. s.at = "ability" /\ s.abilities = b
    BY <1>2, <2>1
  <2>3. call' = [call EXCEPT ![c] = s]
    BY <1>1, <1>4, <2>1 DEF Loaded
  <2>4. b \in Seq(Abilities)
    BY <2>1, NamesAssumption
  <2> QED BY <2>2, <2>3, <2>4 DEF AsksOn, Asks
<1>5. CASE r.why = "similar"
  <2>1. PICK s : s = [r EXCEPT !.at = "compare"]
    OBVIOUS
  <2>2. s.at = "compare"
    BY <1>2, <2>1
  <2>3. call' = [call EXCEPT ![c] = s]
    BY <1>1, <1>5, <2>1 DEF Loaded
  <2> QED BY <2>2, <2>3 DEF AsksOn, Asks
<1> QED BY <1>1, <1>3, <1>4, <1>5 DEF IsCall

LEMMA ProfilesAsk ==
    ASSUME Loading, NEW c \in Calls,
           ProfileHit(c) \/ ProfileMiss(c) \/ ReadLocal(c) \/ ReadBuiltIn(c) \/ buildProfile(c)
    PROVE  AsksOn(c)
<1>1. call[c].at \in LoadSteps /\ call[c].at \in Steps
  BY DEF ProfileHit, ProfileMiss, ReadLocal, ReadBuiltIn, buildProfile, LoadSteps, Steps
<1>2. CASE ProfileHit(c)
  <2>1. call[c].name \in KeysOf(cache)
    BY <1>2, FreshKey DEF ProfileHit
  <2>2. PICK s \in Seq(Entries) : s = cache.entries
    BY DEF Loading, IsCache
  <2>3. PICK i \in DOMAIN s : call[c].name = s[i].key
    BY <2>1, <2>2 DEF KeysOf
  <2>4. s[i] \in Entries
    BY ElementOfSeq, LenProperties
  <2>5. call[c].name \in Names
    BY <2>3, <2>4 DEF Entries
  <2> QED BY <1>1, <1>2, <2>5, LoadedAsks DEF ProfileHit
<1>3. CASE buildProfile(c)
  <2>1. call[c].name \in Names
    BY <1>1, <1>3, AtWork DEF buildProfile, Sound
  <2> QED BY <1>1, <1>3, <2>1, LoadedAsks DEF buildProfile
<1>4. CASE ProfileMiss(c)
  BY <1>1, <1>4, FailsAsk, StepAsks DEF ProfileMiss, Steps, LoadSteps
<1>5. CASE ReadLocal(c)
  <2>1. Fails(c) \/ \E at \in {"build", "builtin"} : Step(c, at)
    BY <1>5, Zenon DEF ReadLocal, Parsed
  <2> QED BY <1>1, <2>1, FailsAsk, StepAsks DEF Steps, LoadSteps
<1>6. CASE ReadBuiltIn(c)
  <2>1. Fails(c) \/ \E at \in {"build", "map"} : Step(c, at)
    BY <1>6, Zenon DEF ReadBuiltIn, Parsed
  <2> QED BY <1>1, <2>1, FailsAsk, StepAsks DEF Steps, LoadSteps, MapSteps
<1> QED BY <1>2, <1>3, <1>4, <1>5, <1>6

LEMMA MapAsks ==
    ASSUME Loading, NEW c \in Calls,
           \/ buildDisplayNameMap(c) \/ ListLocal(c) \/ AddNext(c) \/ LocalAdded(c) \/ ListBuiltIn(c) \/ MapBuilt(c)
           \/ ListingFails(c)
    PROVE  AsksOn(c)
<1>1. call[c].at \in MapSteps /\ call[c].at \in Steps
  BY DEF buildDisplayNameMap, ListLocal, AddNext, LocalAdded, ListBuiltIn, MapBuilt, ListingFails, MapSteps, BuildSteps, Steps
<1>2. PICK r : r = call[c] /\ IsCall(r)
  BY <1>1, AtWork
<1>3. PICK f, g, w, a : r = [at |-> r.at, id |-> r.id, name |-> r.name, why |-> w, todo |-> r.todo, found |-> f, all |-> g,
                             abilities |-> a]
  BY <1>2 DEF IsCall
<1>4. CASE buildDisplayNameMap(c) \/ LocalAdded(c) \/ MapBuilt(c) \/ ListingFails(c)
  <2>1. \E at \in {"lookup", "list", "listBuiltIn"} : Step(c, at)
    BY <1>4, Zenon DEF buildDisplayNameMap, LocalAdded, MapBuilt, ListingFails
  <2> QED BY <1>1, <2>1, StepAsks DEF Steps, MapSteps, BuildSteps
<1>5. CASE ListLocal(c)
  <2>1. PICK s : s = [r EXCEPT !.at = "add", !.todo = LocalNames(local), !.found = LocalNames(local)]
    OBVIOUS
  <2>2. s.at = "add"
    BY <1>3, <2>1
  <2>3. call' = [call EXCEPT ![c] = s]
    BY <1>2, <1>5, <2>1 DEF ListLocal
  <2> QED BY <2>2, <2>3 DEF AsksOn, Asks
<1>6. CASE ListBuiltIn(c)
  <2>1. PICK s : s = [r EXCEPT !.at = "addBuiltIn", !.todo = BuiltInNames \ r.found]
    OBVIOUS
  <2>2. s.at = "addBuiltIn"
    BY <1>3, <2>1
  <2>3. call' = [call EXCEPT ![c] = s]
    BY <1>2, <1>6, <2>1 DEF ListBuiltIn
  <2> QED BY <2>2, <2>3 DEF AsksOn, Asks
<1>7. CASE AddNext(c)
  <2>1. PICK s : s = [r EXCEPT !.todo = r.todo \ {First(r.todo)}]
    OBVIOUS
  <2>2. s.at = r.at /\ r.at \in {"add", "addBuiltIn"}
    BY <1>2, <1>3, <1>7, <2>1 DEF AddNext
  <2>3. call' = [call EXCEPT ![c] = s]
    BY <1>2, <1>7, <2>1 DEF AddNext
  <2> QED BY <2>2, <2>3 DEF AsksOn, Asks
<1> QED BY <1>4, <1>5, <1>6, <1>7

LEMMA OthersAsk ==
    ASSUME Loading, NEW c \in Calls,
           \/ \E i \in Identifiers : createContext(c, i)
           \/ Lookup(c) \/ UnknownAgent(c) \/ findSimilarAgents(c) \/ CompareNext(c) \/ ContextCreated(c)
    PROVE  AsksOn(c)
<1>1. CASE \E i \in Identifiers : createContext(c, i)
  <2>1. PICK i \in Identifiers : createContext(c, i)
    BY <1>1
  <2>2. PICK s : s = [at |-> "load", id |-> i, name |-> i, why |-> "resolve", todo |-> {}, found |-> {}, all |-> {}, abilities |-> <<>>]
    OBVIOUS
  <2>3. s.at = "load"
    BY <2>2
  <2>4. call' = [call EXCEPT ![c] = s]
    BY <2>1, <2>2 DEF createContext
  <2> QED BY <2>3, <2>4 DEF AsksOn, Asks
<1>2. CASE UnknownAgent(c) \/ ContextCreated(c)
  BY <1>2, EndAsks DEF UnknownAgent, ContextCreated
<1>3. ASSUME call[c].at \in Steps
      PROVE  \E r : r = call[c] /\ r = [at |-> r.at, id |-> r.id, name |-> r.name, why |-> r.why, todo |-> r.todo, found |-> r.found,
                                        all |-> r.all, abilities |-> r.abilities]
  BY <1>3, AtWork DEF IsCall
<1>4. CASE Lookup(c)
  <2>1. PICK r : r = call[c] /\ r = [at |-> r.at, id |-> r.id, name |-> r.name, why |-> r.why, todo |-> r.todo, found |-> r.found,
                                     all |-> r.all, abilities |-> r.abilities]
    BY <1>3, <1>4 DEF Lookup, Steps, MapSteps
  <2>2. CASE r.why = "similar"
    <3>1. PICK s : s = [r EXCEPT !.at = "compare", !.todo = r.all, !.all = {}, !.found = {}]
      OBVIOUS
    <3>2. s.at = "compare"
      BY <2>1, <3>1
    <3>3. call' = [call EXCEPT ![c].at = "compare", ![c].todo = call[c].all, ![c].all = {}, ![c].found = {}]
      BY <1>4, <2>1, <2>2 DEF Lookup
    <3>4. call' = [call EXCEPT ![c] = s]
      BY <2>1, <3>1, <3>3
    <3> QED BY <3>2, <3>4 DEF AsksOn, Asks
  <2>3. CASE r.why # "similar" /\ r.id \in DOMAIN displayNameMap
    <3>1. PICK s : s = [r EXCEPT !.at = "load", !.why = "context", !.name = displayNameMap[r.id], !.found = {}]
      OBVIOUS
    <3>2. s.at = "load"
      BY <2>1, <3>1
    <3>3. call' = [call EXCEPT ![c].at = "load", ![c].why = "context", ![c].name = displayNameMap[call[c].id], ![c].found = {}]
      BY <1>4, <2>1, <2>3 DEF Lookup
    <3>4. call' = [call EXCEPT ![c] = s]
      BY <2>1, <3>1, <3>3
    <3> QED BY <3>2, <3>4 DEF AsksOn, Asks
  <2>4. CASE r.why # "similar" /\ r.id \notin DOMAIN displayNameMap
    <3>1. PICK s : s = [r EXCEPT !.at = "unknown", !.name = None, !.todo = {}, !.found = {}]
      OBVIOUS
    <3>2. s.at = "unknown"
      BY <2>1, <3>1
    <3>3. call' = [call EXCEPT ![c].at = "unknown", ![c].name = None, ![c].todo = {}, ![c].found = {}]
      BY <1>4, <2>1, <2>4 DEF Lookup
    <3>4. call' = [call EXCEPT ![c] = s]
      BY <2>1, <3>1, <3>3
    <3> QED BY <3>2, <3>4 DEF AsksOn, Asks
  <2> QED BY <2>2, <2>3, <2>4
<1>5. CASE findSimilarAgents(c)
  <2>1. PICK r : r = call[c] /\ r = [at |-> r.at, id |-> r.id, name |-> r.name, why |-> r.why, todo |-> r.todo, found |-> r.found,
                                     all |-> r.all, abilities |-> r.abilities]
    BY <1>3, <1>5 DEF findSimilarAgents, Steps
  <2>2. PICK s : s = [r EXCEPT !.at = "map", !.why = "similar", !.all = listProfiles]
    OBVIOUS
  <2>3. s.at = "map"
    BY <2>1, <2>2
  <2>4. call' = [call EXCEPT ![c] = s]
    BY <1>5, <2>1, <2>2 DEF findSimilarAgents
  <2> QED BY <2>3, <2>4 DEF AsksOn, Asks
<1>6. CASE CompareNext(c)
  <2>1. PICK r : r = call[c] /\ r = [at |-> r.at, id |-> r.id, name |-> r.name, why |-> r.why, todo |-> r.todo, found |-> r.found,
                                     all |-> r.all, abilities |-> r.abilities]
    BY <1>3, <1>6 DEF CompareNext, Steps
  <2>2. CASE r.todo = {}
    BY <1>6, <2>1, <2>2, EndAsks DEF CompareNext
  <2>3. CASE r.todo # {}
    <3>1. PICK n : n = First(r.todo)
      OBVIOUS
    <3>2. PICK s : s = [r EXCEPT !.at = "load", !.name = n, !.todo = r.todo \ {n}]
      OBVIOUS
    <3>3. s.at = "load"
      BY <2>1, <3>2
    <3>4. call' = [call EXCEPT ![c].at = "load", ![c].name = n, ![c].todo = call[c].todo \ {n}]
      BY <1>6, <2>1, <2>3, <3>1 DEF CompareNext
    <3>5. call' = [call EXCEPT ![c] = s]
      BY <2>1, <3>2, <3>4
    <3> QED BY <3>3, <3>5 DEF AsksOn, Asks
  <2> QED BY <2>2, <2>3
<1> QED BY <1>1, <1>2, <1>4, <1>5, <1>6

\* The steps of a call that loads abilities.
LEMMA AbilitiesAsk ==
    ASSUME Loading, NEW c \in Calls, Asks(call[c]), Accounted(texts, shortfall),
           AbilityHit(c) \/ AbilityMiss(c) \/ ReadAbility(c)
    PROVE  AsksOn(c) /\ Accounted(texts', shortfall')
<1>1. call[c].at \in {"ability", "text"} /\ call[c].at \in Steps
  BY DEF AbilityHit, AbilityMiss, ReadAbility, Steps
<1>2. PICK r : r = call[c] /\ IsCall(r)
  BY <1>1, AtWork
<1>3. PICK u, a : r = [at |-> u, id |-> r.id, name |-> r.name, why |-> r.why, todo |-> r.todo, found |-> r.found, all |-> r.all,
                       abilities |-> a]
  BY <1>2 DEF IsCall
<1>4. r.abilities = a /\ a \in Seq(Abilities) /\ a # <<>>
  <2>1. r.abilities \in Seq(Abilities) /\ r.abilities # <<>>
    BY <1>1, <1>2 DEF Asks, AbilityHit, AbilityMiss, ReadAbility
  <2>2. r.abilities = a
    BY <1>3
  <2> QED BY <2>1, <2>2
<1>5. Head(a) \in Abilities /\ Tail(a) \in Seq(Abilities)
  BY <1>4, HeadTailProperties
<1>6. CASE AbilityHit(c) \/ ReadAbility(c)
  <2>1. PICK s : s = [r EXCEPT !.at = "ability", !.abilities = Tail(a)]
    OBVIOUS
  <2>2. s.at = "ability" /\ s.abilities = Tail(a)
    BY <1>3, <2>1
  <2>3. call' = [call EXCEPT ![c].at = "ability", ![c].abilities = Tail(call[c].abilities)]
    BY <1>6 DEF AbilityHit, ReadAbility, NextAbility
  <2>4. call' = [call EXCEPT ![c] = s]
    BY <1>2, <1>4, <2>1, <2>3
  <2>5. AsksOn(c)
    BY <1>5, <2>2, <2>4 DEF AsksOn, Asks
  <2>6. CASE AbilityHit(c)
    <3>1. texts' = AbilityCache!Get(texts, Head(call[c].abilities)) /\ shortfall' = shortfall
      BY <2>6 DEF AbilityHit
    <3> QED BY <2>5, <3>1, GetTexts
  <2>7. CASE ReadAbility(c)
    <3>1. PICK k \in Abilities, z \in Nat : k = Head(call[c].abilities) /\ z = Size[k]
      BY <1>2, <1>4, <1>5, SizesAssumption
    <3>2. CASE z = 0
      <4>1. texts' = texts /\ shortfall' = shortfall
        BY <2>7, <3>1, <3>2 DEF ReadAbility, manager
      <4> QED BY <2>5, <4>1
    <3>3. CASE z # 0
      <4>1. texts' = AbilityCache!Set(texts, k, z) /\ shortfall' = shortfall + AbilityCache!Shortfall(texts, k, z)
        BY <2>7, <3>1, <3>3 DEF ReadAbility
      <4> QED BY <2>5, <4>1, SetTexts
    <3> QED BY <3>2, <3>3
  <2> QED BY <1>6, <2>6, <2>7
<1>7. CASE AbilityMiss(c)
  <2>1. PICK s : s = [r EXCEPT !.at = "text"]
    OBVIOUS
  <2>2. s.at = "text" /\ s.abilities = a
    BY <1>3, <2>1
  <2>3. call' = [call EXCEPT ![c].at = "text"]
    BY <1>7 DEF AbilityMiss, Step
  <2>4. call' = [call EXCEPT ![c] = s]
    BY <1>2, <2>1, <2>3
  <2>5. AsksOn(c)
    BY <1>4, <2>2, <2>4 DEF AsksOn, Asks
  <2>6. texts' = AbilityCache!Get(texts, Head(call[c].abilities)) /\ shortfall' = shortfall
    BY <1>7 DEF AbilityMiss
  <2> QED BY <2>5, <2>6, GetTexts
<1> QED BY <1>6, <1>7

LEMMA AllAsk ==
    ASSUME Loading, \A c \in Calls : Asks(call[c]), NEW c \in Calls, AsksOn(c)
    PROVE  \A k \in Calls : Asks(call'[k])
<1>1. PICK r : call' = [call EXCEPT ![c] = r] /\ Asks(r)
  BY DEF AsksOn
<1>2. call = [k \in Calls |-> call[k]]
  BY DEF Loading, Going
<1>3. \A k \in Calls : call'[k] = IF k = c THEN r ELSE call[k]
  BY <1>1, <1>2
<1> QED BY <1>1, <1>3

LEMMA AccountingStays == Accounting /\ [ProfilesNext]_profilesVars => Accounting'
<1> SUFFICES ASSUME Accounting, [ProfilesNext]_profilesVars PROVE Accounting'
  OBVIOUS
<1>1. Loading /\ MapMeant /\ (\A c \in Calls : Asks(call[c])) /\ Accounted(texts, shortfall)
  BY DEF Accounting
<1>2. Loading' /\ MapMeant'
  BY <1>1, LoadingStays, MeantStays
<1>3. (\A c \in Calls : Asks(call'[c])) /\ Accounted(texts', shortfall')
  <2>1. ASSUME NEW c \in Calls, AsksOn(c), UNCHANGED <<texts, shortfall>>
        PROVE  (\A k \in Calls : Asks(call'[k])) /\ Accounted(texts', shortfall')
    BY <1>1, <2>1, AllAsk
  <2>2. ASSUME NEW c \in Calls,
               \/ \E i \in Identifiers : createContext(c, i)
               \/ ProfileHit(c) \/ ProfileMiss(c) \/ ReadLocal(c) \/ ReadBuiltIn(c) \/ buildProfile(c)
               \/ buildDisplayNameMap(c) \/ ListLocal(c) \/ AddNext(c) \/ LocalAdded(c) \/ ListBuiltIn(c) \/ MapBuilt(c)
               \/ ListingFails(c) \/ Lookup(c) \/ UnknownAgent(c)
               \/ findSimilarAgents(c) \/ CompareNext(c) \/ ContextCreated(c)
        PROVE  (\A k \in Calls : Asks(call'[k])) /\ Accounted(texts', shortfall')
    <3>1. UNCHANGED <<texts, shortfall>>
      BY <2>2 DEF createContext, ProfileHit, ProfileMiss, ReadLocal, ReadBuiltIn, buildProfile, buildDisplayNameMap, ListLocal, AddNext,
           LocalAdded, ListBuiltIn, MapBuilt, ListingFails, Lookup, UnknownAgent, findSimilarAgents, CompareNext, ContextCreated, manager
    <3>2. AsksOn(c)
      BY <1>1, <2>2, ProfilesAsk, MapAsks, OthersAsk
    <3> QED BY <2>1, <3>1, <3>2
  <2>3. ASSUME NEW c \in Calls, AbilityHit(c) \/ AbilityMiss(c) \/ ReadAbility(c)
        PROVE  (\A k \in Calls : Asks(call'[k])) /\ Accounted(texts', shortfall')
    BY <1>1, <2>3, AbilitiesAsk, AllAsk
  <2>4. CASE (\E a \in Abilities : ExpireAbility(a)) \/ CleanupAbilities
    <3>1. call' = call /\ shortfall' = shortfall
      BY <2>4 DEF ExpireAbility, CleanupAbilities
    <3>2. CASE \E a \in Abilities : ExpireAbility(a)
      <4>1. PICK a : texts' = AbilityCache!Expire(texts, a)
        BY <3>2 DEF ExpireAbility
      <4> QED BY <1>1, <3>1, <4>1, ExpireTexts
    <3>3. CASE CleanupAbilities
      <4>1. texts' = AbilityCache!Cleanup(texts)
        BY <3>3 DEF CleanupAbilities
      <4> QED BY <1>1, <3>1, <4>1, CleanupTexts
    <3> QED BY <2>4, <3>2, <3>3
  <2>5. CASE \/ \E n \in Names : ExpireProfile(n)
             \/ CleanupProfiles
             \/ \E x \in Commands :
                   \/ \E n \in Names : remove(x, n) \/ \E d \in DisplayNames : create(x, n, d)
                   \/ Checked(x) \/ Written(x) \/ Removed(x)
             \/ UNCHANGED profilesVars
    <3>1. call' = call /\ texts' = texts /\ shortfall' = shortfall
      BY <2>5 DEF ExpireProfile, CleanupProfiles, remove, create, Checked, Written, Removed, profilesVars, manager
    <3> QED BY <1>1, <3>1
  <2> QED BY <2>2, <2>3, <2>4, <2>5 DEF ProfilesNext
<1> QED BY <1>2, <1>3 DEF Accounting, Asks, Accounted

LEMMA AccountingStarts == ProfilesInit => Accounting
<1> SUFFICES ASSUME ProfilesInit PROVE Accounting
  OBVIOUS
<1>1. \A c \in Calls : Asks(call[c])
  <2>1. \A c \in Calls : call[c] = Idle
    BY DEF ProfilesInit
  <2>2. Idle.at = "idle"
    BY DEF Idle
  <2> QED BY <2>1, <2>2 DEF Asks
<1>2. PICK t : t = <<>> /\ t \in Seq(Texts) /\ DOMAIN t = {}
  <2>1. <<>> \in Seq(Texts) /\ DOMAIN <<>> = {}
    OBVIOUS
  <2> QED BY <2>1
<1>3. Apart(t)
  BY <1>2 DEF Apart
<1>4. AbilityCache!SizeOf(t) = 0
  <2>1. UnitsAt(t, DOMAIN t) = {}
    BY <1>2 DEF UnitsAt
  <2> QED BY <2>1, SizeIsWeight, FS_EmptySet DEF Weight
<1>5. texts = [entries |-> t, total |-> 0] /\ shortfall = 0
  BY <1>2 DEF ProfilesInit, AbilityCache!Empty
<1>6. 0 \in Int /\ 0 \in Nat /\ 0 + 0 = AbilityCache!SizeOf(t) /\ AbilityCache!SizeOf(t) <= MaxAbilitiesSize
  BY <1>4, SizesAssumption
<1>7. Accounted(texts, shortfall)
  BY <1>2, <1>3, <1>5, <1>6, AccountedAs
<1>8. MapMeant
  BY DEF ProfilesInit, MapMeant
<1> QED BY <1>1, <1>7, <1>8, LoadingStarts DEF Accounting

\* The ability cache counts the sizes of what it holds, but for entries that their own replacement evicted, and but for
\* these it keeps to its limit (cache.ts set, delete, evict), for any sizes, limits and numbers of calls.
THEOREM SizesAddUp == ProfilesSpec => []SizesCounted
<1>1. Accounting => SizesCounted
  BY DEF Accounting, Accounted, SizesCounted
<1> QED BY <1>1, AccountingStarts, AccountingStays, PTL DEF ProfilesSpec

-----------------------------------------------------------------------------
\* A set of numbers that has zero and the successors of its members has them all.
LEMMA AllNumbers ==
    ASSUME NEW S \in SUBSET Nat, 0 \in S, \A n \in S : n + 1 \in S
    PROVE  S = Nat
<1> SUFFICES ASSUME S # Nat PROVE FALSE
  OBVIOUS
<1>1. PICK T : T = Nat \ S
  OBVIOUS
<1>2. T \subseteq Nat /\ T # {}
  BY <1>1
<1>3. PICK n \in T : \A j \in T : ~(<<j, n>> \in OpToRel(<, Nat))
  BY <1>2, NatLessThanWellFounded, WFMin
<1>4. \A j \in T : ~(j < n)
  BY <1>2, <1>3 DEF OpToRel
<1>5. n \in Nat /\ n # 0 /\ n \notin S
  BY <1>1, <1>2
<1>6. n - 1 \in Nat /\ n - 1 < n /\ n - 1 + 1 = n
  BY <1>5
<1>7. n - 1 \in S
  BY <1>1, <1>4, <1>6
<1> QED BY <1>5, <1>6, <1>7

\* Sets whose members correspond have as many.
LEMMA AsMany ==
    ASSUME NEW S, NEW T, IsFiniteSet(S), NEW g \in [S -> T],
           \A y \in T : \E x \in S : g[x] = y, \A x, y \in S : g[x] = g[y] => x = y
    PROVE  Cardinality(S) = Cardinality(T)
<1>1. g \in Bijection(S, T)
  BY DEF Bijection, Injection, IsInjective, Surjection
<1> QED BY <1>1, FS_Bijection DEF ExistsBijection

\* The places of a sequence at which an agent is asked, or has a result for, something.
Places(s, a, t) == {i \in DOMAIN s : s[i].to = a /\ s[i].task = t}
Number(s, a, t) == Cardinality(Places(s, a, t))

LEMMA PlacesFinite ==
    ASSUME NEW V, NEW s \in Seq(V), NEW a, NEW t
    PROVE  IsFiniteSet(Places(s, a, t)) /\ Number(s, a, t) \in Nat
<1>1. PICK n \in Nat : n = Len(s) /\ DOMAIN s = 1..n
  BY LenProperties
<1>2. IsFiniteSet(1..n)
  <2>1. 1 \in Int /\ n \in Int
    OBVIOUS
  <2> QED BY <2>1, FS_Interval
<1>3. Places(s, a, t) \in SUBSET (1..n)
  BY <1>1 DEF Places
<1> QED BY <1>2, <1>3, FS_Subset, FS_CardinalityType DEF Number

\* What a choice of places leaves is at those places.
LEMMA OnlyPlaces ==
    ASSUME NEW V, NEW s \in Seq(V), NEW I \in SUBSET (DOMAIN s)
    PROVE  \E m \in Nat : \E f \in [1..m -> I] :
             /\ Only(s, I) = [j \in 1..m |-> s[f[j]]] /\ Only(s, I) \in Seq(V) /\ DOMAIN Only(s, I) = 1..m
             /\ \A i \in I : \E j \in 1..m : f[j] = i
             /\ \A j, k \in 1..m : f[j] = f[k] => j = k
<1>1. PICK n \in Nat : n = Len(s) /\ DOMAIN s = 1..n
  BY LenProperties
<1>2. PICK f : f = CHOOSE g \in UNION {[1..m -> I] : m \in 0..n} : Ascending(I, g)
  OBVIOUS
<1>3. \A g : Ascending(I, g) <=> ProfileCache!Ascending(I, g)
  BY Zenon DEF Ascending, ProfileCache!Ascending
<1>4. f \in UNION {[1..m -> I] : m \in 0..n} /\ Ascending(I, f)
  <2>1. \E g \in UNION {[1..m -> I] : m \in 0..n} : Ascending(I, g)
    BY <1>1, <1>3, Counted
  <2> QED BY <1>2, <2>1
<1>5. PICK m \in 0..n : f \in [1..m -> I]
  BY <1>4
<1>6. m \in Nat /\ DOMAIN f = 1..m /\ \A j \in 1..m : f[j] \in I /\ f[j] \in Nat
  BY <1>1, <1>5
<1>7. /\ \A i \in I : \E j \in 1..m : f[j] = i
      /\ \A j, k \in 1..m : f[j] = f[k] => j = k
  <2>1. (\A i \in I : \E j \in 1..m : f[j] = i) /\ \A j, k \in 1..m : j < k => f[j] < f[k]
    BY <1>4, <1>6 DEF Ascending
  <2>2. ASSUME NEW j \in 1..m, NEW k \in 1..m, f[j] = f[k] PROVE j = k
    BY <1>6, <2>1, <2>2, SMTT(30)
  <2> QED BY <2>1, <2>2
<1>8. PICK t : t = [j \in 1..m |-> s[f[j]]]
  OBVIOUS
<1>9. Only(s, I) = t
  BY <1>1, <1>2, <1>6, <1>8 DEF Only
<1>10. t \in Seq(V) /\ DOMAIN t = 1..m
  <2>1. \A i \in DOMAIN s : s[i] \in V
    BY <1>1, ElementOfSeq
  <2>2. t \in [1..m -> V]
    <3>1. ASSUME NEW j \in 1..m PROVE s[f[j]] \in V
      BY <1>6, <2>1
    <3> QED BY <1>8, <3>1
  <2> QED BY <1>6, <1>8, <2>2, SeqDef
<1>11. /\ Only(s, I) = [j \in 1..m |-> s[f[j]]] /\ Only(s, I) \in Seq(V) /\ DOMAIN Only(s, I) = 1..m
       /\ \A i \in I : \E j \in 1..m : f[j] = i
       /\ \A j, k \in 1..m : f[j] = f[k] => j = k
  BY <1>7, <1>8, <1>9, <1>10, Zenon
<1> QED BY <1>5, <1>6, <1>11, Zenon

\* Among the places that are chosen, those of a request are as many as in what is left.
LEMMA OnlyNumber ==
    ASSUME NEW V, NEW s \in Seq(V), NEW I \in SUBSET (DOMAIN s), NEW a, NEW t
    PROVE  Number(Only(s, I), a, t) = Cardinality({i \in I : s[i].to = a /\ s[i].task = t})
<1>1. PICK m \in Nat : \E f \in [1..m -> I] :
             /\ Only(s, I) = [j \in 1..m |-> s[f[j]]] /\ Only(s, I) \in Seq(V) /\ DOMAIN Only(s, I) = 1..m
             /\ \A i \in I : \E j \in 1..m : f[j] = i
             /\ \A j, k \in 1..m : f[j] = f[k] => j = k
  BY OnlyPlaces
<1>2. PICK f \in [1..m -> I] :
             /\ Only(s, I) = [j \in 1..m |-> s[f[j]]] /\ Only(s, I) \in Seq(V) /\ DOMAIN Only(s, I) = 1..m
             /\ \A i \in I : \E j \in 1..m : f[j] = i
             /\ \A j, k \in 1..m : f[j] = f[k] => j = k
  BY <1>1
<1>3. PICK o : o = Only(s, I)
  OBVIOUS
<1>4. o \in Seq(V) /\ DOMAIN o = 1..m /\ \A j \in 1..m : o[j] = s[f[j]]
  BY <1>2, <1>3
<1>5. PICK S, T : S = Places(o, a, t) /\ T = {i \in I : s[i].to = a /\ s[i].task = t}
  OBVIOUS
<1>6. PICK g : g = [j \in S |-> f[j]]
  OBVIOUS
<1>7. S = {j \in 1..m : s[f[j]].to = a /\ s[f[j]].task = t}
  BY <1>4, <1>5 DEF Places
<1>8. g \in [S -> T]
  BY <1>5, <1>6, <1>7
<1>9. \A i \in T : \E j \in S : g[j] = i
  BY <1>2, <1>5, <1>6, <1>7
<1>10. \A j, k \in S : g[j] = g[k] => j = k
  BY <1>2, <1>6, <1>7
<1>11. IsFiniteSet(S)
  BY <1>4, <1>5, PlacesFinite
<1>12. Cardinality(S) = Cardinality(T)
  BY <1>8, <1>9, <1>10, <1>11, AsMany
<1> QED BY <1>3, <1>5, <1>12 DEF Number

\* Joined sequences have what both have.
LEMMA NumberJoined ==
    ASSUME NEW V, NEW p \in Seq(V), NEW q \in Seq(V), NEW a, NEW t
    PROVE  p \o q \in Seq(V) /\ Number(p \o q, a, t) = Number(p, a, t) + Number(q, a, t)
<1>1. PICK m \in Nat, n \in Nat : m = Len(p) /\ DOMAIN p = 1..m /\ n = Len(q) /\ DOMAIN q = 1..n
  BY LenProperties
<1>2. PICK s : s = p \o q
  OBVIOUS
<1>3. /\ s \in Seq(V) /\ Len(s) = m + n
      /\ \A i \in 1..(m + n) : s[i] = IF i <= m THEN p[i] ELSE q[i - m]
  BY <1>1, <1>2, ConcatProperties
<1>4. DOMAIN s = 1..(m + n)
  BY <1>1, <1>3, LenProperties
<1>5. PICK P, Q, R : P = Places(p, a, t) /\ Q = Places(q, a, t) /\ R = Places(s, a, t) \ P
  OBVIOUS
<1>6. P \in SUBSET (1..m) /\ Q \in SUBSET (1..n)
  BY <1>1, <1>5 DEF Places
<1>7. P \in SUBSET Places(s, a, t)
  <2>1. ASSUME NEW i \in P PROVE i \in 1..(m + n) /\ s[i] = p[i]
    <3>1. i \in 1..m
      BY <1>6
    <3> QED BY <1>1, <1>3, <3>1
  <2>2. \A i \in P : p[i].to = a /\ p[i].task = t
    BY <1>5 DEF Places
  <2> QED BY <1>4, <2>1, <2>2 DEF Places
<1>8. \A i : i \in R <=> i \in (m + 1)..(m + n) /\ i - m \in Q
  <2>1. ASSUME NEW i \in R PROVE i \in (m + 1)..(m + n) /\ i - m \in Q
    <3>1. i \in 1..(m + n) /\ s[i].to = a /\ s[i].task = t /\ i \notin P
      BY <1>4, <1>5 DEF Places
    <3>2. i \notin 1..m
      <4> SUFFICES ASSUME i \in 1..m PROVE FALSE
        OBVIOUS
      <4>1. s[i] = p[i]
        BY <1>3, <3>1
      <4> QED BY <1>1, <1>5, <3>1, <4>1 DEF Places
    <3>3. i \in (m + 1)..(m + n) /\ i - m \in 1..n /\ s[i] = q[i - m]
      BY <1>1, <1>3, <3>1, <3>2
    <3> QED BY <1>1, <1>5, <3>1, <3>3 DEF Places
  <2>2. ASSUME NEW i \in (m + 1)..(m + n), i - m \in Q PROVE i \in R
    <3>1. i \in 1..(m + n) /\ s[i] = q[i - m] /\ i \notin 1..m
      BY <1>1, <1>3
    <3>2. q[i - m].to = a /\ q[i - m].task = t
      BY <1>5, <2>2 DEF Places
    <3> QED BY <1>4, <1>5, <1>6, <3>1, <3>2 DEF Places
  <2> QED BY <2>1, <2>2
<1>9. PICK g : g = [i \in R |-> i - m]
  OBVIOUS
<1>10. g \in [R -> Q] /\ (\A j \in Q : \E i \in R : g[i] = j) /\ \A i, j \in R : g[i] = g[j] => i = j
  <2>1. g \in [R -> Q]
    BY <1>8, <1>9
  <2>2. ASSUME NEW j \in Q PROVE j + m \in R /\ g[j + m] = j
    <3>1. j \in 1..n
      BY <1>6
    <3>2. PICK i : i = j + m /\ i \in (m + 1)..(m + n) /\ i - m = j
      BY <1>1, <3>1
    <3>3. i \in R
      BY <1>8, <3>2
    <3>4. g[i] = j
      BY <1>9, <3>2, <3>3
    <3> QED BY <3>2, <3>3, <3>4
  <2>3. \A i \in R : i \in Int
    BY <1>1, <1>8
  <2>4. \A i, j \in R : g[i] = g[j] => i = j
    BY <1>1, <1>9, <2>3
  <2> QED BY <2>1, <2>2, <2>4
<1>11. IsFiniteSet(Places(s, a, t)) /\ IsFiniteSet(P) /\ IsFiniteSet(R)
  BY <1>3, <1>5, PlacesFinite, FS_Subset
<1>12. Cardinality(R) = Cardinality(Q)
  BY <1>10, <1>11, AsMany
<1>13. Places(s, a, t) = P \union R /\ P \cap R = {}
  BY <1>5, <1>7
<1>14. PICK x \in Nat, y \in Nat : x = Cardinality(P) /\ y = Cardinality(R)
  BY <1>11, FS_CardinalityType
<1>15. Cardinality(P \union R) = x + y - 0
  BY <1>11, <1>13, <1>14, FS_Union, FS_EmptySet
<1>16. Number(s, a, t) = x + y - 0 /\ Number(p, a, t) = x /\ Number(q, a, t) = y
  BY <1>5, <1>12, <1>13, <1>14, <1>15, Zenon DEF Number
<1>17. x + y - 0 = x + y
  BY <1>14
<1> QED BY <1>2, <1>3, <1>16, <1>17, Zenon

\* What has been joined after each of the first k sequences.
Joins(F, k, ss) == \A i \in 1..k : F[i] = IF i = 1 THEN ss[i] ELSE F[i - 1] \o ss[i]

Flattens(F, n, ss) ==
    FlattenSeq(ss) = F[n] /\ F[1] = ss[1] /\ \A i \in 1..n : i # 1 => F[i] = F[i - 1] \o ss[i]

\* Sequences are joined one by one.
LEMMA Flattened ==
    ASSUME NEW V, NEW n \in Nat, NEW ss \in [1..n -> Seq(V)], n # 0
    PROVE  \E F \in [1..n -> Seq(V)] : Flattens(F, n, ss)
<1>1. PICK S : S = {k \in Nat : k <= n => \E F \in [1..k -> Seq(V)] : Joins(F, k, ss)}
  OBVIOUS
<1>2. 0 \in S
  <2>1. PICK F : F = [i \in 1..0 |-> <<>>]
    OBVIOUS
  <2>2. F \in [1..0 -> Seq(V)] /\ 1..0 = {}
    BY <2>1
  <2>3. Joins(F, 0, ss)
    BY <2>2 DEF Joins
  <2> QED BY <1>1, <2>2, <2>3
<1>3. ASSUME NEW k \in S PROVE k + 1 \in S
  <2>1. k \in Nat
    BY <1>1
  <2> SUFFICES ASSUME k + 1 <= n
               PROVE  \E F \in [1..(k + 1) -> Seq(V)] : Joins(F, k + 1, ss)
    BY <1>1, <2>1
  <2>2. PICK F \in [1..k -> Seq(V)] : Joins(F, k, ss)
    BY <1>1, <2>1
  <2>3. \A i \in 1..k : F[i] = IF i = 1 THEN ss[i] ELSE F[i - 1] \o ss[i]
    BY <2>2 DEF Joins
  <2>4. PICK l : l = IF k = 0 THEN ss[1] ELSE F[k] \o ss[k + 1]
    OBVIOUS
  <2>5. l \in Seq(V)
    <3>1. CASE k = 0
      BY <2>4, <3>1
    <3>2. CASE k # 0
      <4>1. k \in 1..k /\ k + 1 \in 1..n
        BY <2>1, <3>2
      <4>2. F[k] \in Seq(V) /\ ss[k + 1] \in Seq(V)
        BY <2>2, <4>1
      <4> QED BY <2>4, <3>2, <4>2, ConcatProperties
    <3> QED BY <3>1, <3>2
  <2>6. PICK H : H = [i \in 1..(k + 1) |-> IF i = k + 1 THEN l ELSE F[i]]
    OBVIOUS
  <2>7. \A i \in 1..(k + 1) : i = k + 1 \/ (i \in 1..k /\ i # k + 1)
    BY <2>1
  <2>8. H \in [1..(k + 1) -> Seq(V)]
    BY <2>2, <2>5, <2>6, <2>7
  <2>9. (\A i \in 1..k : H[i] = F[i]) /\ H[k + 1] = l
    BY <2>1, <2>6
  <2>10. ASSUME NEW i \in 1..(k + 1) PROVE H[i] = IF i = 1 THEN ss[i] ELSE H[i - 1] \o ss[i]
    <3>1. CASE i = k + 1 /\ k = 0
      BY <2>4, <2>9, <3>1
    <3>2. CASE i = k + 1 /\ k # 0
      <4>1. k \in 1..k /\ i - 1 = k /\ i # 1
        BY <2>1, <3>2
      <4> QED BY <2>4, <2>9, <3>2, <4>1
    <3>3. CASE i \in 1..k
      <4>1. F[i] = IF i = 1 THEN ss[i] ELSE F[i - 1] \o ss[i]
        BY <2>3, <3>3
      <4>2. i # 1 => H[i - 1] = F[i - 1]
        BY <2>1, <2>9, <3>3
      <4>3. H[i] = F[i]
        BY <2>9, <3>3
      <4> QED BY <4>1, <4>2, <4>3, Zenon
    <3> QED BY <2>7, <3>1, <3>2, <3>3
  <2>11. Joins(H, k + 1, ss)
    BY <2>10 DEF Joins
  <2> QED BY <2>8, <2>11
<1>4. S \in SUBSET Nat
  BY <1>1
<1>5. n \in S
  BY <1>2, <1>3, <1>4, AllNumbers
<1>6. PICK F \in [1..n -> Seq(V)] : Joins(F, n, ss)
  BY <1>1, <1>5
<1>7. \A i \in 1..n : F[i] = IF i = 1 THEN ss[i] ELSE F[i - 1] \o ss[i]
  BY <1>6 DEF Joins
<1>8. PICK D : D = CHOOSE f : f = [i \in 1..n |-> IF i = 1 THEN ss[i] ELSE f[i - 1] \o ss[i]]
  OBVIOUS
<1>9. F = [i \in 1..n |-> IF i = 1 THEN ss[i] ELSE F[i - 1] \o ss[i]]
  BY <1>6, <1>7
<1>10. D = [i \in 1..n |-> IF i = 1 THEN ss[i] ELSE D[i - 1] \o ss[i]]
  BY <1>8, <1>9
<1>11. \A i \in 1..n : D[i] = IF i = 1 THEN ss[i] ELSE D[i - 1] \o ss[i]
  BY <1>10
<1>12. D \in [1..n -> Seq(V)]
  <2>1. PICK U : U = {k \in Nat : k \in 1..n => D[k] = F[k]}
    OBVIOUS
  <2>2. 0 \in U
    BY <2>1
  <2>3. ASSUME NEW k \in U PROVE k + 1 \in U
    <3>1. k \in Nat
      BY <2>1
    <3> SUFFICES ASSUME k + 1 \in 1..n PROVE D[k + 1] = F[k + 1]
      BY <2>1, <3>1
    <3>2. CASE k = 0
      <4>1. k + 1 \in 1..n /\ k + 1 = 1
        BY <3>2
      <4> QED BY <1>7, <1>11, <4>1
    <3>3. CASE k # 0
      <4>1. PICK j \in 1..n : j = k + 1 /\ j - 1 = k /\ j # 1
        BY <3>1, <3>3
      <4>2. D[k] = F[k]
        <5>1. k \in 1..n
          BY <3>1, <3>3, <4>1
        <5> QED BY <2>1, <5>1
      <4>3. D[j] = D[j - 1] \o ss[j] /\ F[j] = F[j - 1] \o ss[j]
        BY <1>7, <1>11, <4>1, Zenon
      <4> QED BY <4>1, <4>2, <4>3, Zenon
    <3> QED BY <3>2, <3>3
  <2>4. U \in SUBSET Nat
    BY <2>1
  <2>5. U = Nat
    BY <2>2, <2>3, <2>4, AllNumbers
  <2>6. ASSUME NEW k \in 1..n PROVE D[k] = F[k]
    <3>1. k \in U
      BY <2>5
    <3> QED BY <2>1, <3>1
  <2>7. DOMAIN D = 1..n
    BY <1>10
  <2>8. D = F
    BY <1>6, <1>10, <2>6, <2>7, SMTT(30)
  <2> QED BY <1>6, <2>8
<1>13. FlattenSeq(ss) = D[n]
  <2>1. Len(ss) = n /\ ss \in Seq(Seq(V))
    BY SeqDef, LenProperties
  <2> QED BY <1>8, <2>1 DEF FlattenSeq
<1>14. D[1] = ss[1]
  <2>1. 1 \in 1..n
    OBVIOUS
  <2> QED BY <1>11, <2>1
<1>15. Flattens(D, n, ss)
  BY <1>13, <1>11, <1>14 DEF Flattens
<1> QED BY <1>12, <1>15, Zenon

\* The first mention of a name brings the results of all that the agent of that file was asked.
AtNodes(ss, asked, a, t) ==
    \A i \in DOMAIN asked :
      Number(ss[i], a, t) = IF IsNode(asked, i) /\ NameOf[asked[i].to] = a THEN Number(asked, a, t) ELSE 0

\* The results of the nodes of a graph together are those of what the agents were asked whose file some node has
\* its name from.
LEMMA NodesAnswer ==
    ASSUME NEW V, NEW asked \in Seq(Request), asked # <<>>, NEW ss \in [DOMAIN asked -> Seq(V)], NEW a, NEW t,
           AtNodes(ss, asked, a, t)
    PROVE  FlattenSeq(ss) \in Seq(V) /\ Number(FlattenSeq(ss), a, t) = IF a \in Nodes(asked) THEN Number(asked, a, t) ELSE 0
<1>1. PICK n \in Nat : n = Len(asked) /\ DOMAIN asked = 1..n
  BY LenProperties
<1>2. n # 0
  BY <1>1
<1>3. PICK c \in Nat : c = Number(asked, a, t)
  BY PlacesFinite
<1>4. ss \in [1..n -> Seq(V)]
  BY <1>1
<1>5. PICK F \in [1..n -> Seq(V)] : Flattens(F, n, ss)
  BY <1>2, <1>4, Flattened, Zenon
<1>6. FlattenSeq(ss) = F[n] /\ F[1] = ss[1] /\ \A i \in 1..n : i # 1 => F[i] = F[i - 1] \o ss[i]
  BY <1>5 DEF Flattens
<1>7. PICK M : M = {k \in Nat : \E j \in 1..k : NameOf[asked[j].to] = a}
  OBVIOUS
<1>8. PICK S : S = {k \in Nat : k \in 1..n => Number(F[k], a, t) = IF k \in M THEN c ELSE 0}
  OBVIOUS
<1>9. ASSUME NEW k \in Nat, k + 1 \in 1..n
      PROVE  /\ k + 1 \in M <=> k \in M \/ NameOf[asked[k + 1].to] = a
             /\ Number(ss[k + 1], a, t) = IF k \notin M /\ NameOf[asked[k + 1].to] = a THEN c ELSE 0
  <2>1. \A j : j \in 1..(k + 1) <=> j \in 1..k \/ j = k + 1
    OBVIOUS
  <2>2. (k \in M <=> \E j \in 1..k : NameOf[asked[j].to] = a) /\ (k + 1 \in M <=> \E j \in 1..(k + 1) : NameOf[asked[j].to] = a)
    <3>1. k + 1 \in Nat
      OBVIOUS
    <3> QED BY <1>7, <3>1
  <2>3. NameOf[asked[k + 1].to] = a => (IsNode(asked, k + 1) <=> k \notin M)
    <3>1. k + 1 - 1 = k
      OBVIOUS
    <3>2. IsNode(asked, k + 1) <=> \A j \in 1..k : NameOf[asked[j].to] # NameOf[asked[k + 1].to]
      <4>1. PICK i : i = k + 1 /\ i - 1 = k
        BY <3>1
      <4>2. IsNode(asked, i) <=> \A j \in 1..k : NameOf[asked[j].to] # NameOf[asked[i].to]
        BY <4>1 DEF IsNode
      <4> QED BY <4>1, <4>2
    <3> QED BY <2>2, <3>2, Zenon
  <2>4. Number(ss[k + 1], a, t) = IF IsNode(asked, k + 1) /\ NameOf[asked[k + 1].to] = a THEN c ELSE 0
    BY <1>1, <1>3, <1>9 DEF AtNodes
  <2>5. k + 1 \in M <=> k \in M \/ NameOf[asked[k + 1].to] = a
    BY <2>1, <2>2, Zenon
  <2> QED BY <2>3, <2>4, <2>5, Zenon
<1>10. 0 \in S
  BY <1>8
<1>11. ASSUME NEW k \in S PROVE k + 1 \in S
  <2>1. k \in Nat
    BY <1>8
  <2> SUFFICES ASSUME k + 1 \in 1..n PROVE Number(F[k + 1], a, t) = IF k + 1 \in M THEN c ELSE 0
    BY <1>8, <2>1
  <2>2. CASE k = 0
    <3>1. k + 1 = 1 /\ k \notin M
      BY <1>7, <2>2
    <3>2. F[k + 1] = ss[k + 1]
      BY <1>6, <3>1
    <3> QED BY <1>9, <2>1, <3>1, <3>2, Zenon
  <2>3. CASE k # 0
    <3>1. k \in 1..n /\ k + 1 - 1 = k /\ k + 1 # 1
      BY <2>1, <2>3
    <3>2. F[k + 1] = F[k] \o ss[k + 1] /\ F[k] \in Seq(V) /\ ss[k + 1] \in Seq(V)
      BY <1>4, <1>6, <3>1, SMTT(30)
    <3>3. PICK p, q, x, y : p = F[k] /\ q = ss[k + 1] /\ x = Number(p, a, t) /\ y = Number(q, a, t)
      OBVIOUS
    <3>4. p \in Seq(V) /\ q \in Seq(V) /\ F[k + 1] = p \o q
      BY <3>2, <3>3
    <3>5. Number(p \o q, a, t) = Number(p, a, t) + Number(q, a, t)
      BY <3>4, NumberJoined
    <3>6. x = Number(F[k], a, t) /\ y = Number(ss[k + 1], a, t) /\ Number(F[k + 1], a, t) = x + y
      BY <3>4, <3>3, <3>5, Zenon
    <3>7. x = IF k \in M THEN c ELSE 0
      BY <1>8, <3>1, <3>6
    <3>8. y = IF k \notin M /\ NameOf[asked[k + 1].to] = a THEN c ELSE 0
      BY <1>9, <2>1, <3>6, Zenon
    <3>9. k + 1 \in M <=> k \in M \/ NameOf[asked[k + 1].to] = a
      BY <1>9, <2>1
    <3>10. x + y = IF k + 1 \in M THEN c ELSE 0
      BY <3>7, <3>8, <3>9
    <3> QED BY <3>6, <3>10, Zenon
  <2> QED BY <2>2, <2>3
<1>12. n \in S
  <2>1. S \in SUBSET Nat
    BY <1>8
  <2> QED BY <1>10, <1>11, <2>1, AllNumbers
<1>13. Number(F[n], a, t) = IF n \in M THEN c ELSE 0
  <2>1. n \in 1..n
    BY <1>2
  <2> QED BY <1>8, <1>12, <2>1, Zenon
<1>14. n \in M <=> a \in Nodes(asked)
  <2>1. n \in M <=> \E j \in 1..n : NameOf[asked[j].to] = a
    BY <1>7
  <2>2. a \in Nodes(asked) <=> \E j \in 1..n : NameOf[asked[j].to] = a
    BY <1>1 DEF Nodes
  <2> QED BY <2>1, <2>2
<1>15. F[n] \in Seq(V)
  BY <1>2, <1>5
<1> QED BY <1>3, <1>6, <1>13, <1>14, <1>15, Zenon

\* The results so far are those of the first requests, in their order.
Matching(asked, results) ==
    \A i \in 1 .. Len(results) : results[i].to = asked[i].to /\ results[i].task = asked[i].task

\* As many results as requests, but none, on the parallel path, for an agent whose file no node has its name from.
SameNumbers(asked, results, parallel) ==
    \A a \in Agents, t \in Tasks :
        Number(results, a, t) = IF parallel /\ a \notin Nodes(asked) THEN 0 ELSE Number(asked, a, t)

\* Does the i-th run take the parallel path, with the options o of the user's?
OnPath(o, i, asked) == i # 1 \/ o = "parallel" \/ (o = "several" /\ Len(asked) > 1)

\* How far a run is with its requests, by where it is.
FullOf(way, asked, results, parallel) ==
    /\ asked \in Seq(Request)
    /\ way \in {"preparing", "asking"} => asked = <<>> /\ results = <<>>
    /\ way = "sequential" => ~parallel /\ Len(results) <= Len(asked) /\ Matching(asked, results)
    /\ way = "parallel" => parallel /\ asked # <<>>
    /\ way = "done" => SameNumbers(asked, results, parallel)

\* A run that waits for another one has a request left.
AllFull ==
    /\ \A i \in 1 .. Len(stack) : FullOf(stack[i].way, stack[i].asked, stack[i].results, OnPath(option, i, stack[i].asked))
    /\ \A i \in 1 .. Len(stack) : i < Len(stack) => Len(stack[i].results) < Len(stack[i].asked)

\* The path the top run takes.
LEMMA TopPath ==
    ASSUME NEW asked
    PROVE  OnPath(option, Len(stack), asked) <=> TakesParallelPath(asked)
BY DEF OnPath, TakesParallelPath, OptionOf

\* parse keeps requests to agents.
LEMMA ParsedAre ==
    ASSUME NEW mentions \in Mentions, NEW from
    PROVE  Parse(mentions, from) \in Seq(Request)
<1>1. PICK I : I = {i \in DOMAIN mentions : AsksAnAgent(mentions[i]) /\ mentions[i].to # from}
  OBVIOUS
<1>2. PICK W : W = [to : Agents \cup Strangers, task : Tasks]
  OBVIOUS
<1>3. PICK m \in Nat : mentions \in [1..m -> W]
  BY <1>2 DEF Mentions, BoundedSeq, SeqOf
<1>4. mentions \in Seq(W) /\ DOMAIN mentions = 1..m
  BY <1>3, SeqDef
<1>5. I \in SUBSET (DOMAIN mentions)
  BY <1>1
<1>6. PICK l \in Nat : \E f \in [1..l -> I] : Only(mentions, I) = [j \in 1..l |-> mentions[f[j]]]
  BY <1>4, <1>5, OnlyPlaces, SMTT(30)
<1>7. PICK f \in [1..l -> I] : Only(mentions, I) = [j \in 1..l |-> mentions[f[j]]]
  BY <1>6
<1>8. ASSUME NEW i \in I PROVE mentions[i] \in Request
  <2>1. mentions[i] \in W /\ mentions[i].to \notin Strangers
    BY <1>1, <1>3 DEF AsksAnAgent
  <2> QED BY <1>2, <2>1 DEF Request
<1>9. [j \in 1..l |-> mentions[f[j]]] \in [1..l -> Request]
  <2>1. \A j \in 1..l : f[j] \in I
    BY <1>7
  <2> QED BY <1>8, <2>1
<1>10. Only(mentions, I) \in Seq(Request)
  BY <1>7, <1>9, SeqDef
<1> QED BY <1>1, <1>10 DEF Parse

LEMMA OfSeq ==
    ASSUME NEW V
    PROVE  <<>> \in Seq(V) /\ \A n \in Nat : \A r \in [1..n -> V] : r \in Seq(V)
BY SeqDef

\* What an agent was asked is as much as the whole has for it.
LEMMA Owned ==
    ASSUME NEW asked \in Seq(Request), NEW x, NEW t
    PROVE  /\ Own(asked, x) \in Seq(Request)
           /\ \A j \in DOMAIN Own(asked, x) : Own(asked, x)[j].to = x
           /\ Number(Own(asked, x), x, t) = Number(asked, x, t)
<1>1. PICK I : I = {i \in DOMAIN asked : asked[i].to = x}
  OBVIOUS
<1>2. I \in SUBSET (DOMAIN asked) /\ Own(asked, x) = Only(asked, I)
  BY <1>1 DEF Own
<1>3. PICK m \in Nat : \E f \in [1..m -> I] :
        Only(asked, I) = [j \in 1..m |-> asked[f[j]]] /\ Only(asked, I) \in Seq(Request) /\ DOMAIN Only(asked, I) = 1..m
  BY <1>2, OnlyPlaces
<1>4. PICK f \in [1..m -> I] :
        Only(asked, I) = [j \in 1..m |-> asked[f[j]]] /\ Only(asked, I) \in Seq(Request) /\ DOMAIN Only(asked, I) = 1..m
  BY <1>3
<1>5. \A j \in 1..m : Only(asked, I)[j].to = x
  BY <1>1, <1>4
<1>6. {i \in I : asked[i].to = x /\ asked[i].task = t} = Places(asked, x, t)
  BY <1>1 DEF Places
<1>7. Number(Only(asked, I), x, t) = Cardinality({i \in I : asked[i].to = x /\ asked[i].task = t})
  BY <1>2, OnlyNumber
<1> QED BY <1>2, <1>4, <1>5, <1>6, <1>7 DEF Number

ResultsIn(task) == [to : Titles, task : Tasks, ok : BOOLEAN, ran : {task}]

\* An agent of a graph answers what it was asked, and nothing else.
LEMMA AgentAnswers ==
    ASSUME NEW asked \in Seq(Request), Top.asked = asked, NEW x \in Titles, NEW a, NEW t
    PROVE  ResultsOf(x) \in Seq(ResultsIn(Top.task)) /\ Number(ResultsOf(x), a, t) = IF x = a THEN Number(asked, a, t) ELSE 0
<1>1. PICK own, ok : own = Own(asked, x) /\ ok = (status[x] = "completed")
  OBVIOUS
<1>2. own \in Seq(Request) /\ (\A j \in DOMAIN own : own[j].to = x) /\ Number(own, x, t) = Number(asked, x, t)
  BY <1>1, Owned
<1>3. PICK r : r = [i \in DOMAIN own |-> [to |-> x, task |-> own[i].task, ok |-> ok, ran |-> Top.task]]
  OBVIOUS
<1>4. r = ResultsOf(x)
  BY <1>1, <1>3 DEF ResultsOf
<1>5. PICK n \in Nat : DOMAIN own = 1..n /\ DOMAIN r = 1..n
  BY <1>2, <1>3, LenProperties
<1>6. \A i \in 1..n : r[i].to = x /\ r[i].task = own[i].task
  BY <1>3, <1>5
<1>7. r \in Seq(ResultsIn(Top.task))
  <2>1. ok \in BOOLEAN
    BY <1>1
  <2>2. ASSUME NEW i \in 1..n PROVE r[i] \in ResultsIn(Top.task)
    <3>1. own[i] \in Request
      BY <1>2, <1>5
    <3>2. own[i].task \in Tasks
      BY <3>1 DEF Request
    <3>3. r[i] = [to |-> x, task |-> own[i].task, ok |-> ok, ran |-> Top.task]
      BY <1>3, <1>5
    <3> QED BY <2>1, <3>2, <3>3 DEF ResultsIn
  <2>3. r \in [1..n -> ResultsIn(Top.task)]
    BY <1>3, <1>5, <2>2
  <2> QED BY <2>3, OfSeq, Zenon
<1>8. x = a => Places(r, a, t) = Places(own, a, t)
  BY <1>2, <1>5, <1>6 DEF Places
<1>9. x # a => Places(r, a, t) = {}
  BY <1>5, <1>6 DEF Places
<1>10. Number(r, a, t) = IF x = a THEN Number(asked, a, t) ELSE 0
  BY <1>2, <1>8, <1>9, FS_EmptySet DEF Number
<1> QED BY <1>4, <1>7, <1>10

OfNodes(ss, asked) == ss = [i \in DOMAIN asked |-> IF IsNode(asked, i) THEN ResultsOf(NameOf[asked[i].to]) ELSE <<>>]

\* The results of a graph are those of what its run has asked for.
LEMMA GraphAnswers ==
    ASSUME NEW asked \in Seq(Request), asked # <<>>, Top.asked = asked, NEW ss, OfNodes(ss, asked)
    PROVE  SameNumbers(asked, FlattenSeq(ss), TRUE)
<1> SUFFICES ASSUME NEW a \in Agents, NEW t \in Tasks
             PROVE  Number(FlattenSeq(ss), a, t) = IF a \notin Nodes(asked) THEN 0 ELSE Number(asked, a, t)
  BY DEF SameNumbers
<1>1. PICK V : V = ResultsIn(Top.task)
  OBVIOUS
<1>2. <<>> \in Seq(V) /\ Number(<<>>, a, t) = 0
  <2>1. Places(<<>>, a, t) = {}
    BY DEF Places
  <2>2. Number(<<>>, a, t) = 0
    BY <2>1, FS_EmptySet DEF Number
  <2> QED BY <2>2, OfSeq, Zenon
<1>3. ASSUME NEW i \in DOMAIN asked
      PROVE  /\ ss[i] \in Seq(V)
             /\ Number(ss[i], a, t) = IF IsNode(asked, i) /\ NameOf[asked[i].to] = a THEN Number(asked, a, t) ELSE 0
  <2>1. asked[i] \in Request
    OBVIOUS
  <2>2. PICK x : x = NameOf[asked[i].to] /\ x \in Titles
    <3>1. asked[i].to \in Agents
      BY <2>1 DEF Request
    <3> QED BY <3>1, DelegationAssumption DEF Titles
  <2>3. ResultsOf(x) \in Seq(V) /\ Number(ResultsOf(x), a, t) = IF x = a THEN Number(asked, a, t) ELSE 0
    BY <1>1, <2>2, AgentAnswers
  <2>4. ss[i] = IF IsNode(asked, i) THEN ResultsOf(x) ELSE <<>>
    BY <2>2 DEF OfNodes
  <2> QED BY <1>2, <2>2, <2>3, <2>4, Zenon
<1>4. ss \in [DOMAIN asked -> Seq(V)]
  BY <1>3 DEF OfNodes
<1>5. AtNodes(ss, asked, a, t)
  BY <1>3 DEF AtNodes
<1> QED BY <1>4, <1>5, NodesAnswer, SMTT(30)

-----------------------------------------------------------------------------
\* One more result, for the request a run is at.
LEMMA OneMore ==
    ASSUME NEW A, NEW asked \in Seq(Request), NEW results \in Seq(A), Len(results) < Len(asked),
           Matching(asked, results), NEW answer,
           answer.to = asked[Len(results) + 1].to, answer.task = asked[Len(results) + 1].task
    PROVE  /\ Len(Append(results, answer)) <= Len(asked)
           /\ Matching(asked, Append(results, answer))
<1>1. PICK m \in Nat, n \in Nat : m = Len(results) /\ n = Len(asked) /\ m < n
  <2>1. Len(results) \in Nat /\ Len(asked) \in Nat
    BY LenProperties
  <2> QED BY <2>1
<1>2. PICK s : s = Append(results, answer)
  OBVIOUS
<1>3. results \in Seq(A \union {answer})
  OBVIOUS
<1>4. Len(s) = m + 1 /\ s[m + 1] = answer /\ \A i \in 1..m : s[i] = results[i]
  BY <1>1, <1>2, <1>3, AppendProperties
<1>5. ASSUME NEW i \in 1..(m + 1) PROVE s[i].to = asked[i].to /\ s[i].task = asked[i].task
  <2>1. CASE i = m + 1
    BY <1>1, <1>4, <2>1
  <2>2. CASE i \in 1..m
    BY <1>1, <1>4, <2>2 DEF Matching
  <2> QED BY <1>1, <2>1, <2>2
<1>6. Matching(asked, s) /\ Len(s) <= Len(asked)
  BY <1>1, <1>4, <1>5 DEF Matching
<1> QED BY <1>2, <1>6

\* All requests have a result, in their order.
LEMMA AllMatched ==
    ASSUME NEW A, NEW asked \in Seq(Request), NEW results \in Seq(A), Len(results) = Len(asked),
           Matching(asked, results)
    PROVE  SameNumbers(asked, results, FALSE)
<1>1. DOMAIN asked = DOMAIN results /\ DOMAIN asked = 1 .. Len(results)
  BY LenProperties
<1>2. ASSUME NEW a, NEW t PROVE Places(asked, a, t) = Places(results, a, t)
  BY <1>1 DEF Places, Matching
<1> QED BY <1>2, Zenon DEF SameNumbers, Number

\* The top run changes: the others stay as they were.
LEMMA TopFull ==
    ASSUME Stacked, AllFull, stack # <<>>, NEW way, NEW asked, NEW results,
           FullOf(way, asked, results, OnPath(option, Len(stack), asked)), option' = option,
           stack' = WithTop([Top EXCEPT !.way = way, !.asked = asked, !.results = results])
    PROVE  AllFull'
<1>1. PICK A : StackOf(A)
  BY DEF Stacked
<1>2. PICK n \in Nat : n = Len(stack) /\ n >= 1 /\ Top \in RunOf(A) /\ stack \in Seq(RunOf(A))
  BY <1>1, TopIsRun DEF StackOf
<1>3. PICK run : run = [Top EXCEPT !.way = way, !.asked = asked, !.results = results]
  OBVIOUS
<1>4. run.way = way /\ run.asked = asked /\ run.results = results
  BY <1>2, <1>3 DEF RunOf
<1>5. FullOf(run.way, run.asked, run.results, OnPath(option, n, run.asked))
  BY <1>2, <1>4, Zenon
<1>6. Len(stack') = n /\ stack'[n] = run /\ \A i \in 1..n : i # n => stack'[i] = stack[i]
  <2>1. PICK B : B = RunOf(A) \union {run}
    OBVIOUS
  <2>2. stack \in Seq(B) /\ run \in B
    BY <1>2, <2>1
  <2>3. stack' = [stack EXCEPT ![n] = run]
    BY <1>2, <1>3 DEF WithTop
  <2> QED BY <1>2, <2>2, <2>3
<1>7. ASSUME NEW i \in 1..n PROVE FullOf(stack'[i].way, stack'[i].asked, stack'[i].results, OnPath(option, i, stack'[i].asked))
  <2>1. CASE i = n
    BY <1>5, <1>6, <2>1, Zenon
  <2>2. CASE i # n
    <3>1. stack'[i] = stack[i]
      BY <1>6, <2>2
    <3>2. FullOf(stack[i].way, stack[i].asked, stack[i].results, OnPath(option, i, stack[i].asked))
      BY <1>2 DEF AllFull
    <3> QED BY <3>1, <3>2, Zenon
  <2> QED BY <2>1, <2>2
<1>8. ASSUME NEW i \in 1..n, i < n PROVE Len(stack'[i].results) < Len(stack'[i].asked)
  <2>1. stack'[i] = stack[i]
    BY <1>2, <1>6, <1>8
  <2>2. Len(stack[i].results) < Len(stack[i].asked)
    BY <1>2, <1>8 DEF AllFull
  <2> QED BY <2>1, <2>2
<1> QED BY <1>6, <1>7, <1>8 DEF AllFull, FullOf, Matching, SameNumbers, OnPath, Nodes

\* A run ends: that is a result for the request which the one below was at.
LEMMA EndedFull ==
    ASSUME Stacked, AllFull, stack # <<>>, NEW ok, EndRun(ok), option' = option
    PROVE  AllFull'
<1>1. PICK A : StackOf(A)
  BY DEF Stacked
<1>2. Len(stack) \in Nat /\ Len(stack) >= 1 /\ stack \in Seq(RunOf(A))
  BY <1>1, TopIsRun DEF StackOf
<1>3. CASE Len(stack) = 1
  <2>1. stack' = <<>>
    BY <1>2, <1>3 DEF EndRun
  <2> QED BY <2>1 DEF AllFull
<1>4. CASE Len(stack) > 1
  <2>1. PICK n \in Nat : n = Len(stack) - 1 /\ n >= 1 /\ n \in 1 .. Len(stack) /\ n < Len(stack)
    BY <1>2, <1>4, SMTT(30)
  <2>2. PICK run, answer, list, ended :
        /\ run = stack[n]
        /\ answer = [to |-> NextAsked(run).to, task |-> NextAsked(run).task, ok |-> ok, ran |-> Top.task]
        /\ list = Append(run.results, answer)
        /\ ended = [run EXCEPT !.results = list]
    OBVIOUS
  <2>3. run \in RunOf(A) /\ run.way = "sequential" /\ run.results \in Seq(A)
    BY <1>1, <1>2, <2>1, <2>2 DEF StackOf, Listed
  <2>4. /\ FullOf(run.way, run.asked, run.results, OnPath(option, n, run.asked))
        /\ Len(run.results) < Len(run.asked)
    BY <1>2, <2>1, <2>2 DEF AllFull
  <2>5. run.asked \in Seq(Request) /\ Matching(run.asked, run.results)
    BY <2>3, <2>4 DEF FullOf
  <2>6. answer.to = run.asked[Len(run.results) + 1].to /\ answer.task = run.asked[Len(run.results) + 1].task
    BY <2>2 DEF NextAsked
  <2>7. Len(list) <= Len(run.asked) /\ Matching(run.asked, list)
    BY <2>2, <2>3, <2>4, <2>5, <2>6, OneMore
  <2>8. ended.way = run.way /\ ended.asked = run.asked /\ ended.results = list
    BY <2>2, <2>3 DEF RunOf
  <2>9. FullOf(ended.way, ended.asked, ended.results, OnPath(option, n, ended.asked))
    BY <2>3, <2>4, <2>5, <2>7, <2>8 DEF FullOf
  <2>10. Below \in Seq(RunOf(A)) /\ Len(Below) = n /\ \A i \in 1 .. n : Below[i] = stack[i]
    BY <1>2, <2>1, SubSeqProperties DEF Below
  <2>11. stack' = [Below EXCEPT ![n] = ended]
    <3>1. stack' = [Below EXCEPT ![n] = AnsweredBy(Below[n], ok, Top.task)]
      BY <1>4, <2>10 DEF EndRun
    <3>2. Below[n] = run
      BY <2>1, <2>2, <2>10
    <3>3. AnsweredBy(run, ok, Top.task) = ended
      BY <2>2 DEF AnsweredBy
    <3> QED BY <3>1, <3>2, <3>3
  <2>12. Len(stack') = n /\ stack'[n] = ended /\ \A i \in 1..n : i # n => stack'[i] = stack[i]
    <3>1. PICK B, below : B = RunOf(A) \union {ended} /\ below = Below
      OBVIOUS
    <3>2. below \in Seq(B) /\ ended \in B /\ Len(below) = n /\ \A i \in 1 .. n : below[i] = stack[i]
      BY <2>10, <3>1
    <3>3. stack' = [below EXCEPT ![n] = ended]
      BY <2>11, <3>1
    <3> QED BY <2>1, <3>2, <3>3
  <2>13. ASSUME NEW i \in 1..n PROVE FullOf(stack'[i].way, stack'[i].asked, stack'[i].results, OnPath(option, i, stack'[i].asked))
    <3>1. CASE i = n
      BY <2>9, <2>12, <3>1, Zenon
    <3>2. CASE i # n
      <4>1. stack'[i] = stack[i]
        BY <2>12, <3>2
      <4>2. i \in 1 .. Len(stack)
        BY <1>2, <2>1
      <4>3. FullOf(stack[i].way, stack[i].asked, stack[i].results, OnPath(option, i, stack[i].asked))
        BY <4>2 DEF AllFull
      <4> QED BY <4>1, <4>3, Zenon
    <3> QED BY <3>1, <3>2
  <2>14. ASSUME NEW i \in 1..n, i < n PROVE Len(stack'[i].results) < Len(stack'[i].asked)
    <3>1. stack'[i] = stack[i]
      BY <2>1, <2>12, <2>14
    <3>2. i \in 1 .. Len(stack) /\ i < Len(stack)
      BY <1>2, <2>1
    <3>3. Len(stack[i].results) < Len(stack[i].asked)
      BY <3>2 DEF AllFull
    <3> QED BY <3>1, <3>3
  <2> QED BY <2>12, <2>13, <2>14 DEF AllFull, FullOf, Matching, SameNumbers, OnPath, Nodes
<1>5. Len(stack) = 1 \/ Len(stack) > 1
  <2>1. PICK l \in Nat : l = Len(stack) /\ l >= 1
    BY <1>2
  <2>2. l = 1 \/ l > 1
    BY <2>1
  <2> QED BY <2>1, <2>2, Zenon
<1> QED BY <1>3, <1>4, <1>5

LEMMA InitFull == Init => AllFull
<1> SUFFICES ASSUME Init PROVE AllFull
  OBVIOUS
<1>1. PICK a \in Agents, s \in {0, 1} : stack = <<NewRun(a, UserTask, <<>>, s, "preparing")>>
  BY DEF Init
<1>2. stack[1].way = "preparing" /\ stack[1].asked = <<>> /\ stack[1].results = <<>> /\ Len(stack) = 1
  BY <1>1 DEF NewRun
<1>3. <<>> \in Seq(Request)
  OBVIOUS
<1>4. FullOf("preparing", <<>>, <<>>, OnPath(option, 1, <<>>))
  BY <1>3 DEF FullOf
<1> QED BY <1>2, <1>4 DEF AllFull

\* The run of a delegation has asked nothing yet.
LEMMA DelegatedFull ==
    ASSUME Stacked, AllFull, Delegate
    PROVE  AllFull'
<1>1. PICK A : StackOf(A)
  BY DEF Stacked
<1>2. stack # <<>> /\ Len(Top.results) < Len(Top.asked)
  BY DEF Delegate, Delegating, On
<1>3. PICK n \in Nat : n = Len(stack) /\ n >= 1 /\ stack \in Seq(RunOf(A))
  BY <1>1, <1>2, TopIsRun DEF StackOf
<1>4. PICK run : stack' = Append(stack, run) /\ run.way = "preparing" /\ run.asked = <<>> /\ run.results = <<>>
  <2>1. PICK run : run = NewRun(NextAsked(Top).to, NextAsked(Top).task, Append(Top.chain, NameOf[Top.agent]),
                                IF Top.session > 0 THEN Top.session ELSE Len(sessions) + 1, "preparing")
    OBVIOUS
  <2>2. run.way = "preparing" /\ run.asked = <<>> /\ run.results = <<>>
    BY <2>1 DEF NewRun
  <2>3. stack' = Append(stack, run)
    BY <2>1 DEF Delegate
  <2> QED BY <2>2, <2>3
<1>5. Len(stack') = n + 1 /\ stack'[n + 1] = run /\ \A i \in 1..n : stack'[i] = stack[i]
  <2>1. PICK B : B = RunOf(A) \union {run}
    OBVIOUS
  <2>2. stack \in Seq(B) /\ run \in B
    BY <1>3, <2>1
  <2> QED BY <1>3, <1>4, <2>2, AppendProperties
<1>6. FullOf("preparing", <<>>, <<>>, OnPath(option, n + 1, <<>>))
  <2>1. <<>> \in Seq(Request)
    OBVIOUS
  <2> QED BY <2>1 DEF FullOf
<1>7. ASSUME NEW i \in 1..(n + 1) PROVE FullOf(stack'[i].way, stack'[i].asked, stack'[i].results, OnPath(option, i, stack'[i].asked))
  <2>1. CASE i = n + 1
    BY <1>4, <1>5, <1>6, <2>1, Zenon
  <2>2. CASE i # n + 1
    <3>1. i \in 1..n
      BY <1>3, <2>2
    <3>2. stack'[i] = stack[i] /\ FullOf(stack[i].way, stack[i].asked, stack[i].results, OnPath(option, i, stack[i].asked))
      BY <1>3, <1>5, <3>1 DEF AllFull
    <3> QED BY <3>2, Zenon
  <2> QED BY <2>1, <2>2
<1>8. ASSUME NEW i \in 1..(n + 1), i < n + 1 PROVE Len(stack'[i].results) < Len(stack'[i].asked)
  <2>1. i \in 1..n /\ stack'[i] = stack[i]
    BY <1>3, <1>5, <1>8
  <2>2. Len(stack[i].results) < Len(stack[i].asked)
    <3>1. CASE i = n
      BY <1>2, <1>3, <3>1 DEF Top
    <3>2. CASE i # n
      <4>1. i < n
        BY <1>3, <2>1, <3>2
      <4> QED BY <1>3, <2>1, <4>1 DEF AllFull
    <3> QED BY <3>1, <3>2
  <2> QED BY <2>1, <2>2
<1>9. option' = option
  BY DEF Delegate
<1> QED BY <1>5, <1>7, <1>8, <1>9 DEF AllFull, FullOf, Matching, SameNumbers, OnPath, Nodes

LEMMA NextFull == Stacked /\ AllFull /\ [Next]_vars => AllFull'
<1> SUFFICES ASSUME Stacked, AllFull, [Next]_vars PROVE AllFull'
  OBVIOUS
<1>1. PICK A : StackOf(A)
  BY DEF Stacked
<1>2. ASSUME stack # <<>>
      PROVE  Top \in RunOf(A) /\ Listed(Top, A) /\ FullOf(Top.way, Top.asked, Top.results, OnPath(option, Len(stack), Top.asked))
  <2>1. Len(stack) \in 1 .. Len(stack) /\ Top \in RunOf(A) /\ Listed(Top, A)
    BY <1>1, <1>2, TopIsRun
  <2> QED BY <2>1 DEF AllFull, Top
<1>0. option' = option
  BY DEF Next, RunStep, Respond, CallFails, RunEnds, Delegate, Refuse, StartRun, StartFails, NotFound, SequenceEnds,
         GraphStep, GraphEnds, CommandStep, SaveResult, CleanUp, DisplayError, Timeout, SessionChanges, Done, vars
<1>3. ASSUME stack' = stack PROVE AllFull'
  BY <1>0, <1>3 DEF AllFull, FullOf, Matching, SameNumbers, OnPath, Nodes
<1>4. ASSUME NEW mentions \in Mentions, Respond(mentions) PROVE AllFull'
  <2>1. stack # <<>> /\ Top.way = "asking"
    BY <1>4 DEF Respond, On
  <2>2. PICK asked : asked = Parse(mentions, NameOf[Top.agent]) /\ asked \in Seq(Request)
    BY ParsedAre
  <2>3. Top.asked = <<>> /\ Top.results = <<>> /\ Top \in RunOf(A)
    BY <1>2, <2>1 DEF FullOf
  <2>4. CASE stack' = WithTop([Top EXCEPT !.way = "done"])
    <3>1. stack' = WithTop([Top EXCEPT !.way = "done", !.asked = Top.asked, !.results = Top.results])
      BY <2>3, <2>4, Unmentioned
    <3>2. FullOf("done", Top.asked, Top.results, OnPath(option, Len(stack), Top.asked))
      <4>1. <<>> \in Seq(Request)
        OBVIOUS
      <4>2. \A a, t : Number(<<>>, a, t) = 0
        <5>1. \A a, t : Places(<<>>, a, t) = {}
          BY DEF Places
        <5> QED BY <5>1, FS_EmptySet DEF Number
      <4>3. SameNumbers(<<>>, <<>>, OnPath(option, Len(stack), <<>>))
        BY <4>2, Zenon DEF SameNumbers
      <4> QED BY <2>3, <4>1, <4>3 DEF FullOf
    <3> QED BY <2>1, <3>1, <3>2, <1>0, TopFull
  <2>5. CASE ~TakesParallelPath(asked) /\ stack' = WithTop([Top EXCEPT !.way = "sequential", !.asked = asked])
    <3>1. stack' = WithTop([Top EXCEPT !.way = "sequential", !.asked = asked, !.results = Top.results])
      BY <2>3, <2>5, Unmentioned
    <3>2. FullOf("sequential", asked, Top.results, OnPath(option, Len(stack), asked))
      BY <2>2, <2>3, <2>5, TopPath DEF FullOf, Matching
    <3> QED BY <2>1, <3>1, <3>2, <1>0, TopFull
  <2>6. CASE asked # <<>> /\ TakesParallelPath(asked) /\ stack' = WithTop([Top EXCEPT !.way = "parallel", !.asked = asked])
    <3>1. stack' = WithTop([Top EXCEPT !.way = "parallel", !.asked = asked, !.results = Top.results])
      BY <2>3, <2>6, Unmentioned
    <3>2. FullOf("parallel", asked, Top.results, OnPath(option, Len(stack), asked))
      BY <2>2, <2>6, TopPath DEF FullOf
    <3> QED BY <2>1, <3>1, <3>2, <1>0, TopFull
  <2>7. CASE EndRun(FALSE)
    BY <2>1, <2>7, <1>0, EndedFull
  <2> QED BY <1>4, <2>2, <2>4, <2>5, <2>6, <2>7 DEF Respond
<1>5. ASSUME CallFails \/ RunEnds \/ StartFails PROVE AllFull'
  BY <1>5, <1>0, EndedFull DEF CallFails, RunEnds, StartFails, On
<1>6. ASSUME Delegate PROVE AllFull'
  BY <1>6, <1>0, DelegatedFull
<1>7. ASSUME Refuse PROVE AllFull'
  <2>1. stack # <<>> /\ Top.way = "sequential" /\ Len(Top.results) < Len(Top.asked)
    BY <1>7 DEF Refuse, Delegating, On
  <2>2. Top \in RunOf(A) /\ Top.results \in Seq(A) /\ Top.asked \in Seq(Request) /\ Matching(Top.asked, Top.results)
    BY <1>2, <2>1 DEF FullOf, Listed
  <2>3. PICK answer : answer = [to |-> NextAsked(Top).to, task |-> NextAsked(Top).task, ok |-> FALSE,
                                ran |-> NextAsked(Top).task]
    OBVIOUS
  <2>4. answer.to = Top.asked[Len(Top.results) + 1].to /\ answer.task = Top.asked[Len(Top.results) + 1].task
    BY <2>3 DEF NextAsked
  <2>5. PICK list : list = Append(Top.results, answer) /\ Len(list) <= Len(Top.asked) /\ Matching(Top.asked, list)
    BY <2>1, <2>2, <2>4, OneMore
  <2>6. stack' = WithTop([Top EXCEPT !.results = list])
    BY <1>7, <2>3, <2>5 DEF Refuse, AnsweredBy
  <2>7. stack' = WithTop([Top EXCEPT !.way = Top.way, !.asked = Top.asked, !.results = list])
    BY <2>2, <2>6, Unmentioned
  <2>8. FullOf(Top.way, Top.asked, list, OnPath(option, Len(stack), Top.asked))
    <3>1. ~OnPath(option, Len(stack), Top.asked)
      BY <1>2, <2>1 DEF FullOf
    <3> QED BY <2>1, <2>2, <2>5, <3>1 DEF FullOf
  <2> QED BY <2>1, <2>7, <2>8, <1>0, TopFull
<1>8. ASSUME StartRun PROVE AllFull'
  <2>1. stack # <<>> /\ Top.way = "preparing" /\ stack' = WithTop([Top EXCEPT !.way = "asking"])
    BY <1>8 DEF StartRun, On
  <2>2. stack' = WithTop([Top EXCEPT !.way = "asking", !.asked = Top.asked, !.results = Top.results])
    BY <1>2, <2>1, Unmentioned
  <2>3. FullOf("asking", Top.asked, Top.results, OnPath(option, Len(stack), Top.asked))
    BY <1>2, <2>1 DEF FullOf
  <2> QED BY <2>1, <2>2, <2>3, <1>0, TopFull
<1>9. ASSUME SequenceEnds PROVE AllFull'
  <2>1. stack # <<>> /\ Top.way = "sequential" /\ Len(Top.results) = Len(Top.asked)
        /\ stack' = WithTop([Top EXCEPT !.way = "done"])
    BY <1>9 DEF SequenceEnds, On
  <2>2. Top \in RunOf(A) /\ Top.results \in Seq(A) /\ Top.asked \in Seq(Request) /\ Matching(Top.asked, Top.results)
    BY <1>2, <2>1 DEF FullOf, Listed
  <2>3. SameNumbers(Top.asked, Top.results, FALSE) /\ ~OnPath(option, Len(stack), Top.asked)
    <3>1. ~OnPath(option, Len(stack), Top.asked)
      BY <1>2, <2>1 DEF FullOf
    <3> QED BY <2>1, <2>2, <3>1, AllMatched
  <2>4. FullOf("done", Top.asked, Top.results, OnPath(option, Len(stack), Top.asked))
    <3>1. PICK p : p = OnPath(option, Len(stack), Top.asked)
      OBVIOUS
    <3>2. SameNumbers(Top.asked, Top.results, p)
      BY <2>3, <3>1, Zenon DEF SameNumbers
    <3> QED BY <2>2, <3>1, <3>2 DEF FullOf
  <2>5. stack' = WithTop([Top EXCEPT !.way = "done", !.asked = Top.asked, !.results = Top.results])
    BY <2>1, <2>2, Unmentioned
  <2> QED BY <2>1, <2>4, <2>5, <1>0, TopFull
<1>10. ASSUME GraphEnds PROVE AllFull'
  <2>1. stack # <<>> /\ Top.way = "parallel"
    BY <1>10 DEF GraphEnds, On
  <2>2. Top \in RunOf(A) /\ Top.asked \in Seq(Request) /\ Top.asked # <<>>
    BY <1>2, <2>1 DEF FullOf
  <2>3. PICK ss : OfNodes(ss, Top.asked)
    BY DEF OfNodes
  <2>4. SameNumbers(Top.asked, FlattenSeq(ss), TRUE) /\ OnPath(option, Len(stack), Top.asked)
    BY <1>2, <2>1, <2>2, <2>3, GraphAnswers DEF FullOf
  <2>5. stack' = WithTop([Top EXCEPT !.way = "done", !.results = FlattenSeq(ss)])
    BY <1>10, <2>3 DEF GraphEnds, OfNodes
  <2>6. stack' = WithTop([Top EXCEPT !.way = "done", !.asked = Top.asked, !.results = FlattenSeq(ss)])
    BY <2>2, <2>5, Unmentioned
  <2>7. FullOf("done", Top.asked, FlattenSeq(ss), OnPath(option, Len(stack), Top.asked))
    BY <2>2, <2>4 DEF FullOf
  <2> QED BY <2>1, <2>6, <2>7, <1>0, TopFull
<1>11. ASSUME NotFound PROVE AllFull'
  <2>1. stack' = <<>>
    BY <1>11 DEF NotFound
  <2> QED BY <2>1 DEF AllFull
<1>12. ASSUME GraphStep \/ CommandStep \/ Timeout \/ SessionChanges \/ Done \/ UNCHANGED vars
       PROVE  stack' = stack
  BY <1>12 DEF GraphStep, CommandStep, SaveResult, CleanUp, DisplayError, Timeout, SessionChanges, Done, vars
<1> QED BY <1>3, <1>4, <1>5, <1>6, <1>7, <1>8, <1>9, <1>10, <1>11, <1>12 DEF Next, RunStep

\* A run that has dealt with its delegations has one result for each mention of an agent in its answer, repeated and
\* refused ones included, whether they were taken up one by one or as a graph, for any answers, agents and names; only
\* an agent of a graph whose file no node has its name from has none at all.
THEOREM AnsweredAll == Spec => []AnsweredInFull
<1>1. Stacked /\ AllFull => AnsweredInFull
  <2> SUFFICES ASSUME Stacked, AllFull, stack # <<>>, Top.way = "done", NEW d \in Request
               PROVE  Count(d, Top)[2] = IF TakesParallelPath(Top.asked) /\ d.to \notin Nodes(Top.asked)
                                         THEN 0 ELSE Count(d, Top)[1]
    BY DEF AnsweredInFull, On
  <2>1. PICK asked, results : asked = Top.asked /\ results = Top.results
    OBVIOUS
  <2>2. asked \in Seq(Request) /\ SameNumbers(asked, results, OnPath(option, Len(stack), asked))
    <3>1. PICK A : StackOf(A)
      BY DEF Stacked
    <3>2. Len(stack) \in 1 .. Len(stack)
      BY <3>1, TopIsRun
    <3> QED BY <2>1, <3>2 DEF AllFull, FullOf, Top
  <2>3. d.to \in Agents /\ d.task \in Tasks /\ d = [to |-> d.to, task |-> d.task]
    BY DEF Request
  <2>4. {j \in DOMAIN asked : asked[j] = d} = Places(asked, d.to, d.task)
    <3>1. ASSUME NEW j \in DOMAIN asked PROVE asked[j] = [to |-> asked[j].to, task |-> asked[j].task]
      <4>1. asked[j] \in Request
        BY <2>2
      <4> QED BY <4>1 DEF Request
    <3>2. \A j \in DOMAIN asked : asked[j] = d <=> asked[j].to = d.to /\ asked[j].task = d.task
      BY <2>3, <3>1
    <3> QED BY <3>2 DEF Places
  <2>5. {j \in DOMAIN results : results[j].to = d.to /\ results[j].task = d.task} = Places(results, d.to, d.task)
    BY DEF Places
  <2>6. Number(results, d.to, d.task)
          = IF OnPath(option, Len(stack), asked) /\ d.to \notin Nodes(asked) THEN 0 ELSE Number(asked, d.to, d.task)
    BY <2>2, <2>3 DEF SameNumbers
  <2>7. Count(d, Top) = <<Number(asked, d.to, d.task), Number(results, d.to, d.task)>>
    BY <2>1, <2>4, <2>5 DEF Count, Number
  <2> QED BY <2>1, <2>6, <2>7, TopPath
<1>2. Stacked /\ AllFull /\ [Next]_vars => Stacked' /\ AllFull'
  BY NextStacked, NextFull
<1>3. Init => Stacked /\ AllFull
  BY InitStacked, InitFull
<1> QED BY <1>1, <1>2, <1>3, PTL DEF Spec

-----------------------------------------------------------------------------
\* How far a run is from its end.
Phase == [preparing |-> 4, asking |-> 3, sequential |-> 2, parallel |-> 2, done |-> 1]

Bottom == IF stack = <<>> THEN 0 ELSE Phase[stack[1].way]
Open ==
    IF stack # <<>> /\ stack[1].way = "sequential"
    THEN Len(stack[1].asked) - Len(stack[1].results) ELSE 0
Above == IF Len(stack) > 1 THEN Phase[stack[2].way] ELSE 5
\* The names that profiles give.
Given == {NameOf[a] : a \in Agents}
With(f, s) == {n \in Given : f[n] = s}
InGraph(s) == Cardinality(With(status, s))

\* What is left to do, what can bring more of the rest first.
Left == <<Bottom, Open, Above, InGraph("pending"), InGraph("running")>>

Nearer(l, m) == \E i \in 1..5 : l[i] < m[i] /\ \A j \in 1..i-1 : l[j] = m[j]

\* Whatever agents answer and whichever delegations are refused or fail, a run never
\* goes round in circles: every step, of whichever run is on, brings the user's run
\* nearer to its end (executeDelegationsSequential, delegateToAgent).
EverNearer ==
    [][stack' # stack \/ status' # status =>
         Left' \in [1..5 -> Nat] /\ Nearer(Left', Left)]_vars

\* What a step of the runs on the stack does to what is left.
Less == \/ Bottom' < Bottom
        \/ Bottom' = Bottom /\ Open' < Open
        \/ Bottom' = Bottom /\ Open' = Open /\ Above' < Above

\* A run is at least one step from its end, and never further than where it starts.
LEMMA PhaseOf ==
    ASSUME NEW A, NEW r \in RunOf(A)
    PROVE  Phase[r.way] \in 1..4
BY DEF RunOf, Ways, Phase

LEMMA OneOrTwo ==
    ASSUME Stacked, stack # <<>>
    PROVE  Len(stack) \in {1, 2}
<1>1. PICK A : StackOf(A)
  BY DEF Stacked
<1>2. PICK n \in Nat : n = Len(stack) /\ n >= 1
  BY <1>1, TopIsRun
<1> SUFFICES ASSUME n > 2 PROVE FALSE
  BY <1>2
<1>3. 2 \in 1 .. Len(stack) /\ 2 < Len(stack)
  BY <1>2
<1>4. stack[2].way = "sequential"
  BY <1>1, <1>3 DEF StackOf
<1> QED BY <1>3, <1>4 DEF Stacked, DelegatesOnce

LEMMA LeftIsNat == Stacked /\ AllFull => Bottom \in Nat /\ Open \in Nat /\ Above \in Nat
<1> SUFFICES ASSUME Stacked, AllFull PROVE Bottom \in Nat /\ Open \in Nat /\ Above \in Nat
  OBVIOUS
<1>1. PICK A : StackOf(A)
  BY DEF Stacked
<1>2. PICK n \in Nat : n = Len(stack) /\ stack \in Seq(RunOf(A)) /\ \A i \in 1..n : stack[i] \in RunOf(A)
  BY <1>1 DEF StackOf
<1>3. stack # <<>> => 1 \in 1..n
  BY <1>2
<1>4. n > 1 => 2 \in 1..n
  OBVIOUS
<1>5. Bottom \in Nat /\ Above \in Nat
  BY <1>2, <1>3, <1>4, PhaseOf DEF Bottom, Above
<1>6. ASSUME stack # <<>>, stack[1].way = "sequential"
      PROVE  Len(stack[1].asked) - Len(stack[1].results) \in Nat
  <2>1. stack[1].results \in Seq(A)
    BY <1>1, <1>2, <1>3, <1>6 DEF StackOf, Listed
  <2>2. stack[1].asked \in Seq(Request) /\ Len(stack[1].results) <= Len(stack[1].asked)
    BY <1>2, <1>3, <1>6 DEF AllFull, FullOf
  <2>3. PICK x \in Nat, y \in Nat : x = Len(stack[1].asked) /\ y = Len(stack[1].results)
    BY <2>1, <2>2, LenProperties
  <2> QED BY <2>2, <2>3
<1>7. Open \in Nat
  BY <1>6 DEF Open
<1> QED BY <1>5, <1>7

\* The top run gets on.
LEMMA TopNearer ==
    ASSUME Stacked, stack # <<>>, NEW way \in Ways, NEW asked, NEW results, Phase[way] < Phase[Top.way],
           stack' = WithTop([Top EXCEPT !.way = way, !.asked = asked, !.results = results])
    PROVE  Less
<1>1. PICK A : StackOf(A)
  BY DEF Stacked
<1>2. PICK n : n = Len(stack) /\ n \in {1, 2} /\ Top \in RunOf(A) /\ stack \in Seq(RunOf(A))
  BY <1>1, TopIsRun, OneOrTwo DEF StackOf
<1>3. PICK run : run = [Top EXCEPT !.way = way, !.asked = asked, !.results = results]
  OBVIOUS
<1>4. run.way = way
  BY <1>2, <1>3 DEF RunOf
<1>5. Len(stack') = n /\ stack'[n] = run /\ \A i \in 1..n : i # n => stack'[i] = stack[i]
  <2>1. PICK B : B = RunOf(A) \union {run}
    OBVIOUS
  <2>2. stack \in Seq(B) /\ run \in B
    BY <1>2, <2>1
  <2>3. stack' = [stack EXCEPT ![n] = run]
    BY <1>2, <1>3 DEF WithTop
  <2> QED BY <1>2, <2>2, <2>3
<1>6. Phase[stack'[n].way] < Phase[stack[n].way] /\ stack' # <<>>
  BY <1>2, <1>4, <1>5 DEF Top
<1>7. CASE n = 1
  BY <1>6, <1>7 DEF Less, Bottom
<1>8. CASE n = 2
  <2>1. stack'[1] = stack[1]
    BY <1>5, <1>8
  <2>2. Bottom' = Bottom /\ Open' = Open
    BY <1>6, <2>1 DEF Bottom, Open
  <2>3. Above' < Above
    BY <1>2, <1>5, <1>6, <1>8 DEF Above
  <2> QED BY <2>2, <2>3 DEF Less
<1> QED BY <1>2, <1>7, <1>8

LEMMA OneLess ==
    ASSUME NEW x \in Nat, NEW y \in Nat
    PROVE  x - (y + 1) < x - y
OBVIOUS

\* The bottom run, when it is on, gets one more result.
LEMMA ResultNearer ==
    ASSUME NEW A, NEW r \in RunOf(A), r.way = "sequential", r.results \in Seq(A), r.asked \in Seq(Request),
           stack # <<>>, stack[1] = r, NEW answer, stack' # <<>>,
           stack'[1] = [r EXCEPT !.results = Append(r.results, answer)]
    PROVE  Less
<1>1. PICK x \in Nat, y \in Nat : x = Len(r.asked) /\ y = Len(r.results)
  BY LenProperties
<1>2. PICK list : list = Append(r.results, answer)
  OBVIOUS
<1>3. Len(list) = y + 1
  BY <1>1, <1>2
<1>4. stack'[1].way = r.way /\ stack'[1].asked = r.asked /\ stack'[1].results = list
  BY <1>2 DEF RunOf
<1>5. Bottom' = Bottom
  BY <1>4 DEF Bottom
<1>6. Open = x - y /\ Open' = x - (y + 1)
  BY <1>1, <1>3, <1>4 DEF Open
<1>7. Open' < Open
  <2>1. PICK u, v : u = x - y /\ v = x - (y + 1)
    OBVIOUS
  <2>2. v < u
    BY <2>1, OneLess, Zenon
  <2> QED BY <1>6, <2>1, <2>2, Zenon
<1> QED BY <1>5, <1>7, Zenon DEF Less

LEMMA EndNearer ==
    ASSUME Stacked, AllFull, stack # <<>>, NEW ok, EndRun(ok)
    PROVE  Less
<1>1. PICK A : StackOf(A)
  BY DEF Stacked
<1>2. PICK n : n = Len(stack) /\ n \in {1, 2} /\ stack \in Seq(RunOf(A))
  BY <1>1, OneOrTwo DEF StackOf
<1>3. CASE n = 1
  <2>1. stack' = <<>>
    BY <1>2, <1>3 DEF EndRun
  <2>2. stack[1] \in RunOf(A)
    BY <1>2, <1>3
  <2>3. Bottom' = 0 /\ Bottom \in 1..4
    BY <2>1, <2>2, PhaseOf DEF Bottom
  <2> QED BY <2>3 DEF Less
<1>4. CASE n = 2
  <2>1. PICK r : r = stack[1] /\ r \in RunOf(A) /\ r.way = "sequential" /\ r.results \in Seq(A)
    BY <1>1, <1>2, <1>4 DEF StackOf, Listed
  <2>2. r.asked \in Seq(Request)
    BY <1>2, <1>4, <2>1 DEF AllFull, FullOf
  <2>3. Len(Below) = 1 /\ Below[1] = r
    <3>1. \A i \in 1 .. 1 : Below[i] = stack[i]
      BY <1>2, <1>4, SubSeqProperties DEF Below
    <3>2. Len(Below) = 1
      BY <1>2, <1>4, SubSeqProperties DEF Below
    <3> QED BY <2>1, <3>1, <3>2
  <2>4. PICK answer : stack' = [Below EXCEPT ![1] = [r EXCEPT !.results = Append(r.results, answer)]]
    <3>1. stack' = [Below EXCEPT ![1] = AnsweredBy(Below[1], ok, Top.task)]
      BY <1>2, <1>4, <2>3 DEF EndRun
    <3> QED BY <2>3, <3>1 DEF AnsweredBy
  <2>5. stack'[1] = [r EXCEPT !.results = Append(r.results, answer)] /\ stack' # <<>>
    <3>1. PICK below, run : below = Below /\ run = [r EXCEPT !.results = Append(r.results, answer)]
      OBVIOUS
    <3>2. DOMAIN below = 1 .. 1
      <4>1. below \in Seq(RunOf(A))
        BY <1>2, <1>4, <3>1, SubSeqProperties DEF Below
      <4> QED BY <2>3, <3>1, <4>1, LenProperties
    <3>3. stack' = [below EXCEPT ![1] = run]
      BY <2>4, <3>1
    <3>4. stack'[1] = run /\ DOMAIN stack' = 1 .. 1
      BY <3>2, <3>3
    <3> QED BY <3>1, <3>4
  <2> QED BY <2>1, <2>2, <2>5, ResultNearer
<1> QED BY <1>2, <1>3, <1>4

LEMMA RefuseNearer ==
    ASSUME Stacked, AllFull, Refuse
    PROVE  Less
<1>1. PICK A : StackOf(A)
  BY DEF Stacked
<1>2. stack # <<>> /\ Top.way = "sequential"
  BY DEF Refuse, Delegating, On
<1>3. /\ Len(stack) \in {1, 2} /\ stack \in Seq(RunOf(A)) /\ Top \in RunOf(A) /\ Listed(Top, A)
      /\ FullOf(Top.way, Top.asked, Top.results, OnPath(option, Len(stack), Top.asked))
  <2>1. Len(stack) \in 1 .. Len(stack) /\ Top \in RunOf(A) /\ Listed(Top, A)
    BY <1>1, <1>2, TopIsRun
  <2> QED BY <1>1, <1>2, <2>1, OneOrTwo DEF AllFull, Top, StackOf
<1>4. Len(stack) = 1 /\ Top = stack[1]
  <2>1. Len(stack) \in 1 .. Len(stack) /\ stack[Len(stack)].way = "sequential"
    BY <1>2, <1>3 DEF Top
  <2> QED BY <2>1 DEF Stacked, DelegatesOnce, Top
<1>5. Top.results \in Seq(A) /\ Top.asked \in Seq(Request)
  BY <1>2, <1>3 DEF Listed, FullOf
<1>6. PICK answer : stack' = [stack EXCEPT ![1] = [Top EXCEPT !.results = Append(Top.results, answer)]]
  BY <1>4 DEF Refuse, AnsweredBy, WithTop
<1>7. stack'[1] = [Top EXCEPT !.results = Append(Top.results, answer)] /\ stack' # <<>>
  <2>1. DOMAIN stack = 1 .. 1
    BY <1>3, <1>4, LenProperties
  <2>2. PICK run : run = [Top EXCEPT !.results = Append(Top.results, answer)]
    OBVIOUS
  <2>3. stack' = [stack EXCEPT ![1] = run]
    BY <1>6, <2>2
  <2>4. stack'[1] = run /\ DOMAIN stack' = 1 .. 1
    BY <2>1, <2>3
  <2> QED BY <2>2, <2>4
<1> QED BY <1>2, <1>3, <1>4, <1>5, <1>7, ResultNearer

LEMMA DelegateNearer ==
    ASSUME Stacked, Delegate
    PROVE  Less
<1>1. PICK A : StackOf(A)
  BY DEF Stacked
<1>2. stack # <<>> /\ Top.way = "sequential"
  BY DEF Delegate, Delegating, On
<1>3. stack \in Seq(RunOf(A)) /\ Len(stack) \in {1, 2}
  BY <1>1, <1>2, OneOrTwo DEF StackOf
<1>4. Len(stack) = 1
  <2>1. Len(stack) \in 1 .. Len(stack) /\ stack[Len(stack)].way = "sequential"
    BY <1>2, <1>3 DEF Top
  <2> QED BY <2>1 DEF Stacked, DelegatesOnce
<1>5. PICK run : stack' = Append(stack, run) /\ run.way = "preparing"
  <2>1. PICK run : run = NewRun(NextAsked(Top).to, NextAsked(Top).task, Append(Top.chain, NameOf[Top.agent]),
                                IF Top.session > 0 THEN Top.session ELSE Len(sessions) + 1, "preparing")
    OBVIOUS
  <2>2. run.way = "preparing"
    BY <2>1 DEF NewRun
  <2>3. stack' = Append(stack, run)
    BY <2>1 DEF Delegate
  <2> QED BY <2>2, <2>3
<1>6. Len(stack') = 2 /\ stack'[1] = stack[1] /\ stack'[2] = run /\ stack' # <<>>
  <2>1. PICK B : B = RunOf(A) \union {run}
    OBVIOUS
  <2>2. stack \in Seq(B) /\ run \in B
    BY <1>3, <2>1
  <2>3. PICK s : s = Append(stack, run)
    OBVIOUS
  <2>4. Len(s) = Len(stack) + 1 /\ s[Len(stack) + 1] = run /\ \A i \in 1 .. Len(stack) : s[i] = stack[i]
    BY <2>2, <2>3, AppendProperties
  <2>5. Len(s) = 2 /\ s[2] = run /\ s[1] = stack[1]
    <3>1. Len(stack) = 1 /\ 1 \in 1 .. Len(stack) /\ Len(stack) + 1 = 2
      BY <1>4
    <3> QED BY <2>4, <3>1
  <2>6. s # <<>>
    BY <2>5
  <2> QED BY <1>5, <2>3, <2>5, <2>6, Zenon
<1>7. Bottom' = Bottom /\ Open' = Open
  BY <1>2, <1>6 DEF Bottom, Open
<1>8. Above = 5 /\ Above' = 4
  BY <1>4, <1>5, <1>6 DEF Above, Phase
<1> QED BY <1>7, <1>8 DEF Less

\* Those names are finitely many.
LEMMA GivenFinite == IsFiniteSet(Given) /\ Given \subseteq Titles
<1>1. IsFiniteSet(Agents) /\ NameOf \in [Agents -> Titles]
  BY DelegationAssumption DEF Titles
<1>2. IsFiniteSet(Given)
  <2>1. NameOf \in Surjection(Agents, Given)
    BY <1>1 DEF Given, Surjection
  <2> QED BY <1>1, <2>1, FS_Surjection
<1> QED BY <1>1, <1>2 DEF Given

\* One agent of the graph gets on.
LEMMA AgentNearer ==
    ASSUME NEW V, NEW f \in [Titles -> V], NEW a \in Given, NEW s, s # "pending", s # f[a],
           f[a] = "pending" \/ (f[a] = "running" /\ s \in {"completed", "failed"}),
           NEW g, g = [f EXCEPT ![a] = s]
    PROVE  \/ Cardinality(With(g, "pending")) < Cardinality(With(f, "pending"))
           \/ /\ Cardinality(With(g, "pending")) = Cardinality(With(f, "pending"))
              /\ Cardinality(With(g, "running")) < Cardinality(With(f, "running"))
<1>0. PICK P, Q, R, S :
        /\ P = With(f, "pending") /\ Q = With(g, "pending") /\ R = With(f, "running") /\ S = With(g, "running")
        /\ P = {b \in Given : f[b] = "pending"} /\ Q = {b \in Given : g[b] = "pending"}
        /\ R = {b \in Given : f[b] = "running"} /\ S = {b \in Given : g[b] = "running"}
  BY DEF With
<1>1. IsFiniteSet(P) /\ IsFiniteSet(Q) /\ IsFiniteSet(R) /\ IsFiniteSet(S)
  <2>1. IsFiniteSet(Given)
    BY GivenFinite
  <2>2. P \in SUBSET Given /\ Q \in SUBSET Given /\ R \in SUBSET Given /\ S \in SUBSET Given
    BY <1>0
  <2> QED BY <2>1, <2>2, FS_Subset
<1>2. \A b \in Given : g[b] = IF b = a THEN s ELSE f[b]
  BY GivenFinite
<1>3. ASSUME NEW T, NEW U \in SUBSET T, a \in T, a \notin U, IsFiniteSet(T) PROVE Cardinality(U) < Cardinality(T)
  <2>1. Cardinality(U) \in Nat /\ Cardinality(T) \in Nat
    BY <1>3, FS_Subset, FS_CardinalityType
  <2>2. Cardinality(U) <= Cardinality(T) /\ Cardinality(T) # Cardinality(U)
    BY <1>3, FS_Subset
  <2> QED BY <2>1, <2>2
<1>4. CASE f[a] = "pending"
  <2>1. Q \in SUBSET P /\ a \in P /\ a \notin Q
    BY <1>0, <1>2, <1>4
  <2>2. Cardinality(Q) < Cardinality(P)
    <3>1. IsFiniteSet(P)
      BY <1>1
    <3> QED BY <1>3, <2>1, <3>1, Zenon
  <2>3. P = With(f, "pending") /\ Q = With(g, "pending")
    BY <1>0
  <2> QED BY <2>2, <2>3
<1>5. CASE f[a] = "running" /\ s \in {"completed", "failed"}
  <2>1. Q = P
    <3>1. \A b \in Given : g[b] = "pending" <=> f[b] = "pending"
      BY <1>2, <1>5
    <3> QED BY <1>0, <3>1
  <2>2. S \in SUBSET R /\ a \in R /\ a \notin S
    BY <1>0, <1>2, <1>5
  <2>3. Cardinality(S) < Cardinality(R)
    <3>1. IsFiniteSet(R)
      BY <1>1
    <3> QED BY <1>3, <2>2, <3>1, Zenon
  <2>4. /\ P = With(f, "pending") /\ Q = With(g, "pending")
        /\ R = With(f, "running") /\ S = With(g, "running")
    BY <1>0
  <2> QED BY <2>1, <2>3, <2>4
<1> QED BY <1>4, <1>5, Zenon

\* The parts of what is left, compared one after the other.
LEMMA NearerIf ==
    ASSUME NEW a1, NEW a2, NEW a3, NEW a4, NEW a5, NEW b1, NEW b2, NEW b3, NEW b4, NEW b5,
           \/ a1 < b1
           \/ a1 = b1 /\ a2 < b2
           \/ a1 = b1 /\ a2 = b2 /\ a3 < b3
           \/ a1 = b1 /\ a2 = b2 /\ a3 = b3 /\ a4 < b4
           \/ a1 = b1 /\ a2 = b2 /\ a3 = b3 /\ a4 = b4 /\ a5 < b5
    PROVE  Nearer(<<a1, a2, a3, a4, a5>>, <<b1, b2, b3, b4, b5>>)
<1>1. PICK l, m : l = <<a1, a2, a3, a4, a5>> /\ m = <<b1, b2, b3, b4, b5>>
  OBVIOUS
<1>2. /\ l[1] = a1 /\ l[2] = a2 /\ l[3] = a3 /\ l[4] = a4 /\ l[5] = a5
      /\ m[1] = b1 /\ m[2] = b2 /\ m[3] = b3 /\ m[4] = b4 /\ m[5] = b5
  BY <1>1
<1>3. \E i \in 1..5 : l[i] < m[i] /\ \A j \in 1..i-1 : l[j] = m[j]
  <2>1. CASE a1 < b1
    BY <1>2, <2>1
  <2>2. CASE a1 = b1 /\ a2 < b2
    <3>1. \A j \in 1..2-1 : j = 1
      OBVIOUS
    <3> QED BY <1>2, <2>2, <3>1
  <2>3. CASE a1 = b1 /\ a2 = b2 /\ a3 < b3
    <3>1. \A j \in 1..3-1 : j = 1 \/ j = 2
      OBVIOUS
    <3> QED BY <1>2, <2>3, <3>1
  <2>4. CASE a1 = b1 /\ a2 = b2 /\ a3 = b3 /\ a4 < b4
    <3>1. \A j \in 1..4-1 : j = 1 \/ j = 2 \/ j = 3
      OBVIOUS
    <3> QED BY <1>2, <2>4, <3>1
  <2>5. CASE a1 = b1 /\ a2 = b2 /\ a3 = b3 /\ a4 = b4 /\ a5 < b5
    <3>1. \A j \in 1..5-1 : j = 1 \/ j = 2 \/ j = 3 \/ j = 4
      OBVIOUS
    <3> QED BY <1>2, <2>5, <3>1
  <2> QED BY <2>1, <2>2, <2>3, <2>4, <2>5
<1> QED BY <1>1, <1>3 DEF Nearer

-----------------------------------------------------------------------------
StatusKnown == status \in [Titles -> G!Status]

LEMMA StatusStays == StatusKnown /\ [Next]_vars => StatusKnown'
<1> SUFFICES ASSUME StatusKnown, [Next]_vars PROVE StatusKnown'
  OBVIOUS
<1>1. ASSUME NEW mentions \in Mentions, Respond(mentions) PROVE StatusKnown'
  <2>1. status' = status \/ \E S : status' = [n \in Titles |-> IF n \in S THEN "pending" ELSE "skipped"]
    BY <1>1 DEF Respond
  <2> QED BY <2>1 DEF StatusKnown, G!Status
<1>2. ASSUME GraphStep PROVE StatusKnown'
  BY <1>2 DEF GraphStep, StatusKnown
<1>3. ASSUME \/ CallFails \/ RunEnds \/ Delegate \/ Refuse \/ StartRun \/ StartFails \/ NotFound \/ SequenceEnds \/ GraphEnds
             \/ CommandStep \/ Timeout \/ SessionChanges \/ Done \/ UNCHANGED vars
      PROVE  status' = status
  BY <1>3 DEF CallFails, RunEnds, Delegate, Refuse, StartRun, StartFails, NotFound, SequenceEnds, GraphEnds,
              CommandStep, SaveResult, CleanUp, DisplayError, Timeout, SessionChanges, Done, vars
<1> QED BY <1>1, <1>2, <1>3 DEF Next, RunStep, StatusKnown

LEMMA LessOrGraph ==
    ASSUME Stacked, AllFull, StatusKnown, Next, stack' # stack \/ status' # status
    PROVE  \/ Less
           \/ /\ stack' = stack
              /\ \/ InGraph("pending")' < InGraph("pending")
                 \/ InGraph("pending")' = InGraph("pending") /\ InGraph("running")' < InGraph("running")
<1>1. PICK A : StackOf(A)
  BY DEF Stacked
<1>2. stack # <<>> => Top \in RunOf(A)
  BY <1>1, TopIsRun
<1>3. ASSUME NEW mentions \in Mentions, Respond(mentions) PROVE Less
  <2>1. stack # <<>> /\ Top.way = "asking" /\ Top \in RunOf(A)
    BY <1>2, <1>3 DEF Respond, On
  <2>2. \A way \in {"done", "sequential", "parallel"} : way \in Ways /\ Phase[way] < Phase[Top.way]
    BY <2>1 DEF Ways, Phase
  <2>3. PICK asked : asked = Parse(mentions, NameOf[Top.agent])
    OBVIOUS
  <2>4. CASE stack' = WithTop([Top EXCEPT !.way = "done"])
    <3>1. stack' = WithTop([Top EXCEPT !.way = "done", !.asked = Top.asked, !.results = Top.results])
      BY <2>1, <2>4, Unmentioned
    <3>2. "done" \in Ways /\ Phase["done"] < Phase[Top.way]
      BY <2>2
    <3> QED BY <2>1, <3>1, <3>2, TopNearer
  <2>5. CASE stack' = WithTop([Top EXCEPT !.way = "sequential", !.asked = asked])
    <3>1. stack' = WithTop([Top EXCEPT !.way = "sequential", !.asked = asked, !.results = Top.results])
      BY <2>1, <2>5, Unmentioned
    <3>2. "sequential" \in Ways /\ Phase["sequential"] < Phase[Top.way]
      BY <2>2
    <3> QED BY <2>1, <3>1, <3>2, TopNearer
  <2>6. CASE stack' = WithTop([Top EXCEPT !.way = "parallel", !.asked = asked])
    <3>1. stack' = WithTop([Top EXCEPT !.way = "parallel", !.asked = asked, !.results = Top.results])
      BY <2>1, <2>6, Unmentioned
    <3>2. "parallel" \in Ways /\ Phase["parallel"] < Phase[Top.way]
      BY <2>2
    <3> QED BY <2>1, <3>1, <3>2, TopNearer
  <2>7. CASE EndRun(FALSE)
    BY <2>1, <2>7, EndNearer
  <2> QED BY <1>3, <2>3, <2>4, <2>5, <2>6, <2>7 DEF Respond
<1>4. ASSUME CallFails \/ RunEnds \/ StartFails PROVE Less
  BY <1>4, EndNearer DEF CallFails, RunEnds, StartFails, On
<1>5. ASSUME Delegate \/ Refuse PROVE Less
  BY <1>5, DelegateNearer, RefuseNearer
<1>6. ASSUME StartRun PROVE Less
  <2>1. stack # <<>> /\ Top.way = "preparing" /\ Top \in RunOf(A) /\ stack' = WithTop([Top EXCEPT !.way = "asking"])
    BY <1>2, <1>6 DEF StartRun, On
  <2>2. stack' = WithTop([Top EXCEPT !.way = "asking", !.asked = Top.asked, !.results = Top.results])
    BY <2>1, Unmentioned
  <2>3. "asking" \in Ways /\ Phase["asking"] < Phase[Top.way]
    BY <2>1 DEF Ways, Phase
  <2> QED BY <2>1, <2>2, <2>3, TopNearer
<1>7. ASSUME NotFound PROVE Less
  <2>1. stack' = <<>> /\ Len(stack) = 1
    BY <1>7 DEF NotFound
  <2>2. stack # <<>> /\ stack[1] \in RunOf(A)
    BY <1>1, <2>1 DEF StackOf
  <2>3. Bottom' = 0 /\ Bottom \in 1..4
    BY <2>1, <2>2, PhaseOf DEF Bottom
  <2> QED BY <2>3 DEF Less
<1>8. ASSUME SequenceEnds \/ GraphEnds PROVE Less
  <2>1. stack # <<>> /\ Top.way \in {"sequential", "parallel"} /\ Top \in RunOf(A)
    BY <1>2, <1>8 DEF SequenceEnds, GraphEnds, On
  <2>2. "done" \in Ways /\ Phase["done"] < Phase[Top.way]
    BY <2>1 DEF Ways, Phase
  <2>3. CASE SequenceEnds
    <3>1. stack' = WithTop([Top EXCEPT !.way = "done", !.asked = Top.asked, !.results = Top.results])
      BY <2>1, <2>3, Unmentioned DEF SequenceEnds
    <3> QED BY <2>1, <2>2, <3>1, TopNearer
  <2>4. CASE GraphEnds
    <3>1. PICK results : stack' = WithTop([Top EXCEPT !.way = "done", !.results = results])
      BY <2>4 DEF GraphEnds
    <3>2. stack' = WithTop([Top EXCEPT !.way = "done", !.asked = Top.asked, !.results = results])
      BY <2>1, <3>1, Unmentioned
    <3> QED BY <2>1, <2>2, <3>2, TopNearer
  <2> QED BY <1>8, <2>3, <2>4
<1>9. ASSUME GraphStep
      PROVE  /\ stack' = stack
             /\ \/ InGraph("pending")' < InGraph("pending")
                \/ InGraph("pending")' = InGraph("pending") /\ InGraph("running")' < InGraph("running")
  <2>1. PICK a \in Nodes(Top.asked), s \in G!Status \ {"pending"} :
          s # status[a] /\ G!May(a, s) /\ status' = [status EXCEPT ![a] = s]
    BY <1>9 DEF GraphStep
  <2>2. status[a] = "pending" \/ (status[a] = "running" /\ s \in {"completed", "failed"})
    BY <2>1 DEF G!May
  <2>3. a \in Given
    <3>1. stack # <<>> /\ Top.way = "parallel"
      BY <1>9 DEF GraphStep, On
    <3>2. Len(stack) \in 1 .. Len(stack)
      BY <1>1, <3>1, TopIsRun
    <3>3. Top.asked \in Seq(Request)
      BY <3>2 DEF AllFull, FullOf, Top
    <3>4. PICK i \in DOMAIN Top.asked : a = NameOf[Top.asked[i].to]
      BY DEF Nodes
    <3>5. Top.asked[i] \in Request
      BY <3>3, <3>4
    <3> QED BY <3>4, <3>5 DEF Request, Given
  <2>4. status \in [Titles -> G!Status]
    BY DEF StatusKnown
  <2>5. PICK f, g, V : f = status /\ g = status' /\ V = G!Status
    OBVIOUS
  <2>6. \/ Cardinality(With(g, "pending")) < Cardinality(With(f, "pending"))
        \/ /\ Cardinality(With(g, "pending")) = Cardinality(With(f, "pending"))
           /\ Cardinality(With(g, "running")) < Cardinality(With(f, "running"))
    <3>1. /\ f \in [Titles -> V] /\ g = [f EXCEPT ![a] = s] /\ s # f[a] /\ s # "pending"
          /\ (f[a] = "pending" \/ (f[a] = "running" /\ s \in {"completed", "failed"}))
      BY <2>1, <2>2, <2>4, <2>5
    <3> QED BY <2>3, <3>1, AgentNearer
  <2>7. /\ InGraph("pending") = Cardinality(With(f, "pending")) /\ InGraph("pending")' = Cardinality(With(g, "pending"))
        /\ InGraph("running") = Cardinality(With(f, "running")) /\ InGraph("running")' = Cardinality(With(g, "running"))
    BY <2>5 DEF InGraph, With
  <2>8. stack' = stack
    BY <1>9 DEF GraphStep
  <2> QED BY <2>6, <2>7, <2>8, Zenon
<1>10. ASSUME CommandStep \/ Timeout \/ SessionChanges \/ Done PROVE stack' = stack /\ status' = status
  BY <1>10 DEF CommandStep, SaveResult, CleanUp, DisplayError, Timeout, SessionChanges, Done, vars
<1> QED BY <1>3, <1>4, <1>5, <1>6, <1>7, <1>8, <1>9, <1>10 DEF Next, RunStep

\* What EverNearer says of a step.
StepNearer == stack' # stack \/ status' # status => Left' \in [1..5 -> Nat] /\ Nearer(Left', Left)

LEMMA InGraphNat == \A s : InGraph(s) \in Nat
<1>1. IsFiniteSet(Given)
  BY GivenFinite
<1> SUFFICES ASSUME NEW s PROVE InGraph(s) \in Nat
  OBVIOUS
<1>2. With(status, s) \in SUBSET Given
  BY DEF With
<1> QED BY <1>1, <1>2, FS_Subset, FS_CardinalityType DEF InGraph

\* Whatever agents answer and whatever is refused or fails, every step of a run brings the user's run nearer to its
\* end (executeInternal, executeDelegationsSequential, delegateToAgent), for any agents, limits and dependencies.
THEOREM RunsDescend == Spec => EverNearer
<1>1. Stacked /\ AllFull /\ StatusKnown /\ Stacked' /\ AllFull' /\ [Next]_vars => [StepNearer]_vars
  <2> SUFFICES ASSUME Stacked, AllFull, StatusKnown, Stacked', AllFull', Next, stack' # stack \/ status' # status
               PROVE  Left' \in [1..5 -> Nat] /\ Nearer(Left', Left)
    BY DEF StepNearer
  <2>1. (Stacked /\ AllFull => Bottom \in Nat /\ Open \in Nat /\ Above \in Nat)'
    BY LeftIsNat, PTL
  <2>2. (\A s : InGraph(s) \in Nat)'
    BY InGraphNat, PTL
  <2>3. PICK a1 \in Nat, a2 \in Nat, a3 \in Nat, a4 \in Nat, a5 \in Nat :
          a1 = Bottom' /\ a2 = Open' /\ a3 = Above' /\ a4 = InGraph("pending")' /\ a5 = InGraph("running")'
    BY <2>1, <2>2
  <2>4. PICK b1, b2, b3, b4, b5 :
          b1 = Bottom /\ b2 = Open /\ b3 = Above /\ b4 = InGraph("pending") /\ b5 = InGraph("running")
    OBVIOUS
  <2>5. Left' = <<a1, a2, a3, a4, a5>> /\ Left = <<b1, b2, b3, b4, b5>>
    BY <2>3, <2>4 DEF Left
  <2>6. <<a1, a2, a3, a4, a5>> \in [1..5 -> Nat]
    OBVIOUS
  <2>7. stack' = stack => Bottom' = Bottom /\ Open' = Open /\ Above' = Above
    BY DEF Bottom, Open, Above
  <2>8. \/ a1 < b1
        \/ a1 = b1 /\ a2 < b2
        \/ a1 = b1 /\ a2 = b2 /\ a3 < b3
        \/ a1 = b1 /\ a2 = b2 /\ a3 = b3 /\ a4 < b4
        \/ a1 = b1 /\ a2 = b2 /\ a3 = b3 /\ a4 = b4 /\ a5 < b5
    BY <2>3, <2>4, <2>7, LessOrGraph, Zenon DEF Less
  <2>9. Nearer(<<a1, a2, a3, a4, a5>>, <<b1, b2, b3, b4, b5>>)
    BY <2>8, NearerIf
  <2> QED BY <2>5, <2>6, <2>9, Zenon
<1>2. Stacked /\ AllFull /\ StatusKnown /\ [Next]_vars => Stacked' /\ AllFull' /\ StatusKnown'
  BY NextStacked, NextFull, StatusStays
<1>3. Init => Stacked /\ AllFull /\ StatusKnown
  <2>1. Init => StatusKnown
    BY DEF Init, StatusKnown, G!Status
  <2> QED BY <2>1, InitStacked, InitFull
<1> QED BY <1>1, <1>2, <1>3, PTL DEF Spec, EverNearer, StepNearer
=============================================================================
