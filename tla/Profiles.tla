------------------------------- MODULE Profiles -------------------------------
(***************************************************************************)
(* Agent profiles and abilities (src/agents/profile-loader.ts,             *)
(* abilities-manager.ts), as createContext of context-manager.ts uses      *)
(* them: several calls of one process, interleaved at every await, share   *)
(* one loader.  An identifier is tried as the name of a profile; if there  *)
(* is none, the loader builds a map from display names to names, once in   *)
(* the life of the process, and looks it up there.  A profile is read from *)
(* .automatosx/agents or else from the built-in agents.  A name with other *)
(* characters than letters, digits, - and _ is refused before a file or    *)
(* the map is looked at.  `ax agent create` and `ax agent remove` change   *)
(* the local files from other processes.                                   *)
(***************************************************************************)
EXTENDS Integers, Sequences, FiniteSets

CONSTANTS
    Calls,          \* calls of createContext that one process works on
    Commands,       \* processes that run ax agent create or remove
    Names,          \* names of agents
    Place,          \* Place[n]: where readdir sorts the file of n
    DisplayNames,   \* what agents may be called besides
    Refused,        \* the names and display names with a space or another character getProfilePath does not allow
    BuiltIn,        \* BuiltIn[n]: the profile of n in examples/agents, or None
    InitialLocal,   \* the profiles in .automatosx/agents the system may start with
    None,           \* no such file, no display name
    Abilities,      \* names of abilities
    AbilitiesOf,    \* AbilitiesOf[n]: what selectAbilities picks for agent n, in order
    Size,           \* Size[a]: the length of an ability's text; 0: there is no such file
    MaxProfiles, MaxAbilities, MaxAbilitiesSize,    \* the limits of the two caches
    MaxStarts,      \* bound: calls made
    MaxExpiries     \* bound: entries whose time runs out

ASSUME NamesAssumption ==
    /\ Place \in [Names -> Nat] /\ \A m, n \in Names : Place[m] = Place[n] => m = n
    /\ AbilitiesOf \in [Names -> Seq(Abilities)]
    /\ None \notin Names \union DisplayNames
    /\ Refused \subseteq Names \union DisplayNames

ASSUME SizesAssumption == Size \in [Abilities -> Nat] /\ MaxAbilitiesSize \in Nat \ {0}

Identifiers == Names \union DisplayNames

ProfileCache == INSTANCE TTLCache WITH MaxEntries <- MaxProfiles, MaxSize <- 0
AbilityCache == INSTANCE TTLCache WITH MaxEntries <- MaxAbilities, MaxSize <- MaxAbilitiesSize

VARIABLES
    local,          \* local[n]: the profile of n in .automatosx/agents, or None
    cache,          \* ProfileLoader.cache
    displayNameMap, \* a function from display names to names
    mapInitialized,
    texts,          \* AbilitiesManager.cache
    call,           \* call[c]: how far a call has come
    commands,       \* commands[x]: how far a command has come
    starts, expiries,
    past,           \* history: the local files as they have been since the process started
    unmapped,       \* history: a map was built over another one, or not to the end
    shortfall       \* history: sizes taken off the total of the ability cache twice

profilesVars == <<local, cache, displayNameMap, mapInitialized, texts, call, commands, starts, expiries, past, unmapped, shortfall>>
files == <<local, commands, past>>
loader == <<cache, displayNameMap, mapInitialized, unmapped>>
manager == <<texts, shortfall>>
bounds == <<starts, expiries>>

-----------------------------------------------------------------------------
(* The files *)

Profile(l, n) == IF l[n] # None THEN l[n] ELSE BuiltIn[n]
LocalNames(l) == {n \in Names : l[n] # None}
BuiltInNames == {n \in Names : BuiltIn[n] # None}
listProfiles == {n \in Names : Profile(local, n) # None}
First(S) == CHOOSE n \in S : \A m \in S : Place[n] <= Place[m]

-----------------------------------------------------------------------------
(* Calls *)

Idle == [at |-> "idle"]
\* A call at a step, about a profile, on behalf of resolveAgentName ("resolve") or of createContext ("context").
Step(c, at) == call' = [call EXCEPT ![c].at = at]
End(c) == call' = [call EXCEPT ![c] = Idle]

createContext(c, i) ==
    /\ call[c] = Idle /\ starts < MaxStarts
    /\ starts' = starts + 1
    /\ call' = [call EXCEPT ![c] = [at |-> "load", id |-> i, name |-> i, why |-> "resolve", todo |-> {}, found |-> {}, all |-> {},
                                     abilities |-> <<>>]]
    /\ UNCHANGED <<files, loader, manager, expiries>>

-----------------------------------------------------------------------------
(* loadProfile *)

\* The profile is there: the name is resolved, or the abilities are next, or the next profile to compare.
Loaded(c) == call' = [call EXCEPT ![c] =
    CASE @.why = "resolve" -> [@ EXCEPT !.at = "load", !.why = "context"]
      [] @.why = "context" -> [@ EXCEPT !.at = "ability", !.abilities = AbilitiesOf[call[c].name]]
      [] @.why = "similar" -> [@ EXCEPT !.at = "compare"]]

\* AgentValidationError: resolveAgentName passes it on without a look at the map, createContext fails, findSimilarAgents
\* passes over it.
Fails(c) == CASE call[c].why = "resolve" -> Step(c, "refused")
              [] call[c].why = "context" -> End(c)
              [] call[c].why = "similar" -> Step(c, "compare")

ProfileHit(c) ==
    /\ call[c].at = "load" /\ ProfileCache!Fresh(cache, call[c].name)
    /\ cache' = ProfileCache!Get(cache, call[c].name)
    /\ Loaded(c)
    /\ UNCHANGED <<files, displayNameMap, mapInitialized, unmapped, manager, bounds>>

\* getProfilePath: a name with other characters is refused before a file is touched.
ProfileMiss(c) ==
    /\ call[c].at = "load" /\ ~ProfileCache!Fresh(cache, call[c].name)
    /\ cache' = ProfileCache!Get(cache, call[c].name)
    /\ IF call[c].name \in Refused THEN Fails(c) ELSE Step(c, "local")
    /\ UNCHANGED <<files, displayNameMap, mapInitialized, unmapped, manager, bounds>>

\* A file that is there is parsed and validated.
Parsed(c, profile) == IF profile.valid THEN Step(c, "build") ELSE Fails(c)

ReadLocal(c) ==
    /\ call[c].at = "local"
    /\ LET p == IF call[c].name \in Names THEN local[call[c].name] ELSE None
       IN IF p # None THEN Parsed(c, p) ELSE Step(c, "builtin")
    /\ UNCHANGED <<files, loader, manager, bounds>>

\* AgentNotFoundError: resolveAgentName goes on with display names, createContext fails.
ReadBuiltIn(c) ==
    /\ call[c].at = "builtin"
    /\ LET p == IF call[c].name \in Names THEN BuiltIn[call[c].name] ELSE None
       IN IF p # None THEN Parsed(c, p) ELSE IF call[c].why = "resolve" THEN Step(c, "map") ELSE Fails(c)
    /\ UNCHANGED <<files, loader, manager, bounds>>

\* The team has been loaded, or not, and the profile is built; it goes into the cache.
buildProfile(c) ==
    /\ call[c].at = "build"
    /\ cache' = ProfileCache!Set(cache, call[c].name, 1)
    /\ Loaded(c)
    /\ UNCHANGED <<files, displayNameMap, mapInitialized, unmapped, manager, bounds>>

-----------------------------------------------------------------------------
(* buildDisplayNameMap *)

Building(c) == call[c].at \in {"list", "add", "listBuiltIn", "addBuiltIn"}

\* The map that others may be filling is emptied.
buildDisplayNameMap(c) ==
    /\ call[c].at = "map"
    /\ IF mapInitialized
       THEN Step(c, "lookup") /\ UNCHANGED <<displayNameMap, unmapped>>
       ELSE /\ displayNameMap' = [d \in {} |-> None]
            /\ unmapped' = (unmapped \/ \E other \in Calls \ {c} : Building(other))
            /\ Step(c, "list")
    /\ UNCHANGED <<files, cache, mapInitialized, manager, bounds>>

ListLocal(c) ==
    /\ call[c].at = "list"
    /\ call' = [call EXCEPT ![c].at = "add", ![c].todo = LocalNames(local), ![c].found = LocalNames(local)]
    /\ UNCHANGED <<files, loader, manager, bounds>>

\* Mutant: the last profile of a display name is kept.
addToDisplayNameMapLast(n) ==
    LET p == Profile(local, n)
    IN IF n \in Refused \/ p = None \/ p.displayName = None THEN displayNameMap' = displayNameMap
       ELSE displayNameMap' = [d \in DOMAIN displayNameMap \union {p.displayName} |->
                                  IF d = p.displayName THEN n ELSE displayNameMap[d]]

\* The profile is read, in the local directory or else in the built-in one, unless its name is refused; the first one of a
\* display name is kept.
addToDisplayNameMap(n) ==
    LET p == Profile(local, n)
    IN IF n \in Refused \/ p = None \/ p.displayName \in {None} \union DOMAIN displayNameMap THEN displayNameMap' = displayNameMap
       ELSE displayNameMap' = [d \in DOMAIN displayNameMap \union {p.displayName} |->
                                  IF d = p.displayName THEN n ELSE displayNameMap[d]]

AddNext(c) ==
    /\ call[c].at \in {"add", "addBuiltIn"} /\ call[c].todo # {}
    /\ addToDisplayNameMap(First(call[c].todo))
    /\ call' = [call EXCEPT ![c].todo = @ \ {First(@)}]
    /\ UNCHANGED <<files, cache, mapInitialized, unmapped, manager, bounds>>

LocalAdded(c) ==
    /\ call[c].at = "add" /\ call[c].todo = {}
    /\ Step(c, "listBuiltIn")
    /\ UNCHANGED <<files, loader, manager, bounds>>

\* Built-in profiles whose name is that of a local one are skipped.
ListBuiltIn(c) ==
    /\ call[c].at = "listBuiltIn"
    /\ call' = [call EXCEPT ![c].at = "addBuiltIn", ![c].todo = BuiltInNames \ call[c].found]
    /\ UNCHANGED <<files, loader, manager, bounds>>

MapBuilt(c) ==
    /\ call[c].at = "addBuiltIn" /\ call[c].todo = {}
    /\ mapInitialized' = TRUE
    /\ Step(c, "lookup")
    /\ UNCHANGED <<files, cache, displayNameMap, unmapped, manager, bounds>>

\* A directory that cannot be read: logged, and the map stays as far as it has come.
ListingFails(c) ==
    /\ call[c].at \in {"list", "listBuiltIn"}
    /\ unmapped' = TRUE
    /\ Step(c, "lookup")
    /\ UNCHANGED <<files, cache, displayNameMap, mapInitialized, manager, bounds>>

\* resolveAgentName: the display name is resolved, or the error of the first attempt is thrown.  findSimilarAgents goes
\* through all profiles.
Lookup(c) ==
    /\ call[c].at = "lookup"
    /\ IF call[c].why = "similar" THEN call' = [call EXCEPT ![c].at = "compare", ![c].todo = call[c].all, ![c].all = {}, ![c].found = {}]
       ELSE IF call[c].id \in DOMAIN displayNameMap
       THEN call' = [call EXCEPT ![c].at = "load", ![c].why = "context", ![c].name = displayNameMap[call[c].id], ![c].found = {}]
       ELSE call' = [call EXCEPT ![c].at = "unknown", ![c].name = None, ![c].todo = {}, ![c].found = {}]
    /\ UNCHANGED <<files, loader, manager, bounds>>

\* The error of resolveAgentName, of whatever kind, ends the call, or `ax run` goes on with suggestions.
UnknownAgent(c) ==
    /\ call[c].at \in {"unknown", "refused"}
    /\ End(c)
    /\ UNCHANGED <<files, loader, manager, bounds>>

-----------------------------------------------------------------------------
(* findSimilarAgents, for the suggestions of `ax run` *)

findSimilarAgents(c) ==
    /\ call[c].at \in {"unknown", "refused"}
    /\ call' = [call EXCEPT ![c].at = "map", ![c].why = "similar", ![c].all = listProfiles]
    /\ UNCHANGED <<files, loader, manager, bounds>>

\* Every profile is loaded for its role; the names that are nearest are shown.
CompareNext(c) ==
    /\ call[c].at = "compare"
    /\ IF call[c].todo = {} THEN End(c)
       ELSE call' = [call EXCEPT ![c].at = "load", ![c].name = First(call[c].todo), ![c].todo = @ \ {First(@)}]
    /\ UNCHANGED <<files, loader, manager, bounds>>

-----------------------------------------------------------------------------
(* loadAbility, for each of the abilities selected *)

NextAbility(c, at) == call' = [call EXCEPT ![c].at = at, ![c].abilities = Tail(@)]

AbilityHit(c) ==
    /\ call[c].at = "ability" /\ call[c].abilities # <<>> /\ AbilityCache!Fresh(texts, Head(call[c].abilities))
    /\ texts' = AbilityCache!Get(texts, Head(call[c].abilities))
    /\ NextAbility(c, "ability")
    /\ UNCHANGED <<files, loader, shortfall, bounds>>

AbilityMiss(c) ==
    /\ call[c].at = "ability" /\ call[c].abilities # <<>> /\ ~AbilityCache!Fresh(texts, Head(call[c].abilities))
    /\ texts' = AbilityCache!Get(texts, Head(call[c].abilities))
    /\ Step(c, "text")
    /\ UNCHANGED <<files, loader, shortfall, bounds>>

\* The text is read, here or there, and put into the cache; one that is missing is left out.
ReadAbility(c) ==
    /\ call[c].at = "text"
    /\ LET ab == Head(call[c].abilities)
       IN IF Size[ab] = 0 THEN UNCHANGED manager
          ELSE /\ texts' = AbilityCache!Set(texts, ab, Size[ab])
               /\ shortfall' = shortfall + AbilityCache!Shortfall(texts, ab, Size[ab])
    /\ NextAbility(c, "ability")
    /\ UNCHANGED <<files, loader, bounds>>

\* The context has its profile and its abilities.
ContextCreated(c) ==
    /\ call[c].at = "ability" /\ call[c].abilities = <<>>
    /\ End(c)
    /\ UNCHANGED <<files, loader, manager, bounds>>

-----------------------------------------------------------------------------
(* Entries whose time is over *)

ExpireProfile(n) ==
    /\ expiries < MaxExpiries /\ ProfileCache!Fresh(cache, n)
    /\ cache' = ProfileCache!Expire(cache, n)
    /\ expiries' = expiries + 1
    /\ UNCHANGED <<files, displayNameMap, mapInitialized, unmapped, manager, call, starts>>

ExpireAbility(a) ==
    /\ expiries < MaxExpiries /\ AbilityCache!Fresh(texts, a)
    /\ texts' = AbilityCache!Expire(texts, a)
    /\ expiries' = expiries + 1
    /\ UNCHANGED <<files, loader, shortfall, call, starts>>

CleanupProfiles ==
    /\ cache' = ProfileCache!Cleanup(cache) /\ cache' # cache
    /\ UNCHANGED <<files, displayNameMap, mapInitialized, unmapped, manager, call, bounds>>

CleanupAbilities ==
    /\ texts' = AbilityCache!Cleanup(texts) /\ texts' # texts
    /\ UNCHANGED <<files, loader, shortfall, call, bounds>>

-----------------------------------------------------------------------------
(* ax agent create, ax agent remove *)

Put(n, profile) ==
    /\ local' = [local EXCEPT ![n] = profile]
    /\ past' = past \union {local'}

\* create: the name is allowed and there is no such local agent; the template is read and the user asked for what is missing.
create(x, n, d) ==
    /\ commands[x].at = "ready" /\ n \notin Refused /\ local[n] = None
    /\ commands' = [commands EXCEPT ![x] = [at |-> "asking", name |-> n, displayName |-> d]]
    /\ UNCHANGED <<local, past, call, loader, manager, bounds>>

\* checkDisplayNameConflict: profiles that do not load are passed over.
Conflict(d) == \E n \in Names \ Refused : Profile(local, n) # None /\ Profile(local, n).valid /\ Profile(local, n).displayName = d
Checked(x) ==
    /\ commands[x].at = "asking"
    /\ commands' = [commands EXCEPT ![x] = IF Conflict(@.displayName) THEN [at |-> "done"] ELSE [@ EXCEPT !.at = "writing"]]
    /\ UNCHANGED <<local, past, call, loader, manager, bounds>>

\* The template with its variables filled in.
rendered(d) == [displayName |-> d, valid |-> TRUE]
\* The file is written, also over one that has come since.
Written(x) ==
    /\ commands[x].at = "writing"
    /\ Put(commands[x].name, rendered(commands[x].displayName))
    /\ commands' = [commands EXCEPT ![x] = [at |-> "done"]]
    /\ UNCHANGED <<call, loader, manager, bounds>>

\* remove: the profile must load and be a local one; the user is asked.
remove(x, n) ==
    /\ commands[x].at = "ready" /\ n \notin Refused /\ local[n] # None /\ local[n].valid
    /\ commands' = [commands EXCEPT ![x] = [at |-> "confirming", name |-> n]]
    /\ UNCHANGED <<local, past, call, loader, manager, bounds>>

\* unlink, which fails if the file has gone.
Removed(x) ==
    /\ commands[x].at = "confirming"
    /\ IF local[commands[x].name] # None THEN Put(commands[x].name, None) ELSE UNCHANGED <<local, past>>
    /\ commands' = [commands EXCEPT ![x] = [at |-> "done"]]
    /\ UNCHANGED <<call, loader, manager, bounds>>

-----------------------------------------------------------------------------
ProfilesInit ==
    /\ local \in InitialLocal
    /\ cache = ProfileCache!Empty /\ texts = AbilityCache!Empty
    /\ displayNameMap = [d \in {} |-> None] /\ mapInitialized = FALSE
    /\ call = [c \in Calls |-> Idle]
    /\ commands = [x \in Commands |-> [at |-> "ready"]]
    /\ starts = 0 /\ expiries = 0
    /\ past = {local}
    /\ unmapped = FALSE /\ shortfall = 0

ProfilesNext ==
    \/ \E c \in Calls :
          \/ \E i \in Identifiers : createContext(c, i)
          \/ ProfileHit(c) \/ ProfileMiss(c) \/ ReadLocal(c) \/ ReadBuiltIn(c) \/ buildProfile(c)
          \/ buildDisplayNameMap(c) \/ ListLocal(c) \/ AddNext(c) \/ LocalAdded(c) \/ ListBuiltIn(c) \/ MapBuilt(c)
          \/ ListingFails(c) \/ Lookup(c) \/ UnknownAgent(c)
          \/ findSimilarAgents(c) \/ CompareNext(c)
          \/ AbilityHit(c) \/ AbilityMiss(c) \/ ReadAbility(c) \/ ContextCreated(c)
    \/ \E n \in Names : ExpireProfile(n)
    \/ \E a \in Abilities : ExpireAbility(a)
    \/ CleanupProfiles \/ CleanupAbilities
    \/ \E x \in Commands :
          \/ \E n \in Names : remove(x, n) \/ \E d \in DisplayNames : create(x, n, d)
          \/ Checked(x) \/ Written(x) \/ Removed(x)

ProfilesSpec == ProfilesInit /\ [][ProfilesNext]_profilesVars

-----------------------------------------------------------------------------
(* Properties *)

\* With the files l, i is the name or the display name of agent n.
DisplayedAs(l, n, i) == Profile(l, n) # None /\ Profile(l, n).displayName = i
Called(l, n, i) == (Profile(l, n) # None /\ n = i) \/ DisplayedAs(l, n, i)
\* An agent goes before another one as a local one, or as readdir sorts them, and for i if i is its name.
Ahead(l, m, n) == IF l[m] # None THEN l[n] # None => Place[m] < Place[n] ELSE l[n] = None /\ Place[m] < Place[n]
Before(l, m, n, i) == m = i \/ (n # i /\ Ahead(l, m, n))

\* An identifier is resolved only to an agent that was called so at some time since the process started, and is refused only
\* if it has a character that is not allowed or the profile of that name was not valid at some time: this whatever calls
\* build the map at once.  No agent that was called so all the time, with a file whose name is allowed, has always been
\* before the one it is resolved to, and it is unknown only if there is no such agent: this through loads, evictions, a map
\* that is built once and files that come and go meanwhile, unless two calls build the map at once or a directory cannot be read.
ResolvedAsMeant == \A c \in Calls : call[c] # Idle =>
    LET n == call[c].name   i == call[c].id
    IN /\ call[c].why = "context" => \E l \in past : Called(l, n, i)
       /\ call[c].at = "refused" =>
             i \in Refused \/ (i \in Names /\ \E l \in past : Profile(l, i) # None /\ ~Profile(l, i).valid)
       /\ ~unmapped /\ (call[c].why = "context" \/ call[c].at = "unknown") =>
             \A m \in Names \ Refused : (\A l \in past : Called(l, m, i)) =>
                n # None /\ (n = m \/ \E l \in past : Before(l, n, m, i))

\* What the ability cache counts as its size is the size of what it holds, but for the entries that
\* were evicted by their own replacement; but for these the cache keeps to its limit.
SizesCounted ==
    /\ texts.total + shortfall = AbilityCache!SizeOf(texts.entries)
    /\ shortfall = 0 => AbilityCache!SizeOf(texts.entries) <= MaxAbilitiesSize
=============================================================================
