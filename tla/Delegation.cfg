SPECIFICATION Spec
CONSTANTS
    cto = cto
    web = web
    api = api
    ops = ops
    Agents = {cto, web, api, ops}
    Strangers = {x}
    NameOf <- SomeNames
    Broken = {ops}
    Deps <- SomeDeps
    Limit <- SomeLimits
    Tasks = {t1, t2}
    UserTask = t0
    MaxMentions = 2
    Timed = TRUE
INVARIANTS
    AnsweredInFull
    DelegationBounded
PROPERTIES
    FailureContained
    RunReturns
