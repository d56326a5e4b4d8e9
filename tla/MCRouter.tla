------------------------------- MODULE MCRouter -------------------------------
\* Instances of Router for TLC.
EXTENDS Router

SamePrompt == [c \in Calls |-> CHOOSE q \in Prompts : TRUE]

Order == [p \in Providers |->
            IF p = CHOOSE q \in Providers : TRUE THEN 1 ELSE 2]
===============================================================================
