--------------------------- MODULE MCConfiguration ---------------------------
(* A YAML file that loadConfig finds first and a JSON file that the commands find first, of two users' making. *)
EXTENDS Configuration

CONSTANTS hiddenYaml, projectJson

MCLoadOrder == <<hiddenYaml, projectJson>>
MCCommandOrder == <<projectJson>>
MCYaml == {hiddenYaml}
MCContents == { [memory |-> [maxEntries |-> 3]],
                [execution |-> Null] }
=============================================================================
