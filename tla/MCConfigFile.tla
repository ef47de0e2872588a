---------------------------- MODULE MCConfigFile ----------------------------
(* Two processes of the program and the user at one configuration file.      *)
EXTENDS ConfigFile, TLC

CONSTANTS p1, p2
MCProcesses == {p1, p2}
Symmetry    == Permutations(MCProcesses)

Written == [uri |-> "mirror", prefix |-> "true", base |-> "dec", debounce |-> "450",
            statics |-> "false", rules |-> "vendor", elements |-> "16",
            writeBack |-> "true", bias |-> "5", other |-> "x"]
MCHandWritten ==
    {NoFile, Broken, Map(Written),
     Map([Written EXCEPT !.base = Bad, !.debounce = Nested, !.rules = Bad, !.bias = Bad]),
     Map([k \in {"statics", "bias", "writeBack", "other"} |->
             IF k = "statics" THEN Bad ELSE Written[k]]),
     Map([k \in {"base", "elements", "bias", "writeBack"} |->
             IF k = "bias" THEN Nested ELSE Written[k]]),
     Map([prefix |-> Flat, debounce |-> "450"]),
     Map([uri |-> Nested, base |-> "dec"]), Map([uri |-> NoText, base |-> "dec"])}

MCBiasTexts == {"7", Bad}

\* 0.2.9
MCCurrentVersion == <<"0", ".", "2", ".", "9">>
MCVersions ==
    {<<"v", "0", ".", "2", ".", "1", "0">>, <<"0", ".", "2">>,
     <<"V", "0", ".", "2", ".", "9", "+", "9">>, <<"0", ".", "3">>,
     <<"0", ".", "2", ".", "9", "-", "r", "c", "1">>, <<"r", "1">>, <<"0", ".", "9", "9">>,
     <<"0", ".", "2", ".", "0", "9", ".", "0">>}
=============================================================================
