----------------------------- MODULE Configuration -----------------------------
(***************************************************************************)
(* How one invocation of the agent gets its configuration: the built-in    *)
(* defaults, a JSON file, the environment and the command line, in this    *)
(* order, and the validation that comes before a run. Values are texts.    *)
(***************************************************************************)
EXTENDS Naturals

CONSTANTS
    Fields,     \* of Config; "ConfigFile", "Token" and "AutoDiscoveryKey" are some
    Default,    \* field -> text
    Malformed,  \* <<field, text>>: the text is no value of the field's type
    Refused,    \* <<field, text>>: Validate does not accept the value
    Path,       \* the path at which there may be a file
    NoFile, Broken

VARIABLES
    given,      \* what this invocation finds: [file, env, legacy, flags]
    cfg,
    status      \* "given", "loaded", "valid", "failed" or "running"

configVars == <<given, cfg, status>>

\* The flag or the environment selects the file; the file itself cannot.
configFilePath ==
    IF "ConfigFile" \in DOMAIN given.flags THEN given.flags["ConfigFile"]
    ELSE IF "ConfigFile" \in DOMAIN given.env THEN given.env["ConfigFile"]
    ELSE ""

LoadFile(path) ==
    IF path = "" THEN NoFile ELSE IF path = Path THEN given.file ELSE Broken

\* A mutant: a variable that is set to the empty text counts as unset.
EnvironmentNotEmpty ==
    LET names == DOMAIN given.env \cup DOMAIN given.legacy
        text(f) == IF f \in DOMAIN given.env THEN given.env[f] ELSE given.legacy[f]
    IN  [f \in {g \in names : text(g) # ""} |-> text(f)]

\* The old names are looked up only when the new ones are not set.
Environment ==
    [f \in DOMAIN given.env \cup DOMAIN given.legacy |->
        IF f \in DOMAIN given.env THEN given.env[f] ELSE given.legacy[f]]

Overlay(base, source) ==
    [f \in Fields |-> IF f \in DOMAIN source THEN source[f] ELSE base[f]]

LoadFails ==
    \/ LoadFile(configFilePath) = Broken
    \/ \E f \in DOMAIN Environment : <<f, Environment[f]>> \in Malformed

\* loadConfiguration. A malformed variable fails it also when a flag overrides it.
Load ==
    /\ status = "given" /\ UNCHANGED given
    /\ IF LoadFails THEN status' = "failed" /\ UNCHANGED cfg
       ELSE LET path == configFilePath
                file == IF path = "" THEN Default ELSE Overlay(Default, given.file)
                values == Overlay(Overlay(file, Environment), given.flags)
            IN  status' = "loaded" /\ cfg' = [values EXCEPT !["ConfigFile"] = path]

\* Before app.Run; the other commands run without it.
Validate ==
    /\ status = "loaded" /\ UNCHANGED <<given, cfg>>
    /\ status' = IF \/ cfg["Token"] = "" /\ cfg["AutoDiscoveryKey"] = ""
                    \/ \E f \in Fields : <<f, cfg[f]>> \in Refused
                 THEN "failed" ELSE "valid"

-----------------------------------------------------------------------------

\* The value a source gives a field, highest precedence first.
Sources(f) ==
    LET file == LoadFile(configFilePath)
        Says(source) == IF f \in DOMAIN source THEN {source[f]} ELSE {}
    IN  <<Says(given.flags), Says(given.env), Says(given.legacy),
          IF file = NoFile THEN {} ELSE Says(file), {Default[f]}>>

\* "Built-in defaults < JSON file < AGENT_* environment variables < explicit CLI
\* flags" (root.go:57), with a variable that is set to the empty text among the
\* explicit ones; what a file says of config_file counts for nothing.
HighestSourceWins ==
    status \in {"loaded", "valid"} =>
        \A f \in Fields :
            LET first == CHOOSE n \in 1..5 :
                    Sources(f)[n] # {} /\ \A m \in 1..(n - 1) : Sources(f)[m] = {}
            IN  IF f = "ConfigFile" THEN cfg[f] = configFilePath
                ELSE cfg[f] \in Sources(f)[first] /\ <<f, cfg[f]>> \notin Malformed
=============================================================================
