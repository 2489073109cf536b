---------------------------- MODULE S05Remeasure ----------------------------
(***************************************************************************)
(* S05, Controlled Remeasurement: audit that the patch is the only         *)
(* difference, rerun each criterion's command in the patched workspace,    *)
(* gate on comparability, seal the effects and the Measurement.            *)
(*                                                                         *)
(* MetricKind gives the command kind in a criterion's metric id            *)
(* ("<kind>_command_result").  A2 froze the workload and environment ids   *)
(* of the same request, so those two dimensions always compare.            *)
(***************************************************************************)
EXTENDS S04Verify

CONSTANTS
    MetricKind,     \* criterion -> command kind
    MinSamples,     \* criterion -> EvidenceRequirement.minimum_samples
    Value,          \* means a benchmark may yield
    MaxRounds       \* bound on the rounds of a benchmark

ResolvableKinds ==
    {"build", "lint", "type", "unit", "integration", "security", "benchmark"}

S05_10 == Require({BaselineSnapshot}, Returns(NoUpdates))

(* The patch is in scope (S03.60), but it may touch a dependency manifest, *)
(* or a manifest may have drifted since the snapshot.                      *)
S05_20 ==
    LET patch == Current("PatchArtifact") IN
    Require({patch},
        UNION {Seals([s05_isolated |-> isolated],
                     <<Seal(Current("IsolationReport"),
                            [patch |-> Digest(patch), isolated |-> isolated])>>)
                : isolated \in BOOLEAN})

S05_30 == Routes(IF WorkspaceExists THEN "continue" ELSE "rejected", NoUpdates)

Measurable == {c \in Criterion : MetricKind[c] \in ResolvableKinds \cap Commands}

(* A command that could not be started has exit code -1.                   *)
ExitCode == IF WorkspaceExists THEN {-1, 0, 1} ELSE {-1}

(* A benchmark gives its rounds, any other command one exit code.          *)
Aggregates(c) ==
    IF MetricKind[c] # "benchmark" THEN [mean : ExitCode, count : {1}]
    ELSE IF WorkspaceExists THEN [mean : Value, count : 1 .. MaxRounds]
    ELSE {}

(* A job that is refused, times out or has no rounds raises.  The          *)
(* workspace is cleaned up either way.                                     *)
S05_40 ==
    LET done == CleanUps(host, state.s03_workspace)
        runs == {m \in [Measurable -> UNION {Aggregates(c) : c \in Measurable}] :
                    \A c \in Measurable : m[c] \in Aggregates(c)} IN
    {Exec("continue", [s05_measured |-> m], <<>>, h) : m \in runs, h \in done}
        \cup (IF Measurable = {} THEN {} ELSE {Exec("raise", NoUpdates, <<>>, h) : h \in done})

S05_50 == Returns(NoUpdates)

HasBaseline(c) == MetricKind[c] \in DOMAIN BaselineMean

S05_60 ==
    Require({BaselineSnapshot},
        Returns([s05_quality |->
            \A c \in Criterion :
                /\ c \in Measurable
                /\ HasBaseline(c)
                /\ state.s05_measured[c].count >= MinSamples[c]]))

Comparable == state.s05_isolated /\ state.s05_quality

S05_70 ==
    Require({BaselineSnapshot},
        {Exec(IF Comparable THEN "continue" ELSE "rejected", NoUpdates,
              <<Seal(Current("ComparabilityReport"), [comparable |-> Comparable])>>, host)})

S05_80 ==
    LET measured == {c \in DOMAIN state.s05_measured : HasBaseline(c)} IN
    Require({BaselineSnapshot},
        Seals(NoUpdates,
            <<Seal(Current("StatisticalReport"),
                   [effects |-> [c \in measured |-> state.s05_measured[c].mean]])>>))

S05_90 ==
    LET reports == {"IsolationReport", "ComparabilityReport", "StatisticalReport"} IN
    Require({BaselineSnapshot, Current("PatchArtifact")} \cup {Current(r) : r \in reports},
        Seals(NoUpdates,
            <<Seal(Current("Measurement"),
                   [baseline |-> Digest(BaselineSnapshot),
                    patch |-> Digest(Current("PatchArtifact")),
                    reports |-> [r \in reports |-> Digest(Current(r))]])>>))
=============================================================================
