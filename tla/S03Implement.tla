---------------------------- MODULE S03Implement ----------------------------
(***************************************************************************)
(* S03, Implement Phase: pick the first phase with unverified tasks, edit  *)
(* a fresh isolated workspace, reject edits outside the plan's scope or    *)
(* that fail sanitation, seal the patch.                                   *)
(*                                                                         *)
(* A workspace is a number; host.workspaces maps the directories that      *)
(* exist to the edit they hold.                                            *)
(***************************************************************************)
EXTENDS S02Plan

CONSTANT MaxLeaks   \* bound on the cleanups that leave their directory

(* What an executor leaves: in scope and clean, a change out of scope, or  *)
(* a file sanitation refuses (secret, binary, lockfile, migration).        *)
Edit == {"clean", "stray", "unclean"}

PhaseTasks(ph) == {t.id : t \in {u \in Artifact(TaskList).tasks : u.phase = ph}}

Remaining ==
    {ph \in Artifact(ExecutionPlan).phases : ~(PhaseTasks(ph) \subseteq state.s03_completed)}

(* The directory is gone, if it was there.                                 *)
CleanedUp(h, ws) ==
    [h EXCEPT !.workspaces = [w \in DOMAIN @ \ {ws} |-> @[w]]]

(* _cleanup_workspace: neither `git worktree remove' nor rmtree reports an *)
(* error, so the directory may stay.                                       *)
CleanUps(h, ws) ==
    {CleanedUp(h, ws)}
      \cup IF ws \in DOMAIN h.workspaces /\ h.leaks < MaxLeaks
             THEN {[h EXCEPT !.leaks = @ + 1]} ELSE {}

(* With no phase left the active phase keeps its value; otherwise the      *)
(* policy decides.                                                         *)
S03_10 ==
    Require({ExecutionPlan, TaskList},
        IF Remaining = {} THEN Routes("rejected", NoUpdates)
        ELSE UNION {Routes(route, [s03_active_phase |-> Min(Remaining)])
                        : route \in {"continue", "rejected"}})

(* mkdtemp, and the source in it.                                          *)
WithWorkspace(h) ==
    [h EXCEPT !.made = @ + 1,
              !.workspaces = [w \in DOMAIN @ \cup {h.made + 1} |->
                  IF w = h.made + 1 THEN "source" ELSE @[w]]]

(* Mutant: the workspace of the last attempt is left behind.               *)
S03_20_Leaking ==
    {Exec("continue", [s03_workspace |-> host.made + 1], <<>>, WithWorkspace(host))}

(* It may raise before the directory is made (no snapshot, no space) or    *)
(* after (copytree), with its path never recorded.                         *)
S03_20 ==
    UNION {{Exec("continue", [s03_workspace |-> host.made + 1], <<>>, WithWorkspace(h)),
            Exec("raise", NoUpdates, <<>>, h),
            Exec("raise", NoUpdates, <<>>, WithWorkspace(h))}
            : h \in CleanUps(host, state.s03_workspace)}

S03_30 ==
    Require({Selected},
        Returns([s03_executor |->
            IF Strategy.tier = 0 THEN "deterministic_config" ELSE "llm_driven"]))

S03_40 == Require({ExecutionPlan, TaskList}, Returns(NoUpdates))

(* Both executors write declared paths only, and either may leave any      *)
(* edit: a declared file may be a lockfile or hold an undeclared symbol,   *)
(* and the command the agent loop may run writes what it likes.  A model   *)
(* call of the loop may raise, in the middle of an edit.                   *)
S03_50 ==
    {Exec(route, NoUpdates, <<>>,
          [host EXCEPT !.workspaces =
              [w \in DOMAIN @ |-> IF w = state.s03_workspace THEN edit ELSE @[w]]])
        : edit \in Edit,
          route \in {"continue"} \cup (IF state.s03_executor = "llm_driven"
                                         THEN {"raise"} ELSE {})}

(* Reject the edit and remove its workspace.                               *)
Discard ==
    {Exec("rejected", NoUpdates, <<>>, h) : h \in CleanUps(host, state.s03_workspace)}

(* Only files of the workspace are compared with the source: one that is   *)
(* gone has no changed file.                                               *)
InScope ==
    state.s03_workspace \in DOMAIN host.workspaces
        => host.workspaces[state.s03_workspace] # "stray"

S03_60 == IF InScope THEN Returns(NoUpdates) ELSE Discard

(* Mutant: findings are reported and not gated on.                         *)
Sanitary_Reported == TRUE

(* Only files that exist are scanned.                                      *)
Sanitary ==
    state.s03_workspace \in DOMAIN host.workspaces
        => host.workspaces[state.s03_workspace] # "unclean"

S03_70 == IF Sanitary THEN Returns(NoUpdates) ELSE Discard

(* The diff is taken from the workspace as it is now.                      *)
S03_80 ==
    LET provenance == Current("ExecutionProvenance")
        edit == IF state.s03_workspace \in DOMAIN host.workspaces
                  THEN host.workspaces[state.s03_workspace] ELSE "missing" IN
    Require({ExecutionPlan, TaskList},
        Seals(NoUpdates,
            <<Seal(provenance, [plan |-> Digest(ExecutionPlan)]),
              Seal(Current("PatchArtifact"),
                   [plan |-> Digest(ExecutionPlan), provenance |-> clock + 1,
                    diff |-> edit])>>))

(* The workspace stays for S04 and S05.                                    *)
S03_90 ==
    Require({TaskList},
        Returns([s03_implemented |->
            state.s03_implemented \cup PhaseTasks(state.s03_active_phase)]))
=============================================================================
