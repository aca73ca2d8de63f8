---------------------------- MODULE MCFileTools ----------------------------
(***************************************************************************)
(* The tools that change files, for TLC: calls that meet (FileChanges),    *)
(* one call of apply_diff (UnifiedDiff), one edit after a reading          *)
(* (TextEdits), calls that spell the paths of a tree with links            *)
(* (PathLookup).  They share no state: the model has one of the four       *)
(* running and the others at rest, all four in one run.                    *)
(***************************************************************************)
EXTENDS MCFileChanges, MCPatches, MCTexts, MCPaths

VARIABLE part   \* which of the four runs

toolVars == <<part, vars, patchVars, textVars, pathVars>>

\* The others rest in one of their initial states.
ToolsInit ==
    /\ part \in {"calls", "patch", "edit", "paths"}
    /\ Init /\ (part # "calls" \/ depth = 1 => depth = 1 /\ disk["a"] = Text({}))
    /\ \E r \in IF part = "patch" THEN Patches ELSE {AnyPatch} : PatchStart(r)
    /\ \E w \in IF part = "edit" THEN Workspaces ELSE {AnyWorkspace} : TextStart(w)
    /\ \E s \in IF part = "paths" THEN Sites ELSE {AnySite} : PathStart(s)

Calls == part = "calls" /\ UNCHANGED <<part, patchVars, textVars, pathVars>>
Patching == part = "patch" /\ UNCHANGED <<part, vars, textVars, pathVars>>
Editing == part = "edit" /\ UNCHANGED <<part, vars, patchVars, pathVars>>
Finding == part = "paths" /\ UNCHANGED <<part, vars, patchVars, textVars>>

ToolsNext ==
    \/ Calls /\ Next /\ LastReads' /\ LastComesAfter
    \/ Patching /\ PatchNext
    \/ Editing /\ TextNext
    \/ Finding /\ PathNext /\ LastLooks

ToolsSpec == ToolsInit /\ [][ToolsNext]_toolVars
=============================================================================
