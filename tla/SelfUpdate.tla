----------------------------- MODULE SelfUpdate -----------------------------
(***************************************************************************)
(* codemcp --update (update.go): a release is fetched, its checksum        *)
(* compared, and the executable replaced by two renames, with a backup     *)
(* under the name exe.old in between.  Every call on the file system may   *)
(* fail, and the process may stop between any two of them.  What a stop of *)
(* the machine leaves is not modelled: the staged file is not synced before*)
(* it is renamed, nor before the old binary is removed.                    *)
(* Windows refuses to remove, or to rename over, the image of a running    *)
(* program; it lets it be renamed.                                         *)
(*                                                                         *)
(* A binary is the number of its release, and 0 no file.                   *)
(***************************************************************************)
EXTENDS Naturals

CONSTANTS
  MaxReleases   \* bound: releases there ever are

ASSUME ReleasesAssumption == MaxReleases \in Nat \ {0}

VARIABLES
  windows,   \* the platform
  exe,       \* the release under the executable's name
  backup,    \* ... under exe.old
  staged,    \* ... under the staging file's name, "part" while it is written
  held,      \* releases whose image a running process holds
  step,      \* where the update is
  before,    \* exe when the update began
  release,   \* what it installs
  answer,    \* what the last update answered: "none", "ok" or "failed"
  stranded   \* an update was cut short between its renames, or its rollback failed

suVars == <<windows, exe, backup, staged, held, step, before, release, answer,
            stranded>>

Releases == 0 .. MaxReleases

(* TLC: every variable keeps its type.                                      *)
UpdateTypeOK ==
  /\ {windows, stranded} \subseteq BOOLEAN
  /\ {exe, backup, before, release} \subseteq Releases
  /\ staged \in [whole : BOOLEAN, of : Releases]
  /\ held \subseteq Releases
  /\ step \in {"idle", "fetch", "write", "clear", "aside", "install",
               "restore", "tidy", "drop"}
  /\ answer \in {"none", "ok", "failed"}

NoFile == [whole |-> TRUE, of |-> 0]

UpdateInit ==
  /\ windows \in BOOLEAN
  /\ exe = 1 /\ backup = 0 /\ staged = NoFile
  /\ held = {}
  /\ step = "idle"
  /\ before = 0 /\ release = 0
  /\ answer = "none"
  /\ stranded = FALSE

(* os.Remove's outcome at a name that holds a release. *)
Removed(r) == IF windows /\ r \in held THEN {r} ELSE {0, r}

(* Renaming over a release may be refused, and is on Windows while it runs.  *)
MayReplace(r) == ~(windows /\ r \in held)

-----------------------------------------------------------------------------

(* The update runs from the executable itself, whose image it holds.  The    *)
(* latest release, or the one that was named, is fetched ...                 *)
UpdateBegins ==
  /\ step = "idle" /\ exe # 0
  /\ release' \in 1 .. MaxReleases \ {exe}
  /\ before' = exe
  /\ held' = held \cup {exe}
  /\ step' = "fetch"
  /\ answer' = "none"
  /\ UNCHANGED <<windows, exe, backup, staged, stranded>>

Fails ==
  /\ step' = "drop"
  /\ answer' = "failed"

(* ... and compared with its checksum, before anything is written: what does *)
(* not match, a body cut at the limit among it, is not installed.            *)
ChecksumDecides ==
  /\ step = "fetch"
  /\ \/ Fails /\ UNCHANGED staged
     \/ /\ step' = "write"
        /\ staged' = [whole |-> FALSE, of |-> release]
        /\ UNCHANGED answer
  /\ UNCHANGED <<windows, exe, backup, held, before, release, stranded>>

(* replaceExecutable: the staging file is written, closed and made           *)
(* executable.                                                               *)
StageBinary ==
  /\ step = "write"
  /\ \/ Fails /\ UNCHANGED staged
     \/ /\ staged' = [staged EXCEPT !.whole = TRUE]
        /\ step' = "clear"
        /\ UNCHANGED answer
  /\ UNCHANGED <<windows, exe, backup, held, before, release, stranded>>

(* os.Remove(backup), whose error is ignored.                                *)
ClearBackup ==
  /\ step = "clear"
  /\ backup' \in Removed(backup)
  /\ step' = "aside"
  /\ UNCHANGED <<windows, exe, staged, held, before, release, answer, stranded>>

RemovesInstead ==  \* mutant: the old binary is removed, as a Unix update may
  /\ step = "aside"
  /\ \/ Fails /\ UNCHANGED <<exe, backup>>
     \/ exe' = 0 /\ step' = "install" /\ UNCHANGED <<backup, answer>>
  /\ UNCHANGED <<windows, staged, held, before, release, stranded>>

(* os.Rename(exe, backup).                                                   *)
MoveAside ==
  /\ step = "aside"
  /\ \/ Fails /\ UNCHANGED <<exe, backup>>
     \/ /\ MayReplace(backup)
        /\ backup' = exe /\ exe' = 0
        /\ step' = "install"
        /\ UNCHANGED answer
  /\ UNCHANGED <<windows, staged, held, before, release, stranded>>

(* os.Rename(staged, exe).                                                   *)
InstallStaged ==
  /\ step = "install"
  /\ \/ step' = "restore" /\ UNCHANGED <<exe, staged>>
     \/ exe' = staged.of /\ staged' = NoFile /\ step' = "tidy"
  /\ UNCHANGED <<windows, backup, held, before, release, answer, stranded>>

(* The rollback, os.Rename(backup, exe), whose error is ignored.             *)
PutBack ==
  /\ step = "restore"
  /\ \/ exe' = backup /\ backup' = 0 /\ UNCHANGED stranded
     \/ stranded' = TRUE /\ UNCHANGED <<exe, backup>>
  /\ Fails
  /\ UNCHANGED <<windows, staged, held, before, release>>

(* os.Remove(backup) once more, and the answer.                              *)
TidyBackup ==
  /\ step = "tidy"
  /\ backup' \in Removed(backup)
  /\ step' = "drop"
  /\ answer' = "ok"
  /\ UNCHANGED <<windows, exe, staged, held, before, release, stranded>>

(* The process ends; a server started from the same image holds it further.  *)
LetsGo == held' \in {held, held \ {before}}

(* The deferred removal of the staging file.                                 *)
DropStaged ==
  /\ step = "drop"
  /\ staged' = NoFile
  /\ step' = "idle"
  /\ LetsGo
  /\ UNCHANGED <<windows, exe, backup, before, release, answer, stranded>>

(* The process stops: what it has asked of the file system stays done, the   *)
(* staging file under a name nothing looks for.                              *)
CutShort ==
  /\ step # "idle"
  /\ step' = "idle"
  /\ stranded' = (stranded \/ exe = 0)
  /\ staged' = NoFile
  /\ LetsGo
  /\ UNCHANGED <<windows, exe, backup, before, release, answer>>

(* A server is started from the executable, or one ends.                     *)
ServerStarts ==
  /\ exe # 0 /\ exe \notin held
  /\ held' = held \cup {exe}
  /\ UNCHANGED <<windows, exe, backup, staged, step, before, release, answer,
                 stranded>>

ServerEnds(r) ==
  /\ r \in held
  /\ step = "idle" \/ r # before
  /\ held' = held \ {r}
  /\ UNCHANGED <<windows, exe, backup, staged, step, before, release, answer,
                 stranded>>

UpdateStep ==
  \/ UpdateBegins \/ ChecksumDecides \/ StageBinary \/ ClearBackup
  \/ MoveAside \/ InstallStaged \/ PutBack \/ TidyBackup \/ DropStaged
  \/ CutShort
  \/ ServerStarts
  \/ \E r \in Releases : ServerEnds(r)

UpdateSpec == UpdateInit /\ [][UpdateStep]_suVars

-----------------------------------------------------------------------------
(* Properties. *)

(* Wherever the process of an update stops, what is under the executable's   *)
(* name is a whole release, and while nothing is there a whole one is under  *)
(* exe.old: the name can be lost, the binary cannot.  The name is empty only *)
(* between the two renames, unless the update was cut short there or its     *)
(* rollback failed. And an update that says it stands has installed its      *)
(* release, one that says it failed has left the executable it found, unless *)
(* its rollback failed too (update.go:92-96, 161-203).                       *)
BinaryNeverLost ==
  /\ UpdateTypeOK
  /\ exe = 0 => backup # 0
  /\ step # "idle" => exe \in {0, before, release}
  /\ step \in {"install", "restore"} => backup = before
  /\ exe = 0 => step \in {"install", "restore"} \/ stranded
  /\ step = "drop" /\ answer = "ok" => exe = release
  /\ step = "drop" /\ answer = "failed" => exe = before \/ stranded

=============================================================================
