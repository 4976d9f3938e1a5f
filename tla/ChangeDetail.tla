---------------------------- MODULE ChangeDetail ----------------------------
(***************************************************************************)
(* How much of a change the git index keeps: what is read from git's raw,  *)
(* numstat and patch output for a diff, and the rows that are made of it   *)
(* within the budgets.                                                     *)
(*                                                                         *)
(* A diff is a sequence of files in git's order.  Of a file it has its     *)
(* path (a sequence of names), its path before a rename or <<>>, what      *)
(* happened to it, its changed lines, the size of its printed patch and    *)
(* the number of its hunks.                                                *)
(***************************************************************************)
EXTENDS Naturals, Sequences, FiniteSets, SequencesExt, Functions

CONSTANTS
    PullMaxFiles, PullMaxLines,  \* beyond these a pull request is oversized
    FileMaxBytes, FileMaxLines,  \* beyond these a file keeps its path only
    Commit, Merge                \* the budgets of ordinary and of merge commits

Budgets == [fullFiles : Nat, fullLines : Nat, fullBytes : Nat, pathFiles : Nat, pathLines : Nat]

ASSUME BudgetsAssumption ==
    /\ {PullMaxFiles, PullMaxLines, FileMaxBytes, FileMaxLines} \subseteq Nat
    /\ {Commit, Merge} \subseteq Budgets
    /\ \A b \in {Commit, Merge} : b.fullFiles <= b.pathFiles /\ b.fullLines <= b.pathLines

(* What git reports of a file.  The names in a path hold no slash and have *)
(* no blanks at their ends (normalizePatchPath would trim them); a file    *)
(* that was removed is not one that was renamed.                           *)
DevNull == <<"/dev/null">>
DiffFiles ==
    {f \in [path : Seq(STRING) \ {<<>>}, prev : Seq(STRING), status : STRING, lines : Nat, bytes : Nat, hunks : Nat] :
        f.path # DevNull /\ (f.status = "removed" => f.prev = <<>>)}
-----------------------------------------------------------------------------
(* The files of a diff, before its patch is read.                          *)
Blank == [lines |-> 0, as |-> "", bytes |-> 0, hunks |-> 0, patchOf |-> <<>>]

mergeFileMetadata(diff) ==
    [p \in {diff[i].path : i \in DOMAIN diff} |->
        [Blank EXCEPT !.lines = (CHOOSE f \in ToSet(diff) : f.path = p).lines]]

(* The names in a patch: a/ and b/ stand before the path.                  *)
OrigName(f) == IF f.status = "added" THEN DevNull
               ELSE <<"a">> \o (IF f.prev = <<>> THEN f.path ELSE f.prev)
NewName(f) == IF f.status = "removed" THEN DevNull ELSE <<"b">> \o f.path

TrimPrefix(name, first) == IF Len(name) > 1 /\ Head(name) = first THEN Tail(name) ELSE name

(* Mutant of normalizePatchPath: the prefix of the old name only.          *)
trimmedOldOnly(name) == TrimPrefix(name, "a")

(* Both prefixes are trimmed, whatever the name had.                       *)
normalizePatchPath(name) == TrimPrefix(TrimPrefix(name, "a"), "b")

PatchPath(f) ==
    LET new == normalizePatchPath(NewName(f))
    IN IF new = DevNull THEN normalizePatchPath(OrigName(f)) ELSE new

(* Only the size decides whether the hunks are kept.                       *)
applyFileDiffDetails(file, f) ==
    LET filed == [file EXCEPT !.patchOf = f.path, !.bytes = f.bytes] IN
    IF f.bytes > FileMaxBytes \/ file.lines > FileMaxLines
    THEN [filed EXCEPT !.as = "paths_only"]
    ELSE [filed EXCEPT !.hunks = f.hunks, !.as = IF @ = "" THEN "full" ELSE @]

(* A patch whose path is not among the files adds a file.                  *)
applyPatchDetails(files, diff) ==
    LET File(fs, p) == IF p \in DOMAIN fs THEN fs[p] ELSE Blank
        Apply(fs, f) ==
            LET q == PatchPath(f)
            IN [p \in DOMAIN fs \cup {q} |-> IF p = q THEN applyFileDiffDetails(File(fs, q), f) ELSE fs[p]]
    IN FoldLeft(Apply, files, diff)

Reduced(files) == \E p \in DOMAIN files : files[p].as \notin {"", "full"}
Lines(files) == FoldFunction(+, 0, [p \in DOMAIN files |-> files[p].lines])
Bytes(files) == FoldFunction(+, 0, [p \in DOMAIN files |-> files[p].bytes])
Hunks(rows) == FoldFunction(+, 0, [p \in DOMAIN rows |-> rows[p].hunks])
Count(files) == Cardinality(DOMAIN files)

(* The row of a file: hunks go with full detail only.                      *)
FileRow(file, default) ==
    LET as == IF file.as = "" THEN default ELSE file.as
    IN [as |-> as, bytes |-> file.bytes, patchOf |-> file.patchOf, hunks |-> IF as = "full" THEN file.hunks ELSE 0]
Rows(files, default) == [p \in DOMAIN files |-> FileRow(files[p], default)]
-----------------------------------------------------------------------------
(* The index of a pull request.                                            *)
pullRequestIndexedAs(files) ==
    IF Count(files) > PullMaxFiles \/ Lines(files) > PullMaxLines THEN "oversized" ELSE "full"

PullIndex(diff) ==
    LET files   == mergeFileMetadata(diff)
        patched == applyPatchDetails(files, diff)
        rows    == Rows(patched, "full")
    IN IF pullRequestIndexedAs(files) = "oversized"
       THEN [as |-> "oversized", rows |-> Rows(files, "paths_only")]
       ELSE [as |-> CASE Reduced(patched)                      -> "mixed"
                      [] ~Reduced(patched) /\ Hunks(rows) = 0 /\ diff # <<>> -> "paths_only"
                      [] OTHER                                 -> "full",
             rows |-> rows]
-----------------------------------------------------------------------------
(* The index of a commit against one of its parents.                       *)
(* Mutant of decideCommitDetailLevel: the limits of ordinary commits.      *)
levelOfAnyCommit(count, lines, budget) ==
    CASE count <= Commit.fullFiles /\ lines <= Commit.fullLines -> "full"
      [] count <= budget.pathFiles /\ lines <= budget.pathLines -> "paths_only"
      [] OTHER                                                  -> "skipped"

decideCommitDetailLevel(count, lines, budget) ==
    CASE count <= budget.fullFiles /\ lines <= budget.fullLines -> "full"
      [] count <= budget.pathFiles /\ lines <= budget.pathLines -> "paths_only"
      [] OTHER                                                  -> "skipped"

commitPatchBytesExceedBudget(bytes, budget) == bytes > budget.fullBytes

downgradeCommitFilesToPathsOnly(files) ==
    [p \in DOMAIN files |-> [files[p] EXCEPT !.as = "paths_only", !.bytes = 0, !.hunks = 0, !.patchOf = <<>>]]

ParentIndex(diff, merge) ==
    LET budget  == IF merge THEN Merge ELSE Commit
        files   == mergeFileMetadata(diff)
        patched == applyPatchDetails(files, diff)
        level   == decideCommitDetailLevel(Count(files), Lines(files), budget)
        Row(as, rows) == [as |-> as, count |-> Count(files), rows |-> rows]
    IN CASE level = "skipped"    -> Row("skipped", <<>>)
         [] level = "paths_only" -> Row("paths_only", Rows(files, "paths_only"))
         [] level = "full" ->
                IF commitPatchBytesExceedBudget(Bytes(patched), budget) \/ Reduced(patched)
                THEN Row("paths_only", Rows(downgradeCommitFilesToPathsOnly(patched), "paths_only"))
                ELSE Row("full", Rows(patched, "full"))
=============================================================================
