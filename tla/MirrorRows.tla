----------------------------- MODULE MirrorRows -----------------------------
(***************************************************************************)
(* The rows of the mirror and the statements of the one projector that     *)
(* webhooks, targeted refreshes and bootstraps share: upserts that insert, *)
(* upserts that keep the newer row, deletions that cascade.                 *)
(*                                                                         *)
(* One object of each kind stands for all of its kind: the rows of         *)
(* different objects only meet through a parent.  A pull request owns two  *)
(* rows, its own and the issue row that GitHub gives it.  A version is     *)
(* [n, at]: what the object looked like after GitHub's n-th change, and    *)
(* the updated_at it carries, which ticks more slowly than the changes.    *)
(***************************************************************************)
EXTENDS Naturals, Sequences

Kinds == {"issue", "issue_comment", "pull_request", "pull_request_review",
          "pull_request_review_comment"}

(* A pull request is stored as a pull request and as an issue.             *)
Rows == Kinds \cup {"pull_request_issue"}

(* The object whose row an object's row refers to; an object with none is  *)
(* its own parent.                                                         *)
Parent == [k \in Kinds |-> CASE k = "issue_comment" -> "issue"
                             [] k \in {"pull_request_review", "pull_request_review_comment"} -> "pull_request"
                             [] OTHER -> k]

(* The rows of which an upsert keeps the newer version.                    *)
Gated == {"issue", "pull_request_issue", "pull_request"}

(* The kinds GitHub reports deletions of.                                  *)
Deletable == {"issue", "issue_comment", "pull_request_review_comment"}

Absent == [n |-> 0, at |-> 0]
Exists(rows, r) == rows[r] # Absent

(* INSERT ... ON CONFLICT DO UPDATE: the issue and the pull request upserts *)
(* carry WHERE excluded.github_updated_at > the stored one, the others      *)
(* overwrite.                                                               *)
(* Mutant of KeepsStored: no row is kept.                                  *)
KeepsNone(rows, r, v) == FALSE
KeepsStored(rows, r, v) == r \in Gated /\ Exists(rows, r) /\ v.at <= rows[r].at
Upserted(rows, r, v) == IF KeepsStored(rows, r, v) THEN rows ELSE [rows EXCEPT ![r] = v]

(* DELETE of an issue takes its comments with it (ON DELETE CASCADE).      *)
Deleted(rows, r) ==
    [s \in Rows |-> IF s = r \/ (s \in Kinds /\ Parent[s] = r) THEN Absent ELSE rows[s]]

(* The row a child refers to is looked up first; without it the upsert     *)
(* fails.                                                                  *)
MissesParent(rows, r) == r \in Kinds /\ ~Exists(rows, Parent[r]) /\ Parent[r] # r

(* The upserts that store one object: of a pull request first the issue,   *)
(* of anything with a parent first the parent.                             *)
ObjectUpserts(k, v) ==
    IF k = "pull_request" THEN << <<"upsert", "pull_request_issue", v>>, <<"upsert", k, v>> >>
    ELSE << <<"upsert", k, v>> >>
=============================================================================
