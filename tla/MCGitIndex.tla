----------------------------- MODULE MCGitIndex -----------------------------
(* Two pull requests that share a commit; the first is force-pushed; one   *)
(* commit of the second is a merge.                                        *)
EXTENDS GitIndex

CONSTANTS p1, p2, i1, i2, c1, c2, c3

MCCommitsOf == (p1 :> <<{c1}, {c2}>>) @@ (p2 :> <<{c1, c3}>>)
MCParents == (c1 :> 1) @@ (c2 :> 1) @@ (c3 :> 2)
MCCommit == [fullFiles |-> 2, fullLines |-> 6, fullBytes |-> 5, pathFiles |-> 3, pathLines |-> 8]
MCMerge == [fullFiles |-> 2, fullLines |-> 5, fullBytes |-> 3, pathFiles |-> 2, pathLines |-> 7]

File(path, prev, status, lines, bytes, hunks) ==
    [path |-> path, prev |-> prev, status |-> status, lines |-> lines, bytes |-> bytes, hunks |-> hunks]

small   == File(<<"a", "x">>, <<>>, "modified", 2, 2, 1)
under_b == File(<<"b", "x">>, <<>>, "modified", 2, 2, 1)
renamed == File(<<"y">>, <<"b", "y">>, "renamed", 0, 1, 0)
heavy   == File(<<"z">>, <<>>, "added", 2, 4, 1)
long    == File(<<"z">>, <<>>, "modified", 5, 2, 1)
huge    == File(<<"z">>, <<>>, "modified", 8, 2, 1)
wide    == File(<<"w">>, <<>>, "modified", 4, 1, 1)
removed == File(<<"b", "y">>, <<>>, "removed", 1, 1, 1)

MCDiffs == {<<small, under_b>>, <<renamed>>, <<renamed, heavy>>, <<small, long>>, <<small, under_b, renamed>>,
            <<huge>>, <<small, under_b, renamed, heavy>>, <<small, removed>>, <<small, wide>>}
=============================================================================
