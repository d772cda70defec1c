------------------------------- MODULE MCLinus -------------------------------
(* All tables of at most 4 commits of three users to two projects, and those *)
(* of 3 that may also name a user and a project that are nowhere else; their *)
(* rows are dealt to the nodes one by one.  Two degrees need a chain of four *)
(* commits: of Linus, of a user to the same project and to another one, and  *)
(* of a third user to that one.                                              *)
EXTENDS Linus, SequencesExt

KnownCommits   == BoundedSeq((0 .. 1) \X (0 .. 2), 4)
UnknownCommits == BoundedSeq({<<0, 0>>, <<0, 1>>, <<1, 1>>, <<1, 2>>, <<0, 3>>,
                              <<1, 3>>, <<2, 1>>, <<2, 2>>}, 3)
MCCommits      == KnownCommits \cup UnknownCommits
=============================================================================
