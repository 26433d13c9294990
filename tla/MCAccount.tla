------------------------------ MODULE MCAccount ------------------------------
(* A login with a few files and variables, for TLC. *)
EXTENDS Login

File(owner, tight, lines) == [reg |-> TRUE, tight |-> tight, owner |-> owner, lines |-> lines]

\* The user's list, one in the superuser's hands whose last line has no
\* newline, one without the key, one cut short by a long line, one others may write, one that is
\* another user's, and a directory.
SomeFiles ==
  [mine |-> File("uid", TRUE, <<"other", "key", "other">>),
   last |-> File("root", TRUE, <<"other", "key">>),
   plain |-> File("uid", TRUE, <<"other", "other">>),
   cut |-> File("uid", TRUE, <<"long", "key", "other">>),
   open |-> File("uid", FALSE, <<"key">>),
   theirs |-> File("other", TRUE, <<"key">>),
   dir |-> [File("uid", TRUE, <<"key">>) EXCEPT !.reg = FALSE]]

SomePaths == [home |-> {"/", "home"}, tmp |-> {"/", "tmp"}]

SomeLayouts == {[home |-> i, tmp |-> "mine"] : i \in DOMAIN SomeFiles}
=============================================================================
