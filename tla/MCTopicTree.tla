---------------------------- MODULE MCTopicTree ----------------------------
(* Values for the constants of TopicTree.                                  *)
EXTENDS TopicTree

\* Two branches with a common stem, and a key that is the parent of another.
MCKeys == {<<"a">>, <<"a", "b">>, <<"a", "c", "d">>}

\* One pattern of every kind: literal, one layer in the middle and at the end,
\* all layers at the root, below a stem and followed by a key that is ignored.
MCPatterns == {<<"a", "b">>, <<"a", "*">>, <<"*", "#">>, <<"#", "b">>}

=============================================================================
