---------------------------- MODULE MCMapReduce -----------------------------
(* Values for the constants of MapReduce.                                  *)
EXTENDS MapReduce

\* Four spaces and three groups: it takes five iterations until no group moves;
\* spaces change groups, two groups tie for a space, one is left empty.
MCValues == <<2, 6, 14, 40>>
MCStart == <<1, 2, 9>>

\* Fewer where more happens at the same time.
FewValues == <<2, 9>>
FewStart == <<1, 2>>

\* As Docker-Compose.yml has it.
UntilNoneMoves == -1

=============================================================================
