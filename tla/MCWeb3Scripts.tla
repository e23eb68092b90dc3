--------------------------- MODULE MCWeb3Scripts ----------------------------
(* Values for the constants of Web3Scripts.                                *)
EXTENDS Web3Scripts, TLC

CONSTANTS s1, s2, s3

\* Two runs set the same number, and a third one another.
MCNumber == s1 :> 20 @@ s2 :> 30 @@ s3 :> 20

=============================================================================
