---- MODULE MCUnobtrusiveValidation ----
(* A form of two fields: a pin of two characters is required, a nick has at *)
(* most two, and the server must not know it yet.                           *)
EXTENDS UnobtrusiveValidation, TLC

CONSTANTS pin, nick

MCAttributes ==
    pin :> [required |-> TRUE, checkbox |-> FALSE, remote |-> FALSE, min |-> 2, max |-> 2]
 @@ nick :> [required |-> FALSE, checkbox |-> FALSE, remote |-> TRUE, min |-> None, max |-> 2]

MCReplace == pin :> "true" @@ nick :> "absent"

====
