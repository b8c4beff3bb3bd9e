--------------------------- MODULE MCMarlinDriver ---------------------------
(* Instances of MarlinDriver for TLC. *)
EXTENDS MarlinDriver, TLC

CONSTANTS print, macro   \* a print, and an override the server spools

\* A print with a comment line and two G-Codes, and a one line override.
ShortLines == (print :> <<"gcode", "comment", "gcode">>) @@ (macro :> <<"gcode">>)

\* A print that waits for a move to reach a mark.
MarkLines ==
  (print :> <<"mark", "gcode", "wait", "blocking">>) @@ (macro :> <<"gcode">>)

\* A single G-Code.
OneLine == (print :> <<"gcode">>)

=============================================================================
