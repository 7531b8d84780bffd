---------------------------- MODULE MCLineReader ----------------------------
(* Instances of LineReader: what the sender says.                           *)
EXTENDS LineReader

(* A line, an empty one, two of one character and the rest; one line too     *)
(* long, one of one character and the rest.                                 *)
MCScripts == {{2, 3, 5, 7}, {4, 6, 7}}
=============================================================================
