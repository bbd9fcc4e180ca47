------------------------------ MODULE MCConfig ------------------------------
(***************************************************************************)
(* Model-checking instances of Config.                                     *)
(***************************************************************************)
EXTENDS Config

CONSTANTS a, b, old, new, sbin

MCReadOnly == [k \in {a, b} |-> IF k = a THEN sbin ELSE NoValue]

\* A file without any setting, one with a setting, and one that names a key twice.
MCFiles == {<<>>, <<Line(a, old)>>, <<Line(b, old), Line(a, old), Line(b, new)>>}
=============================================================================
