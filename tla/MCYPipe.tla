------------------------------ MODULE MCYPipe ------------------------------
(* Items that differ in value and in the "more" flag.                      *)
EXTENDS YPipe

CONSTANT Values

MCItems == [val : Values, more : BOOLEAN]
=============================================================================
