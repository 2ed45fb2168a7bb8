--------------------------- MODULE MCRecIssuance ---------------------------
(* Small instances of RecIssuance for TLC. *)
EXTENDS RecIssuance

\* Two light transactions of 3 and 7 give announcements of one, two or three
\* RECs of size 3; the third power is one the bridge refuses.
MCPowers == {0, 3, 7}

MCRecIds == (1 .. MaxHeight) \X {0}
=============================================================================
