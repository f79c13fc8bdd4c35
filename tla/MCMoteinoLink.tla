--------------------------- MODULE MCMoteinoLink ---------------------------
(* The master sends to a remote, and another remote to the master.         *)
EXTENDS MoteinoLink

CONSTANTS m, r, q

Chain == {<<m, r>>, <<q, m>>}

=============================================================================
