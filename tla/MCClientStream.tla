--------------------------- MODULE MCClientStream ---------------------------
(* Instances of ClientStream for TLC. *)
EXTENDS ClientStream

Run(mode, continuous, pipe, targets, ends, chunks) ==
    [mode |-> mode, continuous |-> continuous, pipe |-> pipe, targets |-> targets,
     ends |-> ends, chunks |-> chunks]

\* Three records reach the live limit and overflow the history; three chunks
\* block on a stdout nobody reads. The last numbers say how many targets may end
\* by themselves and how many chunks there are to print.
MCSetups ==
    {Run("stdin", TRUE, "flows", 3, 1, 0), Run("stdin", TRUE, "breaks", 1, 1, 1),
     Run("stdin", TRUE, "stuck", 1, 1, 3), Run("stdin", TRUE, "flows", 1, 1, 2),
     Run("fixed", TRUE, "stuck", 1, 1, 3),
     Run("fixed", TRUE, "flows", 2, 2, 1), Run("fixed", FALSE, "breaks", 2, 2, 1)}
=============================================================================
