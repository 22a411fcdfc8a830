----------------------------- MODULE MCProcessor -----------------------------
(***************************************************************************)
(* Two workers, windows of three samples and two bins, batches of two.      *)
(***************************************************************************)
EXTENDS Processor

Job(length, frames, asked, given) ==
    [length |-> length, frames |-> frames, asked |-> asked, given |-> given]

\* A batch that is too large; a full one with chosen cycles; a short one with more
\* given cycles than the processor keeps; frames shorter than the window.
MCShapes ==
    {Job(3, 3, 0, FALSE), Job(3, 2, 1, FALSE), Job(3, 1, 3, TRUE), Job(2, 2, 2, TRUE)}

\* A buffer is missing, or an event.
MCBreaks == {4, 13}
=============================================================================
