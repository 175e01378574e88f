----------------------------- MODULE MCGnuRadio -----------------------------
(* The four scripts in use.                                                *)
EXTENDS GnuRadioScripts, Functions

Logs == Range(Debug!Files)

Use(script, dl, ul, slides) ==
  [script |-> script, dl |-> dl, ul |-> ul, moves |-> slides,
   ends |-> FALSE, restarts |-> FALSE, length |-> Nothing]
Ending(use) == [use EXCEPT !.ends = TRUE]
Restarting(use) == [use EXCEPT !.restarts = TRUE]

UsesOfOne ==
  {Ending(Use("one", 2, 0, 1)), Ending(Use("one", 0, 1, 1)),
   Ending(Use("one", 1, 1, 0))}
UsesOfTwo ==
  {Use("two", 1, 0, 1), Use("two", 0, 1, 1),
   Restarting(Use("two", 3, 0, 0)), Restarting(Use("two", 0, 2, 0))}
UsesOfMulti == {Use("multi", 3, 0, 0), Use("multi", 1, 0, 1), Use("multi", 0, 1, 0)}

\* The four logs of a run have the same length, but one of them may be left
\* from another run.
UsesOfDebug ==
  {[Use("debug", 0, 0, 0) EXCEPT !.length = [[m \in Logs |-> 2] EXCEPT ![l] = n]] :
     l \in Logs, n \in {0, 1, 3}}

Uses == UsesOfOne \cup UsesOfTwo \cup UsesOfMulti \cup UsesOfDebug

=============================================================================
