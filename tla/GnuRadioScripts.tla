----------------------------- MODULE GnuRadioScripts -----------------------------
(* The graphs of the four scripts of the repository.                       *)
EXTENDS GnuRadio

One == INSTANCE OneUeScenario
Two == INSTANCE TwoUeScenario
Multi == INSTANCE MultiUeScenario
Debug == INSTANCE DebugSamples

Nothing == [b \in {} |-> 0]

\* Two functions as one.
Both(f, g) ==
  [b \in DOMAIN f \cup DOMAIN g |-> IF b \in DOMAIN f THEN f[b] ELSE g[b]]

\* The graph of a scenario, and of the plots.
Scenario(sources, sinks, multipliers, adders, logs, displays, edges, pathloss, setters) ==
  [sources |-> sources, sinks |-> sinks, multipliers |-> multipliers,
   adders |-> adders, logs |-> logs, displays |-> displays,
   files |-> Nothing, heads |-> {},
   edges |-> edges, pathloss |-> pathloss, setters |-> setters]

ScriptGraphs ==
  [one |-> Scenario(One!Sources, One!Sinks, One!Multipliers, {}, One!Logs,
             One!Displays, One!Edges, One!PathLoss, One!Setters),
   two |-> Scenario(Two!Sources, Two!Sinks, Two!Multipliers, Two!Adders,
             Two!Logs, Two!Displays, Two!Edges, Two!PathLoss, Two!Setters),
   multi |-> Scenario(Multi!Sources, Multi!Sinks, Multi!Multipliers,
               Multi!Adders, Multi!Logs, Both(Multi!UeDisplays, Multi!SumDisplay),
               Multi!Edges, Multi!PathLoss, Multi!Setters),
   debug |-> [sources |-> Nothing, sinks |-> Nothing, multipliers |-> Nothing,
              adders |-> {}, logs |-> Nothing,
              displays |-> Both(Debug!LogDisplays,
                               Both(Debug!TestingDisplay, Debug!FirstUeDisplay)),
              files |-> Debug!Files, heads |-> Debug!Heads,
              edges |-> Debug!Edges, pathloss |-> <<>>, setters |-> <<>>]]
=============================================================================
