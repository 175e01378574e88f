---------------------------- MODULE DebugSamples ----------------------------
(* src/logs/debug_samples.py: the flowgraph that plots the first           *)
(* num_samples samples of the four logs, each by itself and all together.  *)
EXTENDS Integers

\* Mutant: the log of another UE.
FilesSwapped == [file_source_0_2 |-> "gnu_ue2.log",
                 file_source_0_1 |-> "gnu_ue3.log",
                 file_source_0_0 |-> "gnu_ue1.log",
                 file_source_0   |-> "gnu_multi.log"]

\* The file_sources and the logs they read, once.
Files == [file_source_0_2 |-> "gnu_ue3.log",
          file_source_0_1 |-> "gnu_ue2.log",
          file_source_0_0 |-> "gnu_ue1.log",
          file_source_0   |-> "gnu_multi.log"]

\* They let the first num_samples samples pass.
Heads == {"head_0_0_0_0_0", "head_0_0_0_0", "head_0_0_0", "head_0"}

\* The time_sinks: their names, and how many inputs they draw.
LogDisplays == [time_sink_x_0_2   |-> [title |-> "UE3", inputs |-> 1],
                time_sink_x_0_1   |-> [title |-> "UE2", inputs |-> 1],
                time_sink_x_0_0_1 |-> [title |-> "Multiple", inputs |-> 1]]
\* The last input is the sum.
TestingDisplay == [time_sink_x_0_0_0_0 |-> [title |-> "Testing", inputs |-> 4]]
FirstUeDisplay == [time_sink_x_0_0 |-> [title |-> "UE1", inputs |-> 1]]

\* Mutant: "Testing" does not show the sum.
EdgesWithoutSum ==
  { <<"file_source_0", "head_0", 0>>,
    <<"file_source_0_0", "head_0_0_0", 0>>,
    <<"file_source_0_1", "head_0_0_0_0", 0>>,
    <<"file_source_0_2", "head_0_0_0_0_0", 0>>,
    <<"head_0", "time_sink_x_0_0_1", 0>>,
    <<"head_0_0_0", "time_sink_x_0_0", 0>>,
    <<"head_0_0_0", "time_sink_x_0_0_0_0", 0>>,
    <<"head_0_0_0_0", "time_sink_x_0_0_0_0", 1>>,
    <<"head_0_0_0_0", "time_sink_x_0_1", 0>>,
    <<"head_0_0_0_0_0", "time_sink_x_0_0_0_0", 2>>,
    <<"head_0_0_0_0_0", "time_sink_x_0_2", 0>> }

\* The connections: from a block, to a block, at that block's input.
Edges ==
  { <<"file_source_0", "head_0", 0>>,
    <<"file_source_0_0", "head_0_0_0", 0>>,
    <<"file_source_0_1", "head_0_0_0_0", 0>>,
    <<"file_source_0_2", "head_0_0_0_0_0", 0>>,
    <<"head_0", "time_sink_x_0_0_0_0", 3>>,
    <<"head_0", "time_sink_x_0_0_1", 0>>,
    <<"head_0_0_0", "time_sink_x_0_0", 0>>,
    <<"head_0_0_0", "time_sink_x_0_0_0_0", 0>>,
    <<"head_0_0_0_0", "time_sink_x_0_0_0_0", 1>>,
    <<"head_0_0_0_0", "time_sink_x_0_1", 0>>,
    <<"head_0_0_0_0_0", "time_sink_x_0_0_0_0", 2>>,
    <<"head_0_0_0_0_0", "time_sink_x_0_2", 0>> }
=============================================================================
