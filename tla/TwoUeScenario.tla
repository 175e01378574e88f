--------------------------- MODULE TwoUeScenario ---------------------------
(* src/configs/two_ue_scenario.py: as MultiUeScenario, for two UEs.        *)
EXTENDS Integers

\* The req_sources and the port each of them asks.
Sources == [req_source_1_0 |-> 2201,
            req_source_1   |-> 2101,
            req_source_0   |-> 2000]

\* The rep_sinks and the port each of them answers on.
Sinks == [rep_sink_0_1 |-> 2001,
          rep_sink_0_0 |-> 2200,
          rep_sink_0   |-> 2100]

\* The path losses in dB before a slider is moved.
PathLoss == <<0, 30>>

\* The multiply_const blocks and the UE with whose path loss each is made.
Multipliers == [multiply_const_vxx_0_1_1 |-> 2,
                multiply_const_vxx_0_1   |-> 1,
                multiply_const_vxx_0_0   |-> 2,
                multiply_const_vxx_0     |-> 1]

Adders == {"add_xx_0"}

\* The file_sinks and the logs they write.
Logs == [file_sink_0_0_0 |-> "gnu_ue2.log",
         file_sink_0_0   |-> "gnu_ue1.log",
         file_sink_0     |-> "gnu_multi.log"]

\* The time_sinks: the labels of their y axes, and how many inputs they draw.
Displays == [time_sink_x_0_0_1 |-> [title |-> "UE2", inputs |-> 1],
             time_sink_x_0_0   |-> [title |-> "UE1", inputs |-> 1],
             time_sink_x_0     |-> [title |-> "MULTIPLE UES ADD", inputs |-> 1]]

(* The connections: from a block, to a block, at that block's input.       *)

SumEdges ==
  { <<"add_xx_0", "file_sink_0", 0>>,
    <<"add_xx_0", "time_sink_x_0", 0>>,
    <<"add_xx_0", "rep_sink_0_1", 0>> }

\* Mutant: the log of UE 1 is written before the path loss is applied.
UplinkEdgesLogFirst ==
  { <<"multiply_const_vxx_0", "add_xx_0", 0>>,
    <<"req_source_1", "file_sink_0_0", 0>>,
    <<"multiply_const_vxx_0", "time_sink_x_0_0", 0>>,
    <<"multiply_const_vxx_0_0", "add_xx_0", 1>>,
    <<"multiply_const_vxx_0_0", "file_sink_0_0_0", 0>>,
    <<"multiply_const_vxx_0_0", "time_sink_x_0_0_1", 0>> }

UplinkEdges ==
  { <<"multiply_const_vxx_0", "add_xx_0", 0>>,
    <<"multiply_const_vxx_0", "file_sink_0_0", 0>>,
    <<"multiply_const_vxx_0", "time_sink_x_0_0", 0>>,
    <<"multiply_const_vxx_0_0", "add_xx_0", 1>>,
    <<"multiply_const_vxx_0_0", "file_sink_0_0_0", 0>>,
    <<"multiply_const_vxx_0_0", "time_sink_x_0_0_1", 0>> }

DownlinkEdges ==
  { <<"multiply_const_vxx_0_1", "rep_sink_0", 0>>,
    <<"multiply_const_vxx_0_1_1", "rep_sink_0_0", 0>>,
    <<"req_source_0", "multiply_const_vxx_0_1", 0>>,
    <<"req_source_0", "multiply_const_vxx_0_1_1", 0>> }

SourceEdges ==
  { <<"req_source_1", "multiply_const_vxx_0", 0>>,
    <<"req_source_1_0", "multiply_const_vxx_0_0", 0>> }

Edges == SumEdges \cup UplinkEdges \cup DownlinkEdges \cup SourceEdges

\* Mutant: the downlink of UE 2 keeps its path loss.
SettersUplinkOnly ==
  <<<<"multiply_const_vxx_0", "multiply_const_vxx_0_1">>,
    <<"multiply_const_vxx_0_0">>>>

\* set_ue2_path_loss_db and set_ue1_path_loss_db: the blocks whose set_k they
\* call, in that order.
Setters ==
  <<<<"multiply_const_vxx_0", "multiply_const_vxx_0_1">>,
    <<"multiply_const_vxx_0_0", "multiply_const_vxx_0_1_1">>>>
=============================================================================
