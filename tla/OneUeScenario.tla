--------------------------- MODULE OneUeScenario ---------------------------
(* src/configs/one_ue_scenario.py: as MultiUeScenario, for one UE.  There  *)
(* is no adder: the displays and logs of the UE and of the sum, and the    *)
(* gNB, take the same stream.                                              *)
EXTENDS Integers

\* The req_sources and the port each of them asks.
Sources == [req_source_1 |-> 2101,
            req_source_0 |-> 2000]

\* The rep_sinks and the port each of them answers on.
Sinks == [rep_sink_0_1 |-> 2001,
          rep_sink_0   |-> 2100]

\* The path losses in dB before a slider is moved.  There is a variable, and
\* a slider, for UE 2 as well.
PathLoss == <<0, 30>>

\* The multiply_const blocks and the UE with whose path loss each is made.
Multipliers == [multiply_const_vxx_0_1 |-> 1,
                multiply_const_vxx_0   |-> 1]

\* The file_sinks and the logs they write.
Logs == [file_sink_0_0 |-> "gnu_ue1.log",
         file_sink_0   |-> "gnu_multi.log"]

\* The time_sinks: the labels of their y axes, and how many inputs they draw.
Displays == [time_sink_x_0_0 |-> [title |-> "UE1", inputs |-> 1],
             time_sink_x_0   |-> [title |-> "MULTIPLE UES ADD", inputs |-> 1]]

\* The connections: from a block, to a block, at that block's input.
Edges ==
  { <<"multiply_const_vxx_0", "file_sink_0", 0>>,
    <<"multiply_const_vxx_0", "file_sink_0_0", 0>>,
    <<"multiply_const_vxx_0", "time_sink_x_0", 0>>,
    <<"multiply_const_vxx_0", "time_sink_x_0_0", 0>>,
    <<"multiply_const_vxx_0", "rep_sink_0_1", 0>>,
    <<"multiply_const_vxx_0_1", "rep_sink_0", 0>>,
    <<"req_source_0", "multiply_const_vxx_0_1", 0>>,
    <<"req_source_1", "multiply_const_vxx_0", 0>> }

\* set_ue1_path_loss_db and set_ue2_path_loss_db: the blocks whose set_k they
\* call, in that order.  The second calls none.
Setters == <<<<"multiply_const_vxx_0", "multiply_const_vxx_0_1">>, <<>>>>
=============================================================================
