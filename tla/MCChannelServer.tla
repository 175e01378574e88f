--------------------------- MODULE MCChannelServer ---------------------------
(* ChannelServer on small instances.                                       *)
EXTENDS ChannelServer

Near == [mode |-> "Manual", place |-> "near", height |-> "low", pl |-> "UMa"]
TwoPlaces == {"near", "far"}
OnePlace == {"near"}
TwoHeights == {"low", "high"}
HeightOrNaN == {"low", NaN}
TwoModels == {"UMa", "FSPL"}
OneModel == {"UMa"}
=============================================================================
