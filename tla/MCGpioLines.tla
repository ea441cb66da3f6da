---------------------------- MODULE MCGpioLines ----------------------------
(* GpioLines on a chip of two lines, one of which may have a name. *)
EXTENDS GpioLines

CONSTANTS o1, o2, n

MCOffsets == {o1, o2}
MCAliases == {n}

\* Lists that overlap, under numbers and a name, and a name without a line.
MCConfigs ==
    [lines : {{o1}, {o1, n}}, watch_lines : {{o1}, {n}, {o1, o2}},
     output_lines : {{}, {o2}, {n}},
     default_values : {<<>>, << <<n, "high">>, <<o2, "low">> >>, << <<o2, "high">> >>},
     linemap : {<<>>, [a \in {n} |-> o2], [a \in {n} |-> "x"]},
     edge : {"both", "rising"}]
=============================================================================
