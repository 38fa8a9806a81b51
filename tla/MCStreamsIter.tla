---------------------------- MODULE MCStreamsIter ----------------------------
(* Model-checking instance of StreamsIter: sections with a stream ID, a    *)
(* min-timestamp, a label and an unknown column; three rows (a full one,  *)
(* one whose known columns are all nil or zero, one with a stream ID of   *)
(* the wrong type) and a failed read; sections that fail to open or to    *)
(* give their metadata, or that give up to two reads; objects of up to    *)
(* two sections.  A row with values after one without them is where a     *)
(* Stream reused across reads would show.                                  *)
EXTENDS StreamsIter, TLC

CONSTANTS nil, readErr, err, zeroTime

MCColumns == <<"streamID", "minTs", "label", "other">>

I(v) == [ty |-> "int64", v |-> v]
B(v) == [ty |-> "bytes", v |-> v]

MCRows ==
    { <<I(1), I(1), B(1), nil>>,
      <<nil, I(0), nil, I(1)>>,
      <<B(1), I(1), nil, nil>> }

Reads == {<<>>} \cup {<<x>> : x \in MCRows \cup {readErr}}
           \cup {<<x, y>> : x, y \in MCRows \cup {readErr}}

MCSections ==
    {[kind |-> "openErr", reads |-> <<>>], [kind |-> "metaErr", reads |-> <<>>]}
        \cup {[kind |-> "ok", reads |-> r] : r \in Reads}

MCObjects == {<<>>} \cup {<<s>> : s \in MCSections}
               \cup {<<s, t>> : s, t \in MCSections}
=============================================================================
