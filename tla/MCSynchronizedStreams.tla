----------------------- MODULE MCSynchronizedStreams -----------------------
(***************************************************************************)
(* Three streams and three frames, each with two possible timestamps.      *)
(***************************************************************************)
EXTENDS SynchronizedStreams

MCTimes == {1, 2, 5, 6, 9, 10}

MCFrameOf == [t \in Times |-> t \div 4]
=============================================================================
