----------------------------- MODULE MCUdpTransfer -----------------------------
(* Instances of UdpTransfer for TLC.                                       *)
EXTENDS UdpTransfer

MCChunk == {"c0", "c1", "c2", "c3", "c4"}
MCFile3 == <<"c0", "c1", "c2">>
MCFile4 == <<"c0", "c1", "c2", "c3">>
MCFile5 == <<"c0", "c1", "c2", "c3", "c4">>
================================================================================
