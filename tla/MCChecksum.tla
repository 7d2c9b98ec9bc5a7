------------------------------- MODULE MCChecksum ------------------------------
(* Instances of Checksum for TLC: bytes at the ends of their range, so     *)
(* that sums carry once, twice and not at all, and payloads of every       *)
(* length up to four, of length five where all bytes are alike.            *)
EXTENDS Checksum

EdgeBytes == {0, 1, 127, 255}

SeqNumbers == {<<0, 0, 0, 0>>, <<1, 0, 0, 0>>, <<255, 255, 255, 127>>, <<255, 255, 255, 255>>}

SomeFlags == {16, 35, 255}

SomePayloads ==
    UNION {[1 .. n -> EdgeBytes] : n \in 0 .. 4}
        \cup {[i \in 1 .. 5 |-> b] : b \in EdgeBytes}
================================================================================
