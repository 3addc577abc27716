-------------------------------- MODULE MCOta -------------------------------
(* Instances of Ota for TLC: an image that fits, one that spans two sectors *)
(* and is larger than the apply path copies, one larger than the stage, and *)
(* an empty one.                                                            *)
EXTENDS Ota

MCCrc(s) == [i \in 0..(Len(s) - 1) |-> s[i + 1]]
MCFactory == <<2, MCCrc(<<1, 1>>)>>
MCAnnounced == {<<0, MCCrc(<<>>)>>, <<2, MCCrc(<<1, 2>>)>>,
                <<3, MCCrc(<<1, 2, 1>>)>>, <<5, MCCrc(<<1, 2, 1, 2, 1>>)>>}
MCChunks == {<<1>>, <<1, 2>>, <<2, 1>>}
=============================================================================
