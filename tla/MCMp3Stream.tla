----------------------------- MODULE MCMp3Stream -----------------------------
(***************************************************************************)
(* Mp3Stream for TLC: rates with and without padding, cheap and dear bit   *)
(* rates, one thread and two; frames that need nothing, everything, and    *)
(* much after little.                                                      *)
(***************************************************************************)
EXTENDS Mp3Stream

Pcm(n, sr, kbps, cores) == [samples |-> n, sr |-> sr, kbps |-> kbps, cores |-> cores]

Mp3Songs == {Pcm(23, 44100, 128, 2), Pcm(11, 32000, 320, 1), Pcm(15, 48000, 192, 1)}

Mp3Contents ==
    {[need |-> <<0, 0>>, pe |-> -1], [need |-> <<9999, 9999>>, pe |-> 50],
     [need |-> <<9999, 300>>, pe |-> 100]}
=============================================================================
