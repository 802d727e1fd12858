------------------------------- MODULE MCViews ------------------------------
(* Packets of up to 7 bytes through blocks of 4, 8 and 16 bytes.           *)
EXTENDS Views

CONSTANTS Total,      \* bound: length of the stream
          Packets     \* bound: packets in it

MCStreams ==
  { s \in UNION { [1 .. n -> 1 .. Total] : n \in 1 .. Packets } :
      \A i \in 2 .. Len(s) : s[i - 1] < s[i] }
=============================================================================
