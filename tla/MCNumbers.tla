----------------------------- MODULE MCNumbers ------------------------------
(* Three-bit ints, one digit of text, doubles exact up to 16, six-bit      *)
(* int64_t: in each range some numbers and its edges, and halves for which *)
(* the digit of the text is enough (0.5) or not (-1.5, 2.5, 9.5).          *)
EXTENDS Numbers

MCNumbers == { 2 * n : n \in {-32, -16, -5, -4, -1, 0, 1, 3, 4, 9, 10, 16, 18, 32} }
               \cup {-3, 1, 5, 19}
=============================================================================
