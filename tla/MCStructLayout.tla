--------------------------- MODULE MCStructLayout ---------------------------
(***************************************************************************)
(* StructLayout with bitfields of every base type around the widths where  *)
(* a unit, or the eight bytes of an access, end.                           *)
(***************************************************************************)
EXTENDS StructLayout

Plain(s)   == [size |-> s, align |-> s - 1, bitfield |-> FALSE, bits |-> 0,
               named |-> TRUE, packed |-> FALSE]
Bits(s, n) == [size |-> s, align |-> s - 1, bitfield |-> TRUE, bits |-> n,
               named |-> TRUE, packed |-> FALSE]
Pad(s, n)  == [Bits(s, n) EXCEPT !.named = FALSE]

\* pragma pack(1), and the attribute.
Pack1(m)   == [m EXCEPT !.align = 0]
Packed(m)  == [m EXCEPT !.align = 0, !.packed = TRUE]

MCMembers ==
  {Plain(1), Plain(4), Plain(8),
   Bits(1, 7), Bits(2, 9), Bits(4, 3), Bits(4, 32),
   Bits(8, 57), Bits(8, 64),
   Pad(4, 0), Pad(4, 9), Bits(4, 0),
   Pack1(Bits(4, 20)), Packed(Bits(8, 60)), Packed(Bits(4, 7))}

\* Each flips every bit the other one set.
Even == {b \in 0..63 : b % 2 = 0}
MCValues == {Even, 0..63 \ Even}
=============================================================================
