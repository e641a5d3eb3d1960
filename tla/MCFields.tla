------------------------------ MODULE MCFields ------------------------------
(* The field of order 17, which has roots of unity of order 16, and the    *)
(* field of order 64, x^6 + x + 1, with its subfield of order 8, which     *)
(* x^9 = x^4 + x^3 generates.  The primes of the generated arithmetic are 199,*)
(* 241 and 59, with the words that the code's case distinctions ask for; the *)
(* quadratic extension is the field of order 49.                           *)
EXTENDS Fields

MCRoots == [i \in 0..4 |-> CASE i = 0 -> 1 [] i = 1 -> 16 [] i = 2 -> 13 [] i = 3 -> 9 [] i = 4 -> 3]
MCModulus == {0, 1}
MCGenerator == {3, 4}
MCScales == {{0}, {1, 3}}

Limbs(words) == [i \in 0..(Len(words) - 1) |-> words[i + 1]]
MCP256 == [bits |-> 2, byte_bits |-> 1, limbs |-> Limbs(<<3, 1, 0, 3>>)]
MCP128 == [bits |-> 4, byte_bits |-> 2, limbs |-> Limbs(<<1, 15>>)]
MCP256Scalar == [bits |-> 3, byte_bits |-> 1, limbs |-> Limbs(<<3, 7>>)]
MCOperands(F) == {1, 2, 3, Prime(F) \div 2, Prime(F) - 2, Prime(F) - 1}
MCGenerator2 == [real |-> 2, imag |-> 3]
=============================================================================
