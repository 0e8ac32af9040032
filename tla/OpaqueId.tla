------------------------------- MODULE OpaqueId -------------------------------
(***************************************************************************)
(* generate_opaque_pipe_id of bpf/io_restrict.bpf.c: the pointer and the   *)
(* inode number are XORed, and the result goes through the                 *)
(* xor-shift-multiply finaliser.  The size of a word is a parameter, and   *)
(* of the machine's XOR only its laws are used.                            *)
(***************************************************************************)
EXTENDS Integers

CONSTANTS
  Modulus,         \* 2^64: a word is a number below it
  Shift,           \* 2^33: hash >> 33 divides by it
  First, Second,   \* 0xff51afd7ed558ccd and 0xc4ceb9fe1a85ec53
  xor(_, _)

Word == 0 .. Modulus - 1

(* XOR is a group of words whose elements are their own inverses, and it   *)
(* commutes with the shift, which is by more than half of a word; the      *)
(* factors, being odd, have inverses.                                      *)
ASSUME WordAssumption ==
  /\ Modulus \in Nat \ {0} /\ Shift \in Nat \ {0} /\ Modulus <= Shift * Shift
  /\ \A a, b \in Word : xor(a, b) \in Word
  /\ \A a, b, c \in Word : xor(xor(a, b), c) = xor(a, xor(b, c))
  /\ \A a \in Word : xor(a, a) = 0 /\ xor(a, 0) = a
  /\ \A a, b \in Word : xor(a, b) \div Shift = xor(a \div Shift, b \div Shift)
  /\ First \in Nat /\ Second \in Nat
  /\ \E j \in Word : (First * j) % Modulus = 1
  /\ \E j \in Word : (Second * j) % Modulus = 1

XorShiftDrops(h) == h \div Shift  \* mutant: hash = hash >> 33

(* hash ^= hash >> 33                                                      *)
XorShift(h) == xor(h, h \div Shift)

(* hash *= k, modulo the width.                                            *)
Multiply(h, k) == (h * k) % Modulus

Mix(h) == XorShift(Multiply(XorShift(Multiply(XorShift(h), First)), Second))

generate_opaque_pipe_id(pipe_ptr, i_ino) == Mix(xor(pipe_ptr, i_ino))
=============================================================================
