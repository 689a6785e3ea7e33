---------------------------- MODULE IcmpChecksum ----------------------------
(***************************************************************************)
(* The checksum raw_client_icmp.cpp puts into its echo request: the        *)
(* complement of a sum of 16-bit words whose carries are added back.  The  *)
(* header is four words: type and code, checksum, id, sequence.            *)
(*                                                                         *)
(* Adding the carries back may carry once more; line 30 adds that one too, *)
(* and two additions are enough for as many words as a packet can have.    *)
(***************************************************************************)
EXTENDS Integers

Word == {n \in Nat : n <= 65535}
Header == [1..4 -> Word]

\* Lines 29-31, on the 32-bit sum of the words.
Once(sum) == (sum \div 65536) + (sum % 65536)
Folded(sum) == (Once(sum) + (Once(sum) \div 65536)) % 65536
Complement(sum) == 65535 - Folded(sum)

\* Lines 20-33.  The length is even, so that line 28 is not reached.
checksum(h) == Complement(h[1] + h[2] + h[3] + h[4])

\* Lines 53-60: the sum is made with a checksum of zero.
Sealed(h) == [h EXCEPT ![2] = checksum([h EXCEPT ![2] = 0])]
=============================================================================
