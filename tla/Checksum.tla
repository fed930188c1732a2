------------------------------ MODULE Checksum ------------------------------
(***************************************************************************)
(* The checksum of the IPv4 header (ipv4.rs set_checksum) and of an ICMP   *)
(* message (icmp.rs finish): the words are added into an accumulator twice *)
(* as wide, the carries are added to the low half once, and the result is  *)
(* complemented.                                                           *)
(*                                                                         *)
(* ones is a history variable: the sum that a receiver computes over the   *)
(* same words, in one's complement (every carry is added back at once).    *)
(***************************************************************************)
EXTENDS Integers

CONSTANTS M,   \* the number of values of a word, 2^16 in the code
          N    \* the number of words: 10 for IPv4, 4 and the payload for ICMP

\* So many words fit the accumulator, which has M * M values.
ASSUME SizeAssumption == M \in Nat /\ M >= 2 /\ N \in 1..M

VARIABLES pos,        \* the words added so far
          sum,        \* raw_result, raw_checksum: u32
          ones,       \* history: the one's complement sum
          checksum,   \* the result, a u16
          state       \* "add", "done" or "panicked"

checksumVars == <<pos, sum, ones, checksum, state>>

Words == 0..M-1

\* One's complement addition: the carry is added back.
OnesAdd(a, b) == IF a + b < M THEN a + b ELSE a + b - (M - 1)

\* The two halves of the accumulator.
overflows == sum \div M
raw_checksum == sum % M

ChecksumInit == /\ pos = 0 /\ sum = 0 /\ ones = 0 /\ checksum = 0
                /\ state = "add"

\* One step of the fold over the words.
Add(w) ==
  /\ state = "add" /\ pos < N
  /\ sum' = sum + w
  /\ ones' = OnesAdd(ones, w)
  /\ pos' = pos + 1
  /\ UNCHANGED <<checksum, state>>

\* Mutant: the carries are dropped.
Complement_NoCarry ==
  /\ state = "add" /\ pos = N
  /\ checksum' = M - 1 - raw_checksum
  /\ state' = "done"
  /\ UNCHANGED <<pos, sum, ones>>

\* The two u16 are added and the result is complemented.  When they do not
\* fit, a build with overflow checks panics and one without wraps.
Complement ==
  /\ state = "add" /\ pos = N
  /\ \/ /\ raw_checksum + overflows < M
        /\ checksum' = M - 1 - (raw_checksum + overflows)
        /\ state' = "done"
     \/ /\ raw_checksum + overflows >= M
        /\ \/ checksum' = M - 1 - ((raw_checksum + overflows) % M) /\ state' = "done"
           \/ state' = "panicked" /\ UNCHANGED checksum
  /\ UNCHANGED <<pos, sum, ones>>

ChecksumNext == (\E w \in Words : Add(w)) \/ Complement

ChecksumSpec == ChecksumInit /\ [][ChecksumNext]_checksumVars

-----------------------------------------------------------------------------
(* Properties.                                                             *)

\* The variables have their types; the accumulator never overflows.
ChecksumTypeOK ==
  /\ pos \in 0..N /\ sum \in 0..M*M-1 /\ ones \in Words /\ checksum \in Words
  /\ state \in {"add", "done", "panicked"}

\* The receiver of the words and the checksum finds them intact: their one's
\* complement sum is all ones.
Accepted == OnesAdd(ones, checksum) = M - 1

\* When adding the carries of set_checksum carries no further, there is no
\* panic and the receiver accepts the words with their checksum.
CorrectUnlessCarry ==
  raw_checksum + overflows < M => state # "panicked" /\ (state = "done" => Accepted)
=============================================================================
