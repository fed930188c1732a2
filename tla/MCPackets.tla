------------------------------ MODULE MCPackets ------------------------------
(* Instances of Packets for TLC. *)
EXTENDS Packets

\* Payloads shorter and longer than what fills the smallest frame (18 bytes).
MCSizes == 0..24

\* Up to four options before the end option: message types, values that hold
\* the code 53 at every place, an option without a value and a pad.
Options == {[code |-> 53, value |-> <<2>>], [code |-> 53, value |-> <<5>>],
            [code |-> 54, value |-> <<10, 0, 53, 2>>], [code |-> 12, value |-> <<53>>],
            [code |-> 51, value |-> <<53, 1>>], [code |-> 12, value |-> <<>>],
            [code |-> 0, value |-> <<>>]}
End == [code |-> 255, value |-> <<>>]
MCAnswers ==
  {Append(a, End) : a \in UNION {[1..k -> Options] : k \in 1..4}}
=============================================================================
