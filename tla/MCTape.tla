------------------------------ MODULE MCTape ------------------------------
(***************************************************************************)
(* Small tapes for TLC: a block of each type with pulses, and sequences of  *)
(* a pulse and the blocks that loop and jump.                               *)
(***************************************************************************)
EXTENDS Tape, TapeExamples

Controls == {Tone, Loop(2), LoopsEnd, Jump(2), Jump(-1)}

\* Tapes on which every loop that ends began.
ControlTapes ==
  {f \in UNION {[1..n -> Controls] : n \in 1..3} :
     \A j \in DOMAIN f : f[j] = LoopsEnd => \E i \in 1..(j - 1) : f[i] = Loop(2)}
  \cup {<<Loop(2), Tone, LoopsEnd, Loop(3), LoopsEnd>>, <<Loop(0), Tone, Comment>>,
        <<Loop(2), Tone, Tone, LoopsEnd>>, <<Tone, Jump(2), Tone, Tone>>}

\* Tapes whose pulses are all longer than a sample.
CswTapes ==
  { <<[Data(<<<<1, 0>>, <<0, 1>>>>, 1, 3) EXCEPT !.bit0_length = 3, !.bit1_length = 5], Pause(601, -1)>>,
    <<Loop(3), [type |-> "PULSES", lengths |-> <<3, 2, 5>>], LoopsEnd, Pause(0, -1), Tone>>,
    <<[Tone EXCEPT !.length = 5, !.pulses = 3], Comment, Pause(9, -1)>> }

MCFiles == PulseTapes \cup ControlTapes \cup CswTapes

MCInsertable == {Tone, LoopsEnd}

\* For MCTapeWriter.cfg: a tape whose jump leads back.
JumpTape == {<<Tone, Jump(-1)>>}

=============================================================================
