------------------------------- MODULE MCAdc --------------------------------
(***************************************************************************)
(* Adc for TLC: the command lines of the usage texts, and some that are    *)
(* refused or read too far.                                                *)
(***************************************************************************)
EXTENDS Adc

Opt(o, args) == [opt |-> o, args |-> args]

MCArgvs ==
  [b \in {"A", "B"} |->
     IF b = "A"
       THEN { <<Opt("c", <<0>>), Opt("m", <<0>>)>>, <<Opt("a", <<0, 1, -1, -1>>)>>,
              <<Opt("c", <<2>>), Opt("m", <<0>>), Opt("d", <<1, -1>>)>>,
              <<Opt("c", <<4>>), Opt("m", <<0>>)>>, <<Opt("a", <<0>>)>> }
       ELSE { <<Opt("c", <<0>>), Opt("m", <<0>>)>>, <<Opt("a", <<0, 1>>)>>,
              <<Opt("m", <<2>>)>>, <<Opt("h", <<>>)>>, <<Opt("a", <<0>>)>> }]

\* The codes of pairs of channels may be negative.
MCInput == [m \in 0 .. 7 |-> IF m < 4 THEN -10 * m - 1 ELSE 1000 * m]

MCGarbage == {-7}

=============================================================================
