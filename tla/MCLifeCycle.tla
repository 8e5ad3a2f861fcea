---------------------------- MODULE MCLifeCycle ----------------------------
(* LifeCycle for TLC: a file with a group of several codes of three and four *)
(* digits, with codes of group 0, and one with a single code.                *)
EXTENDS LifeCycle

CodeFiles ==
    { << <<0>>, <<0, 0, 1>>, <<0, 1, 1>>, <<0, 1, 2, 1>>, <<0, 1, 2, 2>>, <<0, 2, 1>> >>,
      << <<0>>, <<0, 1, 2>> >> }

Callers ==
    { <<>>, <<0>>, <<0, 1>>, <<0, 0, 1, 1>>, <<0, 1, 2>>, <<0, 1, 2, 1, 1>>,
      <<0, 1, 2, 2>>, <<0, 1, 1, 2>>, <<0, 2, 2>>, <<0, 2, 1, 0>> }
=============================================================================
