------------------------------ MODULE MCOscar ------------------------------
(***************************************************************************)
(* An instance of Oscar for TLC: bytes of three bits, numbers of seven     *)
(* bits and so of one to four bytes, the top group cut short as in the     *)
(* code, and payloads that look like frames.                               *)
(***************************************************************************)
EXTENDS Oscar

MCPayloads == {<<>>, <<1>>, <<1, 0>>, <<0, 1, 0, 1, 1>>}
MCGood == <<3>>
MCBad == <<2>>
=============================================================================
