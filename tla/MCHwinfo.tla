-------------------------------- MODULE MCHwinfo --------------------------------
(* Instances of Hwinfo: an empty flag, a flag with the bytes 0 or 1, and   *)
(* the flags "0" and "1" as text.                                          *)
EXTENDS Hwinfo

ByteFlags == {<<>>, <<0>>, <<1>>}
TextFlags == {<<>>, <<Char0>>, <<Char0 + 1>>}
================================================================================
