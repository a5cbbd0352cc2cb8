----------------------------- MODULE MCNvImage -----------------------------
(* Instances of NvImage for TLC.                                           *)
EXTENDS NvImage

Key(name, guid) == [name |-> name, guid |-> guid]

(* ConIn and Boot0 of the global GUID, which are never saved; ConIn of     *)
(* another GUID and NvVars, which are.                                     *)
Con      == <<67, 0>>
MCNvVars == Key(<<78, 86, 0>>, 2)
MCKeys   == {Key(Con, 1), Key(Con, 2), Key(<<66, 48, 0>>, 1), MCNvVars}

MCConsoles == {Con}
MCBoot     == <<66>>

(* Data that is padded and data that is not: with NvVars the former fills  *)
(* the device, and the latter does not fit.                                *)
MCValues == {<<1>>, <<6, 7, 8, 9>>}
MCLoaded == [attr |-> 3, data |-> <<1>>]
MCAttrs  == {2, 3}
MCNonVolatile == {3}
=============================================================================
