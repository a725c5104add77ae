------------------------------- MODULE MCLibc -------------------------------
(***************************************************************************)
(* Libc for TLC: bytes that are a NUL, small, and with the top bit set;    *)
(* memset is given ints that do and do not fit a byte.  All formats of up  *)
(* to 5 characters, arguments of 0 to 2 characters, and an INT_MAX that    *)
(* some of the texts exceed.                                               *)
(***************************************************************************)
EXTENDS Libc

SomeBytes == {0, 1, 200}
SomeValues == {0, 1, 456, -56}

ShortFormats == BoundedSeq({"a", "%", "c", "s", "d"}, 5)
SomeStrings == {<<>>, <<"x">>, <<"%", "y">>}
=============================================================================
