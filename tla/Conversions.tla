---------------------------- MODULE Conversions ----------------------------
(***************************************************************************)
(* Integers on their way between Zig and JavaScript.  Zig's have a width,  *)
(* an Integer of V8 is an int32 or a uint32, a BigInt is any integer, and  *)
(* a JavaScript number is cut down to a width when Zig asks for one.  A    *)
(* conversion that runs JavaScript may throw as well: see Exceptions.      *)
(***************************************************************************)
EXTENDS Integers

\* Integers of a width, with and without sign, when 2 * h fit.
Ints(h) == -h .. h - 1
Uints(h) == 0 .. 2 * h - 1

\* The low bits of n, read without and with sign.
Unsigned(n, h) == n % (2 * h)
Signed(n, h) == LET u == Unsigned(n, h) IN IF u < h THEN u ELSE u - 2 * h

H32 == 2147483648
H64 == 9223372036854775808

(***************************************************************************)
(* Integer.  getValueU32 narrows an int64 with @intCast.  The set of what  *)
(* it may return is empty if it panics, as safe builds do; where it is     *)
(* undefined, it is every result.                                          *)
(***************************************************************************)
initI32(v) == Signed(v, H32)
initU32(v) == Unsigned(v, H32)
getValueU32(i, safe) ==
    IF i \in Uints(H32) THEN {i} ELSE IF safe THEN {} ELSE Uints(H32)

(***************************************************************************)
(* BigInt.  getUint64 and getInt64 pass null for V8's `lossless`.          *)
(***************************************************************************)
initI64(v) == Signed(v, H64)
initU64(v) == Unsigned(v, H64)
getUint64(b) == Unsigned(b, H64)
getInt64(b) == Signed(b, H64)

(***************************************************************************)
(* Value.  num is the number that V8 makes of the value, its fraction cut  *)
(* off, and 0 for NaN and the infinities.                                  *)
(***************************************************************************)
toI32(num) == Signed(num, H32)
toU32(num) == Unsigned(num, H32)
============================================================================
