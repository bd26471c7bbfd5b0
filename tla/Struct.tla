------------------------------- MODULE Struct -------------------------------
(***************************************************************************)
(* Packing and unpacking as libopenflow_01.py and nicira.py do it.         *)
(*                                                                         *)
(* A class is described by three separate readings of its code: what       *)
(* pack() writes, what unpack() reads (both sequences of items) and what   *)
(* __len__ says.  An item is <<kind, name, n>>:                            *)
(*   field  n bytes of the attribute "name"      pad   n bytes of padding  *)
(*   len    n bytes, len(self)                   type  n bytes, the type   *)
(*   version, vendor, subtype, stype: numbers the reader dispatches on     *)
(*   plen   n bytes, the length of what the next list packs to             *)
(*   list   the parts; the reader reads until byte (length - n) is left,   *)
(*          or plen bytes when n < 0                                       *)
(*   align  padding of the list to a multiple of eight                     *)
(*   rest   trailing bytes; the reader reads (length - n), or whatever     *)
(*          is left when n < 0                                             *)
(*                                                                         *)
(* Bytes are symbols: <<attribute, object, i>> is byte i of an attribute   *)
(* of an object, <<"#", 0, v>> the number v.  Two layouts that disagree    *)
(* about a width or an order yield different symbols.                      *)
(***************************************************************************)
EXTENDS Integers, Sequences, SequencesExt, FiniteSetsExt, TLC

B(a) == <<"field", a, 1>>
H(a) == <<"field", a, 2>>
L(a) == <<"field", a, 4>>
Q(a) == <<"field", a, 8>>
Raw(a, n) == <<"field", a, n>>
Pad(n) == <<"pad", "", n>>
Num(kind, n) == <<kind, "", n>>
List(n) == <<"list", "", n>>
Rest(n) == <<"rest", "", n>>

Sym(a, id, n) == [i \in 1..n |-> <<a, id, i>>]
Zero(n) == [i \in 1..n |-> <<"#", 0, 0>>]

(* Big-endian, n <= 4: struct.pack("!B"), ("!H"), ("!L").                  *)
Bytes(v, n) == [i \in 1..n |-> <<"#", 0, (v \div 256 ^ (n - i)) % 256>>]
Value(b) == FoldLeft(LAMBDA acc, x : acc * 256 + x[3], 0, b)

(* The attributes a layout writes, with their widths.                      *)
Attributes(layout) == {<<it[2], it[3]>> : it \in {x \in ToSet(layout) : x[1] = "field"}}

Sum(s) == FoldLeft(LAMBDA a, x : a + x, 0, s)

(* __len__ that cannot run: a static method that uses self.                *)
Raises == -1000000
(* __len__ that packs the object and counts.                               *)
Packed == -1
=============================================================================
