------------------------------- MODULE Nicira -------------------------------
(***************************************************************************)
(* The wire classes of pox/openflow/nicira.py.  A Nicira action is a       *)
(* vendor action whose body starts with a subtype, a Nicira message a      *)
(* vendor message with vendor and subtype after the header.                *)
(***************************************************************************)
EXTENDS LibOpenFlow

NX_VENDOR_ID == 8992   \* 0x2320

(* ofp_action_vendor_base.pack and nicira_base.pack before the body.       *)
nx_action == tl \o <<Num("vendor", 4), Num("subtype", 2)>>
nicira_base == ofp_header \o <<Num("vendor", 4), Num("subtype", 4)>>

(* NXAST numbers; the length is 8 and what _body_length says.              *)
Action(subtype, body, len) ==
  [type |-> 65535, subtype |-> subtype, pack |-> nx_action \o body,
   unpack |-> nx_action \o body, len |-> 8 + len]
(* _body_length of a message is the length of the packed body.             *)
Message(subtype, body) ==
  [type |-> 4, subtype |-> subtype, pack |-> nicira_base \o body,
   unpack |-> nicira_base \o body, len |-> Packed]

nx_action_resubmit == Action(1, <<H("in_port"), B("table"), Pad(3)>>, 8)
nx_action_set_tunnel == Action(2, <<Pad(2), L("tun_id")>>, 8)
(* Fault: unpack() takes the destination for the source.                   *)
reg_move_swapped ==
  LET order(a, b) == <<H("nbits"), H("src_ofs"), H("dst_ofs"), L(a), L(b)>>
  IN [Action(6, order("src", "dst"), 16) EXCEPT !.unpack = nx_action \o order("dst", "src")]

nx_reg_move == Action(6, <<H("nbits"), H("src_ofs"), H("dst_ofs"), L("src"), L("dst")>>, 16)
nx_reg_load == Action(7, <<H("ofs_nbits"), L("dst"), Q("value")>>, 16)
nx_action_set_tunnel64 == Action(9, <<Pad(6), Q("tun_id")>>, 16)
nx_output_reg == Action(15, <<H("ofs_nbits"), L("reg"), H("max_len"), Pad(6)>>, 16)
nx_action_exit == Action(17, <<Pad(6)>>, 8)
nx_action_dec_ttl == Action(18, <<Pad(6)>>, 8)
nx_action_fin_timeout == Action(19, <<H("fin_idle_timeout"), H("fin_hard_timeout"), Pad(2)>>, 8)
nx_action_controller == Action(20, <<H("max_len"), H("controller_id"), B("reason"), Pad(1)>>, 8)
nx_action_push_mpls == Action(23, <<H("ethertype"), Pad(4)>>, 8)
nx_action_pop_mpls == Action(24, <<H("ethertype"), Pad(4)>>, 8)

nx_action_learn ==
  [Action(16, <<H("idle_timeout"), H("hard_timeout"), H("priority"), Q("cookie"),
                H("flags"), B("table_id"), Pad(1), H("fin_idle_timeout"),
                H("fin_hard_timeout"), List(32), Num("align", 0)>>, 0)
   EXCEPT !.len = Packed]

nx_role_request == Message(10, <<L("role")>>)
nx_role_reply == Message(11, <<L("role")>>)
nx_flow_mod_table_id == Message(15, <<B("enable"), Pad(7)>>)
nx_packet_in_format == Message(16, <<L("format")>>)
nx_async_config ==
  Message(19, <<L("packet_in_mask"), L("packet_in_mask_slave"),
                L("port_status_mask"), L("port_status_mask_slave"),
                L("flow_removed_mask"), L("flow_removed_mask_slave")>>)

(* The match is followed by padding to a multiple of eight.                *)
nx_flow_mod ==
  [Message(13, flow_mod_body \o <<Num("plen", 2), Pad(6), List(-1), Num("align", 0)>>)
   EXCEPT !.len = 48]
nxt_packet_in ==
  [Message(17, <<L("buffer_id"), H("total_len"), B("reason"), B("table_id"),
                 Q("cookie"), Num("plen", 2), Pad(6), List(-1), Num("align", 0),
                 Pad(2), Rest(-1)>>)
   EXCEPT !.len = 42]

-----------------------------------------------------------------------------
(* nxm_entry: a 4-byte header (type, has_mask, length), the value and the  *)
(* mask.  stype is the type (vendor << 7 | field) and gives the width.     *)

(* The entries _make_nxm makes, by their widths, without the three OXM     *)
(* ones.  For a type not in the table the code would make a class up; such *)
(* entries are not sent here.                                              *)
nxm_width ==
  LET NX == 128
      fields == (1 :> {5, 6, 13, 14} \cup {NX + f : f \in {21, 22, 26, 28, 29}})
        @@ (2 :> {0, 3, 4, 15} \cup 9..12)
        @@ (4 :> {7, 8, 16, 17} \cup NX..(NX + 15) \cup {NX + f : f \in {27, 31, 32}})
        @@ (6 :> {1, 2} \cup {NX + f : f \in {17, 18, 24, 25}})
        @@ (8 :> {NX + 16, NX + 30}) @@ (16 :> {NX + 19, NX + 20, NX + 23})
  IN [t \in UNION {fields[w] : w \in DOMAIN fields} |->
        CHOOSE w \in DOMAIN fields : t \in fields[w]]

(* The types a class was made for; unpack_new looks a header up here.     *)
_nxm_type_to_class == DOMAIN nxm_width

(* _pack_value of _nxm_numeric, _nxm_ip, _nxm_ipv6 and _nxm_ether: every   *)
(* kind of value becomes as many bytes as its class has.                   *)
_pack_value(t, id) == Sym("value", id, nxm_width[t])
ones(n) == [i \in 1..n |-> <<"#", 0, 255>>]
(* _pack_mask of _nxm_ip and _nxm_ipv6: a number is the length of a prefix *)
(* and is brought into the range of the address first.                     *)
_pack_mask(t, v) ==
  LET w == nxm_width[t]
      inside(x, n) == IF x > n THEN n ELSE IF x < 0 THEN 0 ELSE x
      bits(i) == inside(inside(v, 8 * w) - 8 * (i - 1), 8)
  IN [i \in 1..w |-> <<"#", 0, 256 - 2 ^ (8 - bits(i))>>]
NxmEntry(t, id, mask) ==
  [cls |-> "nxm_entry", parts |-> <<>>, rest |-> <<>>, stype |-> t, force |-> FALSE,
   fields |-> [value |-> _pack_value(t, id), mask |-> mask]]

(* nxm_entry.pack: a mask of ones is left out, unless the entry came with  *)
(* a mask.                                                                 *)
nxm_mask(e, all) ==
  IF e.fields.mask \notin {all, <<>>} THEN e.fields.mask ELSE IF e.force THEN all ELSE <<>>
nxm_bytes(e, m, n) ==
  Bytes(e.stype * 512 + (IF m = <<>> THEN 0 ELSE 256) + n, 4) \o e.fields.value \o m
(* Fault: the length of a masked entry does not count the mask.            *)
nxm_pack_short(e) ==
  LET w == nxm_width[e.stype]
  IN nxm_bytes(e, nxm_mask(e, ones(w)), w)

nxm_pack(e) ==
  LET w == nxm_width[e.stype]
      m == nxm_mask(e, ones(w))
  IN nxm_bytes(e, m, IF m = <<>> THEN w ELSE 2 * w)

(* nxm_entry.unpack_new: half of the length is the mask.  The assertions   *)
(* compare both halves with the width of the class.                        *)
nxm_unpack(b) ==
  LET h == Value(SubSeq(b, 1, 4))
      n == h % 128
      has_mask == (h \div 256) % 2 = 1
      w == IF has_mask THEN n \div 2 ELSE n
      t == h \div 512
  IN IF Len(b) < 4 + n \/ t \notin _nxm_type_to_class THEN [ok |-> FALSE]
     ELSE IF nxm_width[t] # w THEN [ok |-> FALSE]
     ELSE [ok |-> TRUE, off |-> 4 + n,
           obj |-> [cls |-> "nxm_entry", parts |-> <<>>, rest |-> <<>>, stype |-> t,
                    force |-> has_mask,
                    fields |-> [value |-> SubSeq(b, 5, 4 + w), mask |-> SubSeq(b, 5 + w, 4 + n)]]]

-----------------------------------------------------------------------------
(* flow_mod_spec of nx_action_learn: two bytes (source, destination and    *)
(* number of bits, here stype), the source's data, the destination's data. *)

words(n_bits) == ((n_bits + 15) \div 16) * 2
learn_bits(v) == v % 1024
learn_src(v) == IF (v \div 8192) % 2 = 0 THEN "field" ELSE "immediate"
learn_dst(v) == CASE (v \div 2048) % 4 = 0 -> "match" [] (v \div 2048) % 4 = 1 -> "load"
                  [] OTHER -> "output"

(* __len__ of the parts, which tells unpack_new how much to read.  The     *)
(* data of a load is a field header and an offset, six bytes, whatever its *)
(* __len__ says.                                                           *)
src_len(v) == IF learn_src(v) = "field" THEN 6 ELSE words(learn_bits(v))
dst_len(v) == CASE learn_dst(v) = "match" -> 6 [] learn_dst(v) = "load" -> words(learn_bits(v))
                [] learn_dst(v) = "output" -> 0

Spec_(src, dst, n_bits, id) ==
  LET v == (IF src = "field" THEN 0 ELSE 8192)
           + (CASE dst = "match" -> 0 [] dst = "load" -> 2048 [] dst = "output" -> 4096) + n_bits
  IN [cls |-> "flow_mod_spec", parts |-> <<>>, rest |-> <<>>, stype |-> v,
      fields |-> [src |-> Sym("src", id, src_len(v)),
                  dst |-> Sym("dst", id, IF dst = "output" THEN 0 ELSE 6)]]

spec_pack(s) == Bytes(s.stype, 2) \o s.fields.src \o s.fields.dst
spec_unpack(b) ==
  LET v == Value(SubSeq(b, 1, 2))
      n == 2 + src_len(v)
  IN IF Len(b) < n + dst_len(v) THEN [ok |-> FALSE]
     ELSE [ok |-> TRUE, off |-> n + dst_len(v),
           obj |-> [cls |-> "flow_mod_spec", parts |-> <<>>, rest |-> <<>>, stype |-> v,
                    fields |-> [src |-> SubSeq(b, 3, n), dst |-> SubSeq(b, n + 1, n + dst_len(v))]]]
=============================================================================
