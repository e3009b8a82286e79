----------------------------- MODULE MCDigests -----------------------------
(***************************************************************************)
(* TLC instance of the path of a digest: fields of two bits, two headers,  *)
(* three learn lists of which p4info knows two.  As field lists, 2 names   *)
(* egress_spec and 3 names both fields.                                    *)
(***************************************************************************)
EXTENDS Digests, TLC

Lengths == [h \in Header |-> 1]

FieldsOf == [l \in 0 .. FieldSize - 1 |->
                CASE l = 2 -> {"egress_spec"}
                  [] l = 3 -> {"egress_spec", "mcast_grp"}
                  [] OTHER -> {}]

\* Headers of one length may change places: what is checked is safety.
HeaderSymmetry == Permutations(Header)
============================================================================
