--------------------------- MODULE MCDemuxTagWrap ---------------------------
(***************************************************************************)
(* Demux with a tag space smaller than the number of calls: the scaled-    *)
(* down image of the uint32 Ttag wrapping around after 2^32 tag() calls    *)
(* while an old call is still outstanding.                                 *)
(***************************************************************************)
EXTENDS Demux

ASSUME 1 + Cardinality(Callers) * MaxCalls > TagMod

=============================================================================
