------------------------------ MODULE MCDemux ------------------------------
(***************************************************************************)
(* Model-checking instance of Demux: two concurrent callers on one         *)
(* connection, one Close, streams of two frames.                           *)
(***************************************************************************)
EXTENDS Demux

\* Two calls per caller: 1 + 2 * 2 = 5 tags are allocated, below 2^TagBits,
\* so no tag is reused in this run (MCDemuxTagWrap reuses them).
ASSUME 1 + Cardinality(Callers) * MaxCalls <= TagMod

=============================================================================
