---------------------------- MODULE MCRowMerger ----------------------------
(* An instance of RowMerger: the cells of a router row are in one family.    *)
EXTENDS RowMerger

OneFamily == << <<"router", "connected_at">>, <<"router", "version">> >>
=============================================================================
