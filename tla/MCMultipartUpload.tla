--------------------------- MODULE MCMultipartUpload ---------------------------
(* Symmetry for the TLC runs of MultipartUpload. *)
EXTENDS MultipartUpload, TLC

Symmetry ==
  Permutations(Requests) \cup Permutations(Uploads) \cup Permutations(Contents)

============================================================================
