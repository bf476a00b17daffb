-------------------------- MODULE MCPaymentSidecar --------------------------
(* Small instances of PaymentSidecar for TLC.                              *)
EXTENDS PaymentSidecar, TLC

(* Keys, signatures, handlers and bodies are interchangeable: every        *)
(* definition only compares them.                                          *)
Symmetry ==
    Permutations(Keys) \cup Permutations(Signatures) \cup
    Permutations(Procs) \cup Permutations(Handlers) \cup Permutations(Bodies)
=============================================================================
