-------------------------- MODULE MCResourceLoader --------------------------
(* Answers of GetFileSize that a .cfg file cannot write as literals.       *)
EXTENDS ResourceLoader

(* GetFileSize reporting -1 with success, as an embedder that passes an    *)
(* error code through the size would.                                      *)
NegativeReports == {-1}

=============================================================================
