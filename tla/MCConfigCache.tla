--------------------------- MODULE MCConfigCache ---------------------------
(* Small instances of ConfigCache for TLC. *)
EXTENDS ConfigCache, TLC

CONSTANTS plain, second, overlaid   \* the last is run with --models-file

MCSourcesOf ==
    [p \in Procs |-> {f \in Files : p = overlaid \/ IsFirst(f, Files)}]

\* The two that read the same files.
MCSymmetry == Permutations({plain, second})
=============================================================================
