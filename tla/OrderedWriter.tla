---------------------------- MODULE OrderedWriter ----------------------------
(***************************************************************************)
(* What tools/gen1brc promises whoever reads its output file: the blocks   *)
(* of the dataset appear one after the other in index order, each once,    *)
(* and the summary line is printed only when every block is there.  How    *)
(* many goroutines generated them does not show.                           *)
(***************************************************************************)
EXTENDS Naturals, Sequences

CONSTANT Blocks             \* number of blocks of the dataset

VARIABLES stream,           \* the blocks handed to the file, in order
          status            \* "writing", "complete" or "failed"

vars == <<stream, status>>

Init == stream = <<>> /\ status = "writing"

WriteBlock ==
    /\ status = "writing"
    /\ Len(stream) < Blocks
    /\ stream' = Append(stream, Len(stream))
    /\ UNCHANGED status

Complete ==
    /\ status = "writing"
    /\ Len(stream) = Blocks
    /\ status' = "complete"
    /\ UNCHANGED stream

Fail ==
    /\ status = "writing"
    /\ status' = "failed"
    /\ UNCHANGED stream

Next == WriteBlock \/ Complete \/ Fail

Spec == Init /\ [][Next]_vars
=============================================================================
