------------------------------- MODULE FileCopy -------------------------------
(***************************************************************************)
(* What a download promises: the receiver gets the blocks of the file it   *)
(* asked for, each once and in order, and takes the copy for complete only *)
(* when it has all of them.  It may fail at any time.                      *)
(***************************************************************************)
EXTENDS Naturals, Sequences

CONSTANTS
    Files,
    Size        \* the blocks of each file

VARIABLES
    file,       \* the file asked for
    copied,     \* the blocks received of it
    phase

copyVars == <<file, copied, phase>>

CopyInit == /\ file \in Files /\ copied = <<>> /\ phase = "idle"

Begin(f) ==
    /\ phase # "copying"
    /\ file' = f /\ copied' = <<>> /\ phase' = "copying"

Block ==
    /\ phase = "copying" /\ Len(copied) < Size[file]
    /\ copied' = Append(copied, <<file, Len(copied) + 1>>)
    /\ UNCHANGED <<file, phase>>

Complete ==
    /\ phase = "copying" /\ Len(copied) = Size[file]
    /\ phase' = "complete"
    /\ UNCHANGED <<file, copied>>

Fail ==
    /\ phase = "copying" /\ phase' = "failed"
    /\ UNCHANGED <<file, copied>>

CopyNext == (\E f \in Files : Begin(f)) \/ Block \/ Complete \/ Fail

CopySpec == CopyInit /\ [][CopyNext]_copyVars

===============================================================================
