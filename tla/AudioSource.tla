------------------------------ MODULE AudioSource ------------------------------
(***************************************************************************)
(* What a reader of audio files promises to the program that uses it:      *)
(* after a file was opened, the calls of Read give its samples in their    *)
(* order, each once, until the file is finished or a call fails; a call    *)
(* returns, and a file that fails says nothing of the next one.            *)
(***************************************************************************)
EXTENDS Naturals, Sequences

CONSTANTS
    Files,
    Audio(_),    \* the samples of a file
    Whole(_)     \* whether its end is promised too

VARIABLES
    status,    \* "closed", "open", "reading" (within Read), "finished", "failed"
    file,      \* the file opened last
    given      \* the samples it gave so far

sourceVars == <<status, file, given>>

Open(f) ==
    /\ status # "reading"
    /\ status' = "open" /\ file' = f /\ given' = <<>>

OpenFails(f) ==
    /\ status # "reading"
    /\ status' = "closed" /\ file' = f /\ given' = <<>>

Read ==
    /\ status = "open"
    /\ status' = "reading" /\ UNCHANGED <<file, given>>

\* The next n samples, maybe none and maybe the last ones.
Return(n) ==
    /\ status = "reading"
    /\ n <= Len(Audio(file)) - Len(given)
    /\ given' = SubSeq(Audio(file), 1, Len(given) + n)
    /\ status' \in {"open", "finished"}
    /\ status' = "finished" /\ Whole(file) => given' = Audio(file)
    /\ UNCHANGED file

Fail ==
    /\ status = "reading"
    /\ status' = "failed" /\ UNCHANGED <<file, given>>

SourceInit == status = "closed" /\ file \in Files /\ given = <<>>

SourceNext ==
    \/ \E f \in Files : Open(f) \/ OpenFails(f)
    \/ Read
    \/ \E n \in 0 .. Len(Audio(file)) : Return(n)
    \/ Fail

\* A call of Read returns, whatever the file.
ReadReturns == []<>(status # "reading")

Source == SourceInit /\ [][SourceNext]_sourceVars /\ ReadReturns
=============================================================================
