------------------------------- MODULE TermMode --------------------------------
(***************************************************************************)
(* Raw mode of the terminal in a compiled program: std.term.enter_raw_mode *)
(* and leave_raw_mode of src/src/backend/stdlib/term.c, and the exit       *)
(* handler that puts the terminal back.  The settings of the terminal are  *)
(* "user" (what the program found) or "raw"; every call into the system    *)
(* may fail.  Entering raw mode also installs the SIGWINCH handler, which  *)
(* the reading of events (TermInput) shares.                               *)
(***************************************************************************)
EXTENDS TermInput

CONSTANT MaxModeCalls    \* bound: calls of enter and leave

ASSUME ModeCallsAssumption == MaxModeCalls \in Nat

VARIABLES
    tty,          \* the settings in force
    rawSaved,     \* .cn.term.raw.saved
    rawValid,     \* .cn.term.raw.valid
    rawAtexit,    \* .cn.term.raw.atexit: the exit handler is registered
    modeCalls,
    exited,
    \* history variables
    nested,       \* raw mode was entered from raw mode
    refused       \* the system refused a restoration or the exit handler

modeVars == <<tty, rawSaved, rawValid, rawAtexit, modeCalls, exited, nested, refused>>

ModeInit ==
    /\ tty = "user" /\ rawSaved = "none" /\ rawValid = FALSE /\ rawAtexit = FALSE
    /\ modeCalls = 0 /\ exited = FALSE
    /\ nested = FALSE /\ refused = FALSE

---------------------------------------------------------------------------
Call ==
    /\ Idle /\ ~exited /\ modeCalls < MaxModeCalls
    /\ modeCalls' = modeCalls + 1

\* tcgetattr fails: nothing happened.
EnterFails ==
    /\ Call
    /\ UNCHANGED <<inputVars, tty, rawSaved, rawValid, rawAtexit, exited, nested, refused>>

\* The copy is made before tcsetattr, so that it replaces the last one even
\* when tcsetattr fails.
enter_raw_saves_late ==
    /\ Call
    /\ installed' = TRUE
    /\ nested' = (nested \/ tty = "raw")
    /\ \E set \in BOOLEAN, registers \in BOOLEAN :
         /\ set => tty' = "raw" /\ rawSaved' = "raw" /\ rawValid' = TRUE
                   /\ rawAtexit' = (rawAtexit \/ registers)
                   /\ refused' = (refused \/ ~rawAtexit')
         /\ ~set => registers /\ UNCHANGED <<tty, rawValid, rawAtexit, refused, rawSaved>>
    /\ UNCHANGED <<pending, sizeInit, known, seen, raced>>
    /\ UNCHANGED <<ttyVars, sizeVars, pc, timed, again, decVars, got, cut, exited>>

cn_term_enter_raw_mode ==
    /\ Call
    /\ installed' = TRUE
    /\ rawSaved' = tty
    /\ nested' = (nested \/ tty = "raw")
    /\ \E set \in BOOLEAN, registers \in BOOLEAN :
         /\ set => tty' = "raw" /\ rawValid' = TRUE
                   /\ rawAtexit' = (rawAtexit \/ registers)
                   /\ refused' = (refused \/ ~rawAtexit')
         /\ ~set => registers /\ UNCHANGED <<tty, rawValid, rawAtexit, refused>>
    /\ UNCHANGED <<pending, sizeInit, known, seen, raced>>
    /\ UNCHANGED <<ttyVars, sizeVars, pc, timed, again, decVars, got, cut, exited>>

cn_term_restore_raw_impl ==
    IF ~rawValid THEN UNCHANGED <<tty, rawValid, refused>>
    ELSE \E set \in BOOLEAN :
           /\ tty' = IF set THEN rawSaved ELSE tty
           /\ rawValid' = ~set
           /\ refused' = (refused \/ ~set)

cn_term_leave_raw_mode ==
    /\ Call
    /\ cn_term_restore_raw_impl
    /\ UNCHANGED <<inputVars, rawSaved, rawAtexit, exited, nested>>

\* The program ends by returning from main or by exit.
cn_term_restore_raw_atexit ==
    /\ Idle /\ ~exited
    /\ exited' = TRUE
    /\ IF rawAtexit THEN cn_term_restore_raw_impl ELSE UNCHANGED <<tty, rawValid, refused>>
    /\ UNCHANGED <<inputVars, rawSaved, rawAtexit, modeCalls, nested>>

\* No key is pressed here: keys change none of these variables, and TermInput
\* has them all.
ModeNext ==
    \/ ~exited /\ (ReadEvents \/ Hangup \/ cn_term_on_sigwinch) /\ UNCHANGED modeVars
    \/ EnterFails
    \/ cn_term_enter_raw_mode
    \/ cn_term_leave_raw_mode
    \/ cn_term_restore_raw_atexit

---------------------------------------------------------------------------
ModeTypeOK ==
    /\ tty \in {"user", "raw"} /\ rawSaved \in {"none", "user", "raw"}
    /\ {rawValid, rawAtexit, exited, nested, refused} \subseteq BOOLEAN
    /\ modeCalls \in 0 .. MaxModeCalls

\* However enter_raw_mode, leave_raw_mode, their failures and the reads
\* between them are ordered, a program that ends normally leaves the terminal
\* with the user's settings, and so does a program that says it is not in raw
\* mode, unless the system refused to set the attributes or to register the
\* exit handler, or the program entered raw mode from raw mode: enter_raw_mode
\* then saves the raw settings over the user's.
TerminalRestored ==
    (exited \/ ~rawValid) /\ ~nested /\ ~refused => tty = "user"
================================================================================
