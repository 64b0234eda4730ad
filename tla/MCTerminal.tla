------------------------------ MODULE MCTerminal -------------------------------
(***************************************************************************)
(* The terminal runtime for TLC.  Reading (TermInput, with TermMode beside *)
(* it), text (TermText) and drawing (TermScreen) share no variable except  *)
(* that TermMode extends TermInput; a run picks one part and leaves the    *)
(* variables of the others as they start, so that the parts are explored   *)
(* one after the other instead of multiplied.                              *)
(***************************************************************************)
EXTENDS TermMode, TermScreen

VARIABLE part

vars == <<part, inputVars, modeVars, textVars, screenVars>>

Init ==
    /\ part \in {"input", "mode", "text", "screen"}
    /\ InputInit /\ ModeInit /\ TextInit /\ ScreenInit
    /\ part # "text" => text = <<>>
    /\ part \in {"text", "screen"} => size = CHOOSE s \in Sizes : TRUE

InputStep == part = "input" /\ InputNext /\ UNCHANGED <<part, modeVars, textVars, screenVars>>
ModeStep == part = "mode" /\ ModeNext /\ UNCHANGED <<part, textVars, screenVars>>
TextStep == part = "text" /\ Walk /\ UNCHANGED <<part, inputVars, modeVars, screenVars>>
ScreenStep == part = "screen" /\ ScreenNext /\ UNCHANGED <<part, inputVars, modeVars, textVars>>

Next == InputStep \/ ModeStep \/ TextStep \/ ScreenStep

Spec == Init /\ [][Next]_vars /\ WF_vars(InputStep /\ ReadEvents)

\* Types of the state of reading and of raw mode.
TypeOK == InputTypeOK /\ ModeTypeOK

\* A change of size reaches the program: its next reads tell it the present
\* size, unless the change fell into the window of a poll, the terminal is
\* gone, or the program sits in a read without a time limit (SIGWINCH
\* restarts read).
ResizeReported == (part = "input" /\ SizeStale) ~> SizeSettled

---------------------------------------------------------------------------
(* What a terminal of the xterm family sends for a key, said from its side.   *)
(* Which final byte and which number is which key, is the table of the code.  *)

\* A key of one byte; with Alt, ESC is sent before it.
TypedKey(b, mods, event) ==
    \/ b \in 32 .. 126 /\ event = make_key_event(b, mods)
    \/ b = 13 /\ event = make_key_event(257, mods)
    \/ b = 9 /\ event = make_key_event(258, mods)
    \/ b = 127 /\ event = make_key_event(259, mods)
    \/ b \in (1 .. 26) \ {8, 9, 10, 13} /\ event = make_key_event(b + 96, mods + 4)

\* The bytes from the i-th to the j-th are a decimal number of up to four
\* digits, and its value.
Digits(bytes, i, j) == j \in i .. i + 3 /\ \A k \in i .. j : bytes[k] \in 48 .. 57
Number(bytes, i, j) ==
    LET d(k) == bytes[k] - 48
    IN CASE j = i -> d(i)
         [] j = i + 1 -> d(i) * 10 + d(i + 1)
         [] j = i + 2 -> d(i) * 100 + d(i + 1) * 10 + d(i + 2)
         [] j = i + 3 -> d(i) * 1000 + d(i + 1) * 100 + d(i + 2) * 10 + d(i + 3)

PlainKey(bytes, event) ==
    \/ bytes = <<27>> /\ event = make_key_event(256, 0)
    \/ Len(bytes) = 1 /\ TypedKey(bytes[1], 0, event)
    \/ Len(bytes) = 2 /\ bytes[1] = 27 /\ bytes[2] \notin {79, 91} /\ TypedKey(bytes[2], 2, event)

\* A code point outside ASCII, as UTF-8.
Utf8Key(bytes, event) ==
    /\ event.code \in Nat /\ event.code > 127 /\ event.code <= 1114111
    /\ event = make_key_event(event.code, 0)
    /\ bytes = cn_term_write_code(event.code)

\* ESC [ A, or with modifiers ESC [ 1 ; m A where m is one more than their bits.
CursorKey(bytes, event) ==
    LET n == Len(bytes) IN
    /\ n \in {3, 6} /\ bytes[1] = 27 /\ bytes[2] = 91 /\ bytes[n] \in DOMAIN ArrowKey
    /\ \/ n = 3 /\ event = make_key_event(ArrowKey[bytes[n]], 0)
       \/ /\ n = 6 /\ bytes[3] = 49 /\ bytes[4] = 59 /\ bytes[5] \in 49 .. 56
          /\ event = make_key_event(ArrowKey[bytes[n]], bytes[5] - 49)

\* ESC [ number ~, or with modifiers ESC [ number ; m ~.
NumberedKey(bytes, event) ==
    LET n == Len(bytes) IN
    /\ bytes[1] = 27 /\ bytes[2] = 91 /\ bytes[n] = 126
    /\ \/ /\ n \in 4 .. 7 /\ Digits(bytes, 3, n - 1)
          /\ Number(bytes, 3, n - 1) \in DOMAIN TildeKey
          /\ event = make_key_event(TildeKey[Number(bytes, 3, n - 1)], 0)
       \/ /\ n \in 6 .. 9 /\ Digits(bytes, 3, n - 3)
          /\ Number(bytes, 3, n - 3) \in DOMAIN TildeKey
          /\ bytes[n - 2] = 59 /\ bytes[n - 1] \in 49 .. 56
          /\ event = make_key_event(TildeKey[Number(bytes, 3, n - 3)], bytes[n - 1] - 49)

FunctionKey(bytes, event) ==
    /\ Len(bytes) = 3 /\ bytes[1] = 27 /\ bytes[2] = 79
    /\ \/ bytes[3] \in DOMAIN ArrowKey /\ event = make_key_event(ArrowKey[bytes[3]], 0)
       \/ bytes[3] \in DOMAIN Ss3Key /\ event = make_key_event(Ss3Key[bytes[3]], 0)

\* ESC [ < buttons ; column ; row M, or m for a release.  The buttons are the sum
\* of the button and a bit each for shift, alt, control, motion and the wheel.
ButtonsMean(btn, last, row, col, event) ==
    \E button \in 0 .. 3, shift, alt, ctrl, motion, wheel \in 0 .. 1 :
        /\ btn = button + 4 * shift + 8 * alt + 16 * ctrl + 32 * motion + 64 * wheel
        /\ event = make_mouse_event(
                      CASE wheel = 1 -> IF button = 1 THEN 7 ELSE 6
                        [] wheel = 0 /\ last = 109 -> 4
                        [] wheel = 0 /\ last = 77 /\ motion = 1 -> 5
                        [] OTHER -> button + 1,
                      shift + 2 * alt + 4 * ctrl, row - 1, col - 1)

MouseReport(bytes, i, j, event) ==
    LET n == Len(bytes)
        btn == Number(bytes, 4, i - 1)
        col == Number(bytes, i + 1, j - 1)
        row == Number(bytes, j + 1, n - 1)
    IN /\ bytes[1] = 27 /\ bytes[2] = 91 /\ bytes[3] = 60
       /\ Digits(bytes, 4, i - 1) /\ bytes[i] = 59
       /\ Digits(bytes, i + 1, j - 1) /\ bytes[j] = 59
       /\ Digits(bytes, j + 1, n - 1) /\ bytes[n] \in {77, 109}
       /\ col > 0 /\ row > 0 /\ ButtonsMean(btn, bytes[n], row, col, event)

MouseKey(bytes, event) == \E i, j \in DOMAIN bytes : MouseReport(bytes, i, j, event)

XtermKey(bytes, event) ==
    \/ PlainKey(bytes, event) \/ Utf8Key(bytes, event) \/ CursorKey(bytes, event)
    \/ NumberedKey(bytes, event) \/ FunctionKey(bytes, event) \/ MouseKey(bytes, event)

\* The keys are such keys, and a bracketed paste is opened and closed by its
\* markers; the text between them does not hold the closing one.
ASSUME TerminalAssumption ==
    /\ KeyBytes[PasteKey] = <<27, 91, 50, 48, 48, 126>> /\ KeyEvent[PasteKey] = make_paste_event
    /\ \A k \in Keys \ {PasteKey, PastedKey} : XtermKey(KeyBytes[k], KeyEvent[k])
    /\ PastedText \in Seq(0 .. 255) /\ KeyBytes[PastedKey] = PastedText \o EndMark
    /\ \A i \in 6 .. Len(KeyBytes[PastedKey]) - 1 : SubSeq(KeyBytes[PastedKey], i - 5, i) # EndMark

---------------------------------------------------------------------------
(* Keys: one or more for each kind of sequence the decoder knows. *)

Key(code, mods) == make_key_event(code, mods)

KeyTable ==
    "a"       :> << <<97>>, Key(97, 0) >>
 @@ "esc"     :> << <<27>>, Key(256, 0) >>
 @@ "enter"   :> << <<13>>, Key(257, 0) >>
 @@ "ctrl-c"  :> << <<3>>, Key(99, 4) >>
 @@ "alt-a"   :> << <<27, 97>>, Key(97, 2) >>
 @@ "e-acute" :> << <<195, 169>>, Key(233, 0) >>
 @@ "euro"    :> << <<226, 130, 172>>, Key(8364, 0) >>
 @@ "grin"    :> << <<240, 159, 152, 128>>, Key(128512, 0) >>
 @@ "up"      :> << <<27, 91, 65>>, Key(260, 0) >>
 @@ "sh-up"   :> << <<27, 91, 49, 59, 50, 65>>, Key(260, 1) >>
 @@ "delete"  :> << <<27, 91, 51, 126>>, Key(269, 0) >>
 @@ "f5"      :> << <<27, 91, 49, 53, 126>>, Key(294, 0) >>
 @@ "f1"      :> << <<27, 79, 80>>, Key(290, 0) >>
 @@ "click"   :> << <<27, 91, 60, 48, 59, 50, 59, 51, 77>>, make_mouse_event(1, 0, 2, 1) >>
 @@ "wheel"   :> << <<27, 91, 60, 54, 53, 59, 49, 59, 49, 77>>, make_mouse_event(7, 0, 0, 0) >>
 @@ "paste"   :> << <<27, 91, 50, 48, 48, 126>>, make_paste_event >>
 @@ "pasted"  :> << <<98, 27, 91, 50, 48, 49, 126>>, Error >>

MCKeys == DOMAIN KeyTable
MCKeyBytes == [k \in MCKeys |-> KeyTable[k][1]]
MCKeyEvent == [k \in MCKeys |-> KeyTable[k][2]]
MCPastedText == <<98>>
MCSizes == {<<24, 80>>, <<30, 100>>}

MCCodes == {97, 127, 128, 233, 769, 2047, 2048, 8364, 19990, 65535, 65536, 128512, 1114111}
MCOddBytes == {97, 130, 195, 200, 226, 240}
MCWcWidth == 769 :> 0 @@ 233 :> 1

MCCells == { make_cell(97, "plain", FALSE), make_cell(97, "bold", FALSE),
             make_cell(19990, "plain", FALSE), make_cell(32, "plain", TRUE) }
MCFills == {Blank}
MCGarbage == {make_cell(97, "bold", FALSE)}
MCDims == {<<0, 2>>, <<1, 3>>, <<2, 1>>}
MCClips == { [row |-> -1, column |-> 0, height |-> 2, width |-> 2],
             [row |-> 0, column |-> 1, height |-> 1, width |-> 5],
             [row |-> 0, column |-> -1, height |-> 2, width |-> 2],
             [row |-> 0, column |-> 1, height |-> 0, width |-> 1] }
================================================================================
