------------------------------- MODULE TermInput -------------------------------
(***************************************************************************)
(* Reading the terminal in a compiled program: std.term.read_event,        *)
(* read_event_timeout and read_paste of src/src/backend/stdlib/term.c      *)
(* (POSIX build).                                                          *)
(*                                                                         *)
(* The terminal delivers the bytes of a key one at a time, each with any   *)
(* delay; the program cuts the byte stream into events with a decoder that *)
(* gives up on a sequence when the next byte is late.  Beside it the       *)
(* terminal changes its size and raises SIGWINCH at any moment; the        *)
(* handler sets a flag that the next read polls.  A byte is its numeric    *)
(* value, an event the record the program receives.                        *)
(***************************************************************************)
EXTENDS Integers, Sequences, SequencesExt

CONSTANTS
    Keys,        \* what the user can press
    KeyBytes,    \* the bytes the terminal sends for a key
    KeyEvent,    \* the event that key stands for
    PasteKey,    \* the key that opens a bracketed paste ...
    PastedKey,   \* ... and the text that follows it, with its end marker
    PastedText,  \* the text without the end marker
    Sizes,       \* the terminal's possible sizes, <<rows, columns>>
    MaxKeys,     \* bound: keys pressed
    MaxResizes,  \* bound: changes of size
    PasteCap     \* the first capacity of the paste buffer (64 in the code)

ASSUME KeysAssumption ==
    /\ {PasteKey, PastedKey} \subseteq Keys /\ PasteKey # PastedKey
    /\ KeyBytes \in [Keys -> Seq(0 .. 255)]
    /\ \A k \in Keys : KeyBytes[k] # <<>>

ASSUME BoundsAssumption ==
    /\ MaxKeys \in Nat /\ MaxResizes \in Nat
    /\ PasteCap \in Nat /\ PasteCap >= 2
    /\ Sizes \subseteq Nat \X Nat

VARIABLES
    pressed,   \* the last key pressed
    presses,   \* how many keys were pressed
    inq,       \* its bytes that were not read yet, arrived or on their way
    hup,       \* the terminal is gone: reads return end of file
    size,      \* the terminal's size
    resizes,   \* how often it changed
    installed, pending, sizeInit, known,   \* the runtime's globals
    pc, timed, again,     \* where the call is, its kind, the second poll
    seen,      \* rows and columns sampled by the poll
    reg,       \* the decoder's registers
    buf, cap,  \* the paste buffer: its bytes and its capacity
    got,       \* what the last call returned
    \* history variables
    cut,       \* the current call lost the boundary of a key; so did a paste
               \* that an event of such a call has opened
    raced      \* the size changed between a sample and the end of its poll

ttyVars  == <<pressed, presses, inq, hup>>
sizeVars == <<size, resizes>>
winVars  == <<installed, pending, sizeInit, known, seen, raced>>
decVars  == <<reg, buf, cap>>
inputVars == <<ttyVars, sizeVars, winVars, pc, timed, again, decVars, got, cut>>

---------------------------------------------------------------------------
(* Events. *)

make_event(kind, code, mods, row, col) ==
    [kind |-> kind, code |-> code, mods |-> mods, row |-> row, col |-> col]
make_key_event(code, mods) == make_event("key", code, mods, 0, 0)
make_mouse_event(code, mods, row, col) == make_event("mouse", code, mods, row, col)
make_resize_event(rows, cols) == make_event("resize", 0, 0, rows, cols)
\* A kind of its own that no program tests for.
paste_event_of_other_kind == make_event("text", 0, 0, 0, 0)
make_paste_event == make_event("paste", 0, 0, 0, 0)
unknown_event(mods) == make_key_event(0, mods)
Error == make_event("error", 0, 0, 0, 0)

NoRegs == [mods |-> 0, need |-> 0, code |-> 0, p1 |-> 0, current |-> 0,
           parsing2 |-> FALSE, digit |-> FALSE, stage |-> 0, btn |-> 0, col |-> 0]

InputInit ==
    /\ pressed = PasteKey /\ presses = 0 /\ inq = <<>> /\ hup = FALSE
    /\ size \in Sizes /\ resizes = 0
    /\ installed = FALSE /\ pending = FALSE /\ sizeInit = FALSE
    /\ known = <<0, 0>> /\ seen = <<0, 0>> /\ raced = FALSE
    /\ pc = "idle" /\ timed = FALSE /\ again = FALSE
    /\ reg = NoRegs /\ buf = <<>> /\ cap = 0
    /\ got = Error
    /\ cut = FALSE

---------------------------------------------------------------------------
(* The terminal. *)

Reading == pc \in {"first", "escape", "csifirst", "csi", "ss3", "mouse", "utf8", "paste"}

\* The last byte read was not the last of its key.
Inside == inq # <<>> /\ Len(inq) < Len(KeyBytes[pressed])

\* A key is pressed, at the latest when the program waits for its first byte:
\* that it may have been in the queue before then changes nothing, because a
\* byte not read yet may always still be on its way.
Press(k) ==
    /\ Reading /\ inq = <<>> /\ ~hup /\ presses < MaxKeys
    /\ (k = PastedKey) <=> (presses > 0 /\ pressed = PasteKey)
    /\ pressed' = k /\ presses' = presses + 1
    /\ inq' = KeyBytes[k]
    /\ UNCHANGED <<hup, sizeVars, winVars, pc, timed, again, decVars, got, cut>>

Hangup ==
    /\ ~hup /\ inq = <<>>
    /\ hup' = TRUE
    /\ UNCHANGED <<pressed, presses, inq, sizeVars, winVars, pc, timed, again, decVars, got, cut>>

\* The size changes and SIGWINCH is raised; before the handler is installed
\* the signal is ignored.
cn_term_on_sigwinch ==
    /\ ~hup /\ resizes < MaxResizes
    /\ size' \in Sizes \ {size}
    /\ resizes' = resizes + 1
    /\ pending' = (pending \/ installed)
    /\ raced' = (raced \/ pc \in {"cols", "commit"})
    /\ UNCHANGED <<ttyVars, installed, sizeInit, known, seen, pc, timed, again, decVars, got, cut>>

---------------------------------------------------------------------------
(* Returning from a call, and reading one byte. *)

Return(event) ==
    /\ pc' = "idle" /\ got' = event /\ reg' = NoRegs
    /\ UNCHANGED <<timed, again>>

GoOn(where, registers) ==
    /\ pc' = where /\ reg' = registers
    /\ UNCHANGED <<got, timed, again>>

\* A byte is read: the history notes a byte of another key taken into a
\* sequence that was not finished.
cn_term_read_byte ==
    /\ inq # <<>>
    /\ inq' = Tail(inq)
    /\ cut' = (cut \/ (pc # "first" /\ inq = KeyBytes[pressed]))
    /\ UNCHANGED <<pressed, presses, hup>>

\* A timed read finds nothing: the next byte is late, poll was interrupted by
\* the signal, or the terminal is gone.  (A key of which no byte was read could
\* as well be pressed later.)
cn_term_read_byte_timeout ==
    /\ inq # <<>> => Inside
    /\ cut' = (cut \/ Inside)
    /\ UNCHANGED ttyVars

\* A blocking read fails at end of file only.
cn_term_read_byte_block_fails == inq = <<>> /\ hup

---------------------------------------------------------------------------
(* cn_term_poll_resize_event: the handler may run between any two of its   *)
(* steps.                                                                  *)

sizeOnly == UNCHANGED <<ttyVars, sizeVars, decVars, cut>>

\* After a poll without an event the first poll goes on to read, the second
\* returns.
NoResize ==
    IF again THEN pc' = "idle" /\ got' = Error /\ UNCHANGED <<timed, again>>
             ELSE pc' = "first" /\ UNCHANGED <<got, timed, again>>

\* Polls without a handler.
poll_without_handler ==
    /\ pc = "poll"
    /\ IF pending \/ ~sizeInit THEN pc' = "rows" /\ UNCHANGED <<got, timed, again>>
                               ELSE NoResize
    /\ sizeOnly /\ UNCHANGED <<installed, pending, sizeInit, known, seen, raced>>

cn_term_install_signal_handlers ==
    /\ pc = "poll"
    /\ installed' = TRUE
    /\ IF pending \/ ~sizeInit THEN pc' = "rows" /\ UNCHANGED <<got, timed, again>>
                               ELSE NoResize
    /\ sizeOnly /\ UNCHANGED <<pending, sizeInit, known, seen, raced>>

\* A new sample forgets an earlier race.
cn_term_rows ==
    /\ pc = "rows"
    /\ seen' = <<size[1], seen[2]>>
    /\ pc' = "cols" /\ raced' = FALSE
    /\ sizeOnly /\ UNCHANGED <<installed, pending, sizeInit, known, got, timed, again>>

cn_term_columns ==
    /\ pc = "cols"
    /\ seen' = <<seen[1], size[2]>>
    /\ pc' = "commit"
    /\ sizeOnly /\ UNCHANGED <<installed, pending, sizeInit, known, raced, got, timed, again>>

\* Reports the new size without remembering it.
PollCommit_forgets ==
    /\ pc = "commit"
    /\ IF hup \/ (sizeInit /\ seen = known)
       THEN NoResize /\ UNCHANGED <<pending, sizeInit, known, reg>>
       ELSE /\ sizeInit' = TRUE /\ pending' = FALSE
            /\ known' = IF sizeInit THEN known ELSE seen
            /\ IF sizeInit THEN Return(make_resize_event(seen[1], seen[2]))
                           ELSE NoResize /\ UNCHANGED reg
    /\ UNCHANGED <<ttyVars, sizeVars, installed, seen, raced, buf, cap, cut>>

\* The flag is cleared after the sample, not before it: a signal that comes
\* in between is lost, which the history variable raced records.
PollCommit ==
    /\ pc = "commit"
    /\ IF hup \/ (sizeInit /\ seen = known)
       THEN NoResize /\ UNCHANGED <<pending, sizeInit, known, reg>>
       ELSE /\ sizeInit' = TRUE /\ known' = seen /\ pending' = FALSE
            /\ IF sizeInit THEN Return(make_resize_event(seen[1], seen[2]))
                           ELSE NoResize /\ UNCHANGED reg
    /\ UNCHANGED <<ttyVars, sizeVars, installed, seen, raced, buf, cap, cut>>

cn_term_poll_resize_event ==
    \/ cn_term_install_signal_handlers
    \/ cn_term_rows
    \/ cn_term_columns
    \/ PollCommit

---------------------------------------------------------------------------
(* The decoder.  What it makes of a byte is an event, or where it waits for   *)
(* the next byte and with which registers.                                    *)

Answer(event) == [at |-> "idle", reg |-> NoRegs, event |-> event]
More(where, registers) == [at |-> where, reg |-> registers, event |-> Error]

Digit(b) == b \in 48 .. 57
Bit(n, m) == (n \div m) % 2 = 1
csi_modifiers_unshifted(p) == IF p \in 2 .. 8 THEN p ELSE 0
cn_term_csi_modifiers(p) == IF p \in 2 .. 8 THEN p - 1 ELSE 0

\* Final bytes A B C D H F, and P Q R S after ESC O.
ArrowKey == [b \in {65, 66, 67, 68, 72, 70} |->
    CASE b = 65 -> 260 [] b = 66 -> 261 [] b = 67 -> 263
      [] b = 68 -> 262 [] b = 72 -> 264 [] b = 70 -> 265]
Ss3Key == [b \in 80 .. 83 |-> b + 210]
TildeKey == [p \in {2, 3, 5, 6, 15, 17, 18, 19, 20, 21, 23, 24} |->
    CASE p = 2 -> 268 [] p = 3 -> 269 [] p = 5 -> 266 [] p = 6 -> 267
      [] p = 15 -> 294 [] p \in 17 .. 21 -> p + 278 [] p \in 23 .. 24 -> p + 277]

\* cn_term_decode_simple_byte for a byte that ends the event at once, and the
\* number of continuation bytes it asks for otherwise.
SimpleKey(b, mods) ==
    CASE b = 27 -> make_key_event(256, mods)
      [] b \in {13, 10} -> make_key_event(257, mods)
      [] b = 9 -> make_key_event(258, mods)
      [] b \in {127, 8} -> make_key_event(259, mods)
      [] b \in 32 .. 126 -> make_key_event(b, mods)
      [] b \in (1 .. 26) \ {8, 9, 10, 13} ->
             make_key_event(b + 96, IF Bit(mods, 4) THEN mods ELSE mods + 4)
      [] OTHER -> unknown_event(mods)

Continuations(b) ==
    CASE b \in 194 .. 223 -> 1 [] b \in 224 .. 239 -> 2 [] b \in 240 .. 244 -> 3 [] OTHER -> 0

LeadBits(b) ==
    CASE b \in 194 .. 223 -> b % 32 [] b \in 224 .. 239 -> b % 16 [] OTHER -> b % 8

cn_term_decode_simple_byte(b, mods) ==
    IF Continuations(b) = 0 THEN Answer(SimpleKey(b, mods))
    ELSE More("utf8", [NoRegs EXCEPT !.mods = mods, !.need = Continuations(b),
                                     !.code = LeadBits(b)])

cn_term_decode_utf8(r, b) ==
    IF b \notin 128 .. 191 THEN Answer(unknown_event(r.mods))
    ELSE LET code == (r.code * 64) + (b % 64) IN
         IF r.need = 1 THEN Answer(make_key_event(code, r.mods))
         ELSE More("utf8", [r EXCEPT !.need = @ - 1, !.code = code])

cn_term_parse_csi(r, b) ==
    CASE b = 60 -> More("mouse", NoRegs)
      [] Digit(b) ->
           More("csi", [r EXCEPT !.current = @ * 10 + (b - 48), !.digit = TRUE])
      [] b = 59 ->
           IF r.parsing2 THEN Answer(unknown_event(0))
           ELSE More("csi", [r EXCEPT !.p1 = IF r.digit THEN r.current ELSE 1,
                                      !.current = 0, !.digit = FALSE, !.parsing2 = TRUE])
      [] OTHER ->
           LET p1 == IF ~r.parsing2 /\ r.digit THEN r.current ELSE r.p1
               p2 == IF r.parsing2 /\ r.digit THEN r.current ELSE 1
               mods == cn_term_csi_modifiers(p2)
           IN Answer(CASE b \in DOMAIN ArrowKey -> make_key_event(ArrowKey[b], mods)
                       [] b = 126 /\ p1 \in DOMAIN TildeKey -> make_key_event(TildeKey[p1], mods)
                       [] b = 126 /\ p1 = 200 -> make_paste_event
                       [] OTHER -> unknown_event(0))

MouseEvent(press, btn, col, row) ==
    LET mods == (IF Bit(btn, 4) THEN 1 ELSE 0) + (IF Bit(btn, 8) THEN 2 ELSE 0)
                    + (IF Bit(btn, 16) THEN 4 ELSE 0)
        base == btn % 4
        code == CASE Bit(btn, 64) -> IF base = 1 THEN 7 ELSE 6
                  [] ~Bit(btn, 64) /\ ~press -> 4
                  [] ~Bit(btn, 64) /\ press /\ Bit(btn, 32) -> 5
                  [] OTHER -> base + 1
    IN make_mouse_event(code, mods, IF row > 0 THEN row - 1 ELSE 0, IF col > 0 THEN col - 1 ELSE 0)

cn_term_parse_mouse_sgr(r, b) ==
    CASE Digit(b) ->
           More("mouse", [r EXCEPT !.current = @ * 10 + (b - 48), !.digit = TRUE])
      [] b = 59 /\ r.digit /\ r.stage = 0 ->
           More("mouse", [r EXCEPT !.btn = r.current, !.stage = 1, !.current = 0, !.digit = FALSE])
      [] b = 59 /\ r.digit /\ r.stage = 1 ->
           More("mouse", [r EXCEPT !.col = r.current, !.stage = 2, !.current = 0, !.digit = FALSE])
      [] b \in {77, 109} /\ r.digit /\ r.stage = 2 ->
           Answer(MouseEvent(b = 77, r.btn, r.col, r.current))
      [] OTHER -> Answer(unknown_event(0))

cn_term_parse_ss3(b) ==
    Answer(CASE b \in DOMAIN ArrowKey -> make_key_event(ArrowKey[b], 0)
             [] b \in DOMAIN Ss3Key -> make_key_event(Ss3Key[b], 0)
             [] OTHER -> unknown_event(0))

\* The byte after ESC.
EscapeDispatch(b) ==
    CASE b = 91 -> More("csifirst", NoRegs)
      [] b = 79 -> More("ss3", NoRegs)
      [] OTHER -> cn_term_decode_simple_byte(b, 2)

\* The first byte of an event.
FirstByte(b) ==
    IF b = 27 THEN More("escape", NoRegs) ELSE cn_term_decode_simple_byte(b, 0)

\* The byte goes to the loop the decoder is in.
Decode(at, r, b) ==
    CASE at = "first" -> FirstByte(b)
      [] at = "escape" -> EscapeDispatch(b)
      [] at \in {"csifirst", "csi"} -> cn_term_parse_csi(r, b)
      [] at = "ss3" -> cn_term_parse_ss3(b)
      [] at = "mouse" -> cn_term_parse_mouse_sgr(r, b)
      [] at = "utf8" -> cn_term_decode_utf8(r, b)

\* What a sequence whose next byte is late becomes.
LateEvent(at) ==
    CASE at \in {"escape", "csifirst", "ss3"} -> make_key_event(256, 0)
      [] at \in {"csi", "mouse"} -> unknown_event(0)
      [] at = "utf8" -> Error

DecodeByte ==
    /\ pc \in {"first", "escape", "csifirst", "csi", "ss3", "mouse", "utf8"}
    /\ cn_term_read_byte
    /\ LET next == Decode(pc, reg, Head(inq))
       IN IF next.at = "idle" THEN Return(next.event) ELSE GoOn(next.at, next.reg)
    /\ UNCHANGED <<sizeVars, winVars, buf, cap>>

LateByte ==
    /\ pc \in {"escape", "csifirst", "csi", "ss3", "mouse", "utf8"}
    /\ cn_term_read_byte_timeout
    /\ Return(LateEvent(pc))
    /\ UNCHANGED <<sizeVars, winVars, buf, cap>>

---------------------------------------------------------------------------
(* The calls of the program. *)

Idle == pc = "idle"
PasteOpen == got.kind = "paste"

cn_term_read_event(is_timed) ==
    /\ Idle /\ ~PasteOpen
    /\ pc' = "poll" /\ timed' = is_timed /\ again' = FALSE
    /\ cut' = Inside
    /\ UNCHANGED <<ttyVars, sizeVars, winVars, decVars, got>>

\* The timed call polls the size once more when no byte came in time.
FirstByteTimeout ==
    /\ pc = "first" /\ timed
    /\ cn_term_read_byte_timeout
    /\ pc' = "poll" /\ again' = TRUE
    /\ UNCHANGED <<sizeVars, winVars, timed, decVars, got>>

FirstByteFails ==
    /\ pc = "first" /\ ~timed
    /\ cn_term_read_byte_block_fails
    /\ Return(Error)
    /\ UNCHANGED <<ttyVars, sizeVars, winVars, buf, cap, cut>>

\* cn_term_read_paste: malloc may fail; so may realloc, and then the bytes
\* read so far are gone.
EndMark == <<27, 91, 50, 48, 49, 126>>
Pasted(text) == [kind |-> "pasted", text |-> text]

PasteBegin ==
    /\ Idle /\ PasteOpen
    /\ \/ got' = Error /\ UNCHANGED <<pc, buf, cap>>
       \/ pc' = "paste" /\ buf' = <<>> /\ cap' = PasteCap /\ UNCHANGED got
    /\ cut' = (cut \/ Inside)
    /\ UNCHANGED <<ttyVars, sizeVars, winVars, timed, again, reg>>

AtEndMark(bytes) == Len(bytes) >= 6 /\ SubSeq(bytes, Len(bytes) - 5, Len(bytes)) = EndMark

PasteNeed(length) == length + 2

\* The text without the marker, or with the first byte of it.
WithoutMark_short(bytes) == SubSeq(bytes, 1, Len(bytes) - 5)
WithoutMark(bytes) == SubSeq(bytes, 1, Len(bytes) - 6)

PasteByte ==
    /\ pc = "paste"
    /\ inq # <<>> /\ inq' = Tail(inq)
    /\ \E grown \in BOOLEAN :
         LET full == PasteNeed(Len(buf)) > cap
             bytes == Append(buf, Head(inq))
         IN /\ ~full => grown
            /\ IF ~grown
               THEN Return(Error) /\ buf' = <<>> /\ cap' = 0
               ELSE IF AtEndMark(bytes)
               THEN /\ Return(Pasted(WithoutMark(bytes)))
                    /\ buf' = <<>> /\ cap' = 0
               ELSE /\ GoOn("paste", NoRegs)
                    /\ buf' = bytes
                    /\ cap' = IF full THEN cap * 2 ELSE cap
    /\ UNCHANGED <<pressed, presses, hup, sizeVars, winVars, cut>>

PasteFails ==
    /\ pc = "paste"
    /\ cn_term_read_byte_block_fails
    /\ Return(Error) /\ buf' = <<>> /\ cap' = 0
    /\ UNCHANGED <<ttyVars, sizeVars, winVars, cut>>

cn_term_read_paste == PasteBegin \/ PasteByte \/ PasteFails

---------------------------------------------------------------------------
ReadEvents ==
    \/ \E is_timed \in BOOLEAN : cn_term_read_event(is_timed)
    \/ cn_term_poll_resize_event
    \/ DecodeByte \/ LateByte
    \/ FirstByteTimeout \/ FirstByteFails
    \/ cn_term_read_paste

UserAndWindow ==
    \/ \E k \in Keys : Press(k)
    \/ Hangup
    \/ cn_term_on_sigwinch

InputNext == ReadEvents \/ UserAndWindow

\* The program keeps calling, and a call that can go on goes on; nothing is
\* assumed of the terminal or of the user.
InputSpec == InputInit /\ [][InputNext]_inputVars /\ WF_inputVars(ReadEvents)

---------------------------------------------------------------------------
(* Properties. *)

\* Types of the terminal's queues, the runtime's globals and the call.
InputTypeOK ==
    /\ pressed \in Keys /\ presses \in 0 .. MaxKeys /\ inq \in Seq(0 .. 255)
    /\ {hup, installed, pending, sizeInit, timed, again, cut, raced} \subseteq BOOLEAN
    /\ size \in Sizes /\ resizes \in 0 .. MaxResizes
    /\ known \in Nat \X Nat /\ seen \in Nat \X Nat
    /\ pc \in {"idle", "poll", "rows", "cols", "commit", "first", "escape", "csifirst",
               "csi", "ss3", "mouse", "utf8", "paste"}
    /\ DOMAIN reg = DOMAIN NoRegs
    /\ buf \in Seq(0 .. 255) /\ cap \in Nat
    /\ got.kind \in {"key", "mouse", "resize", "paste", "pasted", "error"}

\* A call that neither lost a key's boundary to a late byte nor took bytes of
\* two keys together returns the event of the key it read, and leaves the
\* unread bytes at the start of a key: no key is decoded as another, and
\* nothing of a sequence is left behind to be read as typed text.
DecodesKeys ==
    Idle /\ ~cut /\ pressed # PastedKey /\ got.kind \in {"key", "mouse", "paste"}
        => ~Inside /\ got = KeyEvent[pressed]

\* While read_paste reads, its buffer has room for the byte just stored and
\* for the terminating zero, whatever the lengths at which it grows.
PasteHasRoom == pc = "paste" => Len(buf) + 1 <= cap

\* read_paste returns the pasted bytes up to the end marker and nothing else,
\* and stops reading exactly behind the marker; it never writes behind its
\* buffer on the way.
PasteIsExact ==
    /\ Idle /\ ~cut /\ got.kind = "pasted" => got.text = PastedText /\ ~Inside
    /\ PasteHasRoom

\* When no signal is pending, the size the program was last told is the
\* terminal's size, unless the size changed again between the sampling of a
\* poll and the clearing of the flag.
SizeIsCurrent ==
    sizeInit /\ ~pending /\ ~raced /\ pc \notin {"rows", "cols", "commit"} /\ ~hup => known = size

\* Waiting for the user in a call without a time limit.
Blocked == pc = "paste" \/ (pc = "first" /\ ~timed)

\* The program's idea of the size is out of date; and the ways this ends.
SizeStale == sizeInit /\ known # size
SizeSettled == known = size \/ raced \/ hup \/ Blocked
================================================================================
