--------------------------- MODULE TerminalProofs ---------------------------
(***************************************************************************)
(* The terminal runtime for any number of keys, changes of size and calls: *)
(* raw mode is undone, the size the program knows is the terminal's, the   *)
(* paste buffer suffices, every key of an xterm is decoded to its event,   *)
(* every paste is returned exactly, a walk over a string sees its codes    *)
(* and its columns, and all of it keeps its types.                         *)
(***************************************************************************)
EXTENDS MCTerminal, SetSums, SequenceTheorems, TLAPS

\* While raw mode is in force the settings to go back to are saved, marked as
\* valid and known to the exit handler, and what is marked as valid is the
\* user's.
Saved ==
  ~nested /\ ~refused =>
    /\ rawValid => rawSaved = "user"
    /\ tty = "raw" => rawValid /\ rawAtexit

MInv ==
  /\ tty \in {"user", "raw"} /\ (rawValid => rawSaved \in {"user", "raw"})
  /\ {rawValid, rawAtexit, exited, nested, refused} \subseteq BOOLEAN
  /\ Saved
  /\ exited /\ ~nested /\ ~refused => tty = "user"

LEMMA InitMode == Init => MInv
  BY DEF Init, ModeInit, MInv, Saved

LEMMA EnterMode == ASSUME MInv, cn_term_enter_raw_mode PROVE MInv'
  <1>1. ~exited /\ exited' = exited /\ rawSaved' = tty /\ nested' = (nested \/ tty = "raw")
    BY DEF cn_term_enter_raw_mode, Call
  <1>2. PICK set \in BOOLEAN, registers \in BOOLEAN :
          /\ set => tty' = "raw" /\ rawValid' = TRUE
                    /\ rawAtexit' = (rawAtexit \/ registers)
                    /\ refused' = (refused \/ ~rawAtexit')
          /\ ~set => UNCHANGED <<tty, rawValid, rawAtexit, refused>>
    BY DEF cn_term_enter_raw_mode
  <1>3. CASE set
    BY <1>1, <1>2, <1>3 DEF MInv, Saved
  <1>4. CASE ~set
    BY <1>1, <1>2, <1>4 DEF MInv, Saved
  <1> QED BY <1>3, <1>4

\* Restoring puts the saved settings back or keeps them marked as valid.
LEMMA RestoreMode ==
  ASSUME MInv, cn_term_restore_raw_impl, UNCHANGED <<rawSaved, rawAtexit, nested>>
  PROVE  /\ tty' \in {"user", "raw"} /\ (rawValid' => rawSaved' \in {"user", "raw"})
         /\ rawValid' \in BOOLEAN /\ refused' \in BOOLEAN
         /\ Saved'
         /\ ~nested /\ ~refused' => tty' = "user"
  <1>1. CASE ~rawValid
    BY <1>1 DEF cn_term_restore_raw_impl, MInv, Saved
  <1>2. CASE rawValid
    <2>1. PICK set \in BOOLEAN : /\ tty' = IF set THEN rawSaved ELSE tty
                                 /\ rawValid' = ~set
                                 /\ refused' = (refused \/ ~set)
      BY <1>2 DEF cn_term_restore_raw_impl
    <2> QED BY <1>2, <2>1 DEF MInv, Saved
  <1> QED BY <1>1, <1>2

LEMMA LeaveMode == ASSUME MInv, cn_term_leave_raw_mode PROVE MInv'
  <1>1. cn_term_restore_raw_impl /\ UNCHANGED <<rawSaved, rawAtexit, nested, exited>>
    BY DEF cn_term_leave_raw_mode
  <1> QED BY <1>1, RestoreMode DEF MInv

LEMMA ExitMode == ASSUME MInv, cn_term_restore_raw_atexit PROVE MInv'
  <1>1. exited' = TRUE /\ UNCHANGED <<rawSaved, rawAtexit, nested>>
    BY DEF cn_term_restore_raw_atexit
  <1>2. CASE rawAtexit
    BY <1>1, <1>2, RestoreMode DEF MInv, cn_term_restore_raw_atexit
  <1>3. CASE ~rawAtexit
    BY <1>1, <1>3 DEF MInv, Saved, cn_term_restore_raw_atexit
  <1> QED BY <1>2, <1>3

LEMMA NextMode == ASSUME MInv, [Next]_vars PROVE MInv'
  <1>1. CASE UNCHANGED modeVars
    BY <1>1 DEF modeVars, MInv, Saved
  <1>2. CASE EnterFails
    <2>1. UNCHANGED <<tty, rawSaved, rawValid, rawAtexit, exited, nested, refused>>
      BY <1>2 DEF EnterFails
    <2> QED BY <2>1 DEF MInv, Saved
  <1>3. \/ UNCHANGED modeVars \/ EnterFails \/ cn_term_enter_raw_mode
        \/ cn_term_leave_raw_mode \/ cn_term_restore_raw_atexit
    <2>1. CASE UNCHANGED vars
      BY <2>1 DEF vars
    <2>2. CASE InputStep \/ TextStep \/ ScreenStep
      BY <2>2 DEF InputStep, TextStep, ScreenStep
    <2>3. CASE ModeStep
      BY <2>3 DEF ModeStep, ModeNext
    <2> QED BY <2>1, <2>2, <2>3 DEF Next
  <1> QED BY <1>1, <1>2, <1>3, EnterMode, LeaveMode, ExitMode

\* The settings saved by enter_raw_mode are the user's as long as they are
\* marked as valid, and the exit handler knows of them (term.c,
\* cn_term_enter_raw_mode, cn_term_restore_raw_impl).
THEOREM ModeInvariance == Spec => []MInv
  <1>1. Init => MInv
    BY InitMode
  <1>2. MInv /\ [Next]_vars => MInv'
    BY NextMode
  <1> QED BY <1>1, <1>2, PTL DEF Spec

\* A program that ends, or says it is not in raw mode, leaves the terminal as
\* the user had it, for any number of calls that enter and leave raw mode.
THEOREM TerminalIsRestored == Spec => []TerminalRestored
  <1>1. MInv => TerminalRestored
    BY DEF MInv, Saved, TerminalRestored
  <1> QED BY <1>1, ModeInvariance, PTL

-----------------------------------------------------------------------------
(* Where a byte leads.                                                        *)

\* The loops that wait for a further byte of a sequence.
Waiting == {"escape", "csifirst", "csi", "ss3", "mouse", "utf8"}

LEMMA MoreFields ==
  ASSUME NEW where, NEW r
  PROVE  More(where, r).at = where /\ More(where, r).reg = r
  BY DEF More

LEMMA DecodeLoops ==
  ASSUME NEW r, NEW b
  PROVE  /\ Decode("first", r, b) = FirstByte(b)
         /\ Decode("escape", r, b) = EscapeDispatch(b)
         /\ Decode("csifirst", r, b) = cn_term_parse_csi(r, b)
         /\ Decode("csi", r, b) = cn_term_parse_csi(r, b)
         /\ Decode("ss3", r, b) = cn_term_parse_ss3(b)
         /\ Decode("mouse", r, b) = cn_term_parse_mouse_sgr(r, b)
         /\ Decode("utf8", r, b) = cn_term_decode_utf8(r, b)
  BY DEF Decode

LEMMA AnswerFields == ASSUME NEW e PROVE Answer(e).at = "idle" /\ Answer(e).event = e
  BY DEF Answer

\* A byte leads to an answer or to a further byte.
Outcome(s, r) ==
  /\ s.at \in Waiting \cup {"idle"}
  /\ s.event.kind \in {"key", "mouse", "paste", "error"}
  /\ DOMAIN r = DOMAIN NoRegs => DOMAIN s.reg = DOMAIN NoRegs

LEMMA OutcomeOfAnswer ==
  ASSUME NEW e, e.kind \in {"key", "mouse", "paste", "error"}, NEW r
  PROVE  Outcome(Answer(e), r)
  BY DEF Answer, Outcome

LEMMA OutcomeOfMore ==
  ASSUME NEW where \in Waiting, NEW r,
         NEW s, DOMAIN r = DOMAIN NoRegs => DOMAIN s = DOMAIN NoRegs
  PROVE  Outcome(More(where, s), r)
  BY DEF More, Outcome, Error, make_event

LEMMA KeysAnswer ==
  /\ \A code, mods : make_key_event(code, mods).kind = "key"
  /\ \A mods : unknown_event(mods).kind = "key"
  /\ make_paste_event.kind = "paste"
  BY DEF make_key_event, unknown_event, make_paste_event, make_event

LEMMA SimpleOutcome ==
  ASSUME NEW b, NEW mods, NEW r
  PROVE  Outcome(cn_term_decode_simple_byte(b, mods), r)
  <1> DEFINE regs == [NoRegs EXCEPT !.mods = mods, !.need = Continuations(b),
                                    !.code = LeadBits(b)]
  <1>1. SimpleKey(b, mods).kind = "key"
    BY KeysAnswer DEF SimpleKey
  <1>2. DOMAIN regs = DOMAIN NoRegs /\ "utf8" \in Waiting
    BY DEF Waiting
  <1>3. cn_term_decode_simple_byte(b, mods) \in {Answer(SimpleKey(b, mods)), More("utf8", regs)}
    BY Zenon DEF cn_term_decode_simple_byte
  <1> HIDE DEF regs
  <1> QED BY <1>1, <1>2, <1>3, OutcomeOfAnswer, OutcomeOfMore

LEMMA CsiOutcome ==
  ASSUME NEW r, NEW b
  PROVE  Outcome(cn_term_parse_csi(r, b), r)
  <1> DEFINE p1 == IF ~r.parsing2 /\ r.digit THEN r.current ELSE r.p1
             p2 == IF r.parsing2 /\ r.digit THEN r.current ELSE 1
             mods == cn_term_csi_modifiers(p2)
             event == CASE b \in DOMAIN ArrowKey -> make_key_event(ArrowKey[b], mods)
                        [] b = 126 /\ p1 \in DOMAIN TildeKey -> make_key_event(TildeKey[p1], mods)
                        [] b = 126 /\ p1 = 200 -> make_paste_event
                        [] OTHER -> unknown_event(0)
             digit == [r EXCEPT !.current = @ * 10 + (b - 48), !.digit = TRUE]
             second == [r EXCEPT !.p1 = IF r.digit THEN r.current ELSE 1,
                                      !.current = 0, !.digit = FALSE, !.parsing2 = TRUE]
  <1>1. unknown_event(0).kind = "key" /\ event.kind \in {"key", "paste"}
    <2> HIDE DEF mods, p1
    <2> QED BY KeysAnswer
  <1>2. /\ DOMAIN digit = DOMAIN r /\ DOMAIN second = DOMAIN r
        /\ "mouse" \in Waiting /\ "csi" \in Waiting
    BY DEF Waiting
  <1>3. cn_term_parse_csi(r, b) \in {More("mouse", NoRegs), More("csi", digit),
          Answer(unknown_event(0)), More("csi", second), Answer(event)}
    BY Zenon DEF cn_term_parse_csi
  <1> HIDE DEF event, digit, second
  <1> QED BY <1>1, <1>2, <1>3, OutcomeOfAnswer, OutcomeOfMore

LEMMA Ss3Outcome ==
  ASSUME NEW r, NEW b
  PROVE  Outcome(cn_term_parse_ss3(b), r)
  <1> DEFINE event == CASE b \in DOMAIN ArrowKey -> make_key_event(ArrowKey[b], 0)
                        [] b \in DOMAIN Ss3Key -> make_key_event(Ss3Key[b], 0)
                        [] OTHER -> unknown_event(0)
  <1>1. event.kind = "key"
    BY KeysAnswer
  <1>2. cn_term_parse_ss3(b) = Answer(event)
    BY Zenon DEF cn_term_parse_ss3
  <1> HIDE DEF event
  <1> QED BY <1>1, <1>2, OutcomeOfAnswer

LEMMA MouseOutcome ==
  ASSUME NEW r, NEW b
  PROVE  Outcome(cn_term_parse_mouse_sgr(r, b), r)
  <1> DEFINE digit == [r EXCEPT !.current = @ * 10 + (b - 48), !.digit = TRUE]
             one == [r EXCEPT !.btn = r.current, !.stage = 1, !.current = 0, !.digit = FALSE]
             two == [r EXCEPT !.col = r.current, !.stage = 2, !.current = 0, !.digit = FALSE]
             event == MouseEvent(b = 77, r.btn, r.col, r.current)
  <1>1. unknown_event(0).kind = "key" /\ event.kind = "mouse"
    BY DEF unknown_event, make_key_event, MouseEvent, make_mouse_event, make_event
  <1>2. /\ DOMAIN digit = DOMAIN r /\ DOMAIN one = DOMAIN r /\ DOMAIN two = DOMAIN r
        /\ "mouse" \in Waiting
    BY DEF Waiting
  <1>3. cn_term_parse_mouse_sgr(r, b) \in {More("mouse", digit), More("mouse", one),
          More("mouse", two), Answer(event), Answer(unknown_event(0))}
    BY Zenon DEF cn_term_parse_mouse_sgr
  <1> HIDE DEF event, digit, one, two
  <1> QED BY <1>1, <1>2, <1>3, OutcomeOfAnswer, OutcomeOfMore

LEMMA Utf8Outcome ==
  ASSUME NEW r, NEW b
  PROVE  Outcome(cn_term_decode_utf8(r, b), r)
  <1> DEFINE code == (r.code * 64) + (b % 64)
             regs == [r EXCEPT !.need = @ - 1, !.code = code]
  <1>1. unknown_event(r.mods).kind = "key" /\ make_key_event(code, r.mods).kind = "key"
    BY KeysAnswer, Zenon
  <1>2. DOMAIN regs = DOMAIN r /\ "utf8" \in Waiting
    BY DEF Waiting
  <1>3. cn_term_decode_utf8(r, b) \in {Answer(unknown_event(r.mods)),
          Answer(make_key_event(code, r.mods)), More("utf8", regs)}
    BY Zenon DEF cn_term_decode_utf8
  <1> HIDE DEF code, regs
  <1> QED BY <1>1, <1>2, <1>3, OutcomeOfAnswer, OutcomeOfMore

LEMMA DecodeOutcome ==
  ASSUME NEW at \in Waiting \cup {"first"}, NEW r, NEW b
  PROVE  Outcome(Decode(at, r, b), r)
  <1>1. {"escape", "csifirst", "ss3"} \subseteq Waiting
    BY DEF Waiting
  <1>2. Outcome(FirstByte(b), r)
    <2>1. FirstByte(b) \in {More("escape", NoRegs), cn_term_decode_simple_byte(b, 0)}
      BY Zenon DEF FirstByte
    <2> QED BY <1>1, <2>1, SimpleOutcome, OutcomeOfMore
  <1>3. Outcome(EscapeDispatch(b), r)
    <2>1. EscapeDispatch(b) \in {More("csifirst", NoRegs), More("ss3", NoRegs),
                                 cn_term_decode_simple_byte(b, 2)}
      BY Zenon DEF EscapeDispatch
    <2> QED BY <1>1, <2>1, SimpleOutcome, OutcomeOfMore
  <1> QED BY <1>2, <1>3, CsiOutcome, Ss3Outcome, MouseOutcome, Utf8Outcome, DecodeLoops DEF Waiting

LEMMA DecodePlaces ==
  ASSUME NEW at \in Waiting \cup {"first"}, NEW r, NEW b
  PROVE  Decode(at, r, b).at \in Waiting \cup {"idle"}
  BY DecodeOutcome DEF Outcome

LEMMA LateKinds == \A at \in Waiting : LateEvent(at).kind \in {"key", "error"}
  BY DEF Waiting, LateEvent, make_key_event, unknown_event, Error, make_event

\* ESC ends every sequence that waits for a byte.
LEMMA EscapeAnswers ==
  ASSUME NEW at \in Waiting, NEW r
  PROVE  Decode(at, r, 27).at = "idle"
  <1>1. EscapeDispatch(27).at = "idle"
    <2>1. Continuations(27) = 0
      BY DEF Continuations
    <2> QED BY <2>1, AnswerFields DEF EscapeDispatch, cn_term_decode_simple_byte
  <1>2. ~Digit(27) /\ 27 \notin 128 .. 191
    BY DEF Digit
  <1>3. cn_term_parse_csi(r, 27).at = "idle"
    BY <1>2, AnswerFields DEF cn_term_parse_csi
  <1>4. cn_term_parse_ss3(27).at = "idle"
    BY AnswerFields DEF cn_term_parse_ss3
  <1>5. cn_term_parse_mouse_sgr(r, 27).at = "idle"
    BY <1>2, AnswerFields DEF cn_term_parse_mouse_sgr
  <1>6. cn_term_decode_utf8(r, 27).at = "idle"
    BY <1>2, AnswerFields DEF cn_term_decode_utf8
  <1> QED BY <1>1, <1>3, <1>4, <1>5, <1>6, DecodeLoops DEF Waiting

-----------------------------------------------------------------------------
(* The size the program knows.                                                *)

\* What a poll has in hand while it samples, and that a size was only ever
\* recorded after the handler was installed: the second is why no change goes
\* unnoticed, the first why the size recorded is the terminal's.
SInv ==
  /\ size \in Sizes
  /\ sizeInit => installed
  /\ pc \in {"rows", "cols", "commit"} => installed
  /\ pc = "cols" /\ ~raced => seen[1] = size[1]
  /\ pc = "commit" /\ ~raced => seen = size
  /\ SizeIsCurrent

LEMMA InitSize == Init => SInv
  BY DEF Init, InputInit, SInv, SizeIsCurrent

\* A step that leaves the window alone and does not touch a poll.
LEMMA ApartFromPolls ==
  ASSUME SInv, UNCHANGED <<size, installed, pending, sizeInit, known, seen, raced>>,
         hup => hup',
         pc' = pc \/ (pc \notin {"rows", "cols", "commit"} /\ pc' \notin {"rows", "cols", "commit"})
  PROVE  SInv'
  BY DEF SInv, SizeIsCurrent

LEMMA SigwinchSize == ASSUME SInv, cn_term_on_sigwinch PROVE SInv'
  <1>1. /\ size' \in Sizes /\ pending' = (pending \/ installed)
        /\ raced' = (raced \/ pc \in {"cols", "commit"})
        /\ UNCHANGED <<installed, sizeInit, known, seen, pc, hup>>
    BY DEF cn_term_on_sigwinch, ttyVars
  <1> QED BY <1>1 DEF SInv, SizeIsCurrent

LEMMA InstallSize == ASSUME SInv, cn_term_install_signal_handlers PROVE SInv'
  <1>1. /\ pc = "poll" /\ installed' = TRUE
        /\ UNCHANGED <<size, pending, sizeInit, known, seen, raced, hup>>
        /\ pc' \in {"rows", "idle", "first"}
    BY DEF cn_term_install_signal_handlers, NoResize, sizeOnly, ttyVars, sizeVars
  <1> QED BY <1>1 DEF SInv, SizeIsCurrent

LEMMA RowsSize == ASSUME SInv, cn_term_rows PROVE SInv'
  <1>1. /\ pc = "rows" /\ pc' = "cols" /\ seen' = <<size[1], seen[2]>>
        /\ UNCHANGED <<size, installed, pending, sizeInit, known, hup>>
    BY DEF cn_term_rows, sizeOnly, ttyVars, sizeVars
  <1> QED BY <1>1 DEF SInv, SizeIsCurrent

LEMMA ColumnsSize == ASSUME SInv, cn_term_columns PROVE SInv'
  <1>1. /\ pc = "cols" /\ pc' = "commit" /\ seen' = <<seen[1], size[2]>>
        /\ UNCHANGED <<size, installed, pending, sizeInit, known, raced, hup>>
    BY DEF cn_term_columns, sizeOnly, ttyVars, sizeVars
  <1>2. size = <<size[1], size[2]>>
    BY BoundsAssumption DEF SInv
  <1> QED BY <1>1, <1>2 DEF SInv, SizeIsCurrent

LEMMA CommitSize == ASSUME SInv, PollCommit PROVE SInv'
  <1>1. /\ pc = "commit" /\ pc' \in {"idle", "first"}
        /\ UNCHANGED <<size, installed, seen, raced, hup>>
    BY DEF PollCommit, NoResize, Return, ttyVars, sizeVars
  <1>2. CASE hup \/ (sizeInit /\ seen = known)
    <2>1. UNCHANGED <<pending, sizeInit, known>>
      BY <1>2 DEF PollCommit
    <2> QED BY <1>1, <1>2, <2>1 DEF SInv, SizeIsCurrent
  <1>3. CASE ~(hup \/ (sizeInit /\ seen = known))
    <2>1. sizeInit' = TRUE /\ known' = seen /\ pending' = FALSE
      BY <1>3 DEF PollCommit
    <2> QED BY <1>1, <2>1 DEF SInv, SizeIsCurrent
  <1> QED BY <1>2, <1>3

LEMMA NextSize == ASSUME SInv, [Next]_vars PROVE SInv'
  <1> DEFINE quiet == UNCHANGED <<size, installed, pending, sizeInit, known, seen, raced>>
             still == pc' = pc \/ (pc \notin {"rows", "cols", "commit"}
                                     /\ pc' \notin {"rows", "cols", "commit"})
  <1>1. CASE UNCHANGED inputVars
    BY <1>1, ApartFromPolls DEF inputVars, ttyVars, sizeVars, winVars
  <1>2. CASE cn_term_enter_raw_mode
    <2>1. /\ installed' = TRUE
          /\ UNCHANGED <<size, pending, sizeInit, known, seen, raced, hup, pc>>
      BY <1>2 DEF cn_term_enter_raw_mode, ttyVars, sizeVars
    <2> QED BY <2>1 DEF SInv, SizeIsCurrent
  <1>3. CASE UserAndWindow
    <2>1. CASE \E k \in Keys : Press(k)
      BY <2>1, ApartFromPolls DEF Press, ttyVars, sizeVars, winVars
    <2>2. CASE Hangup
      BY <2>2, ApartFromPolls DEF Hangup, ttyVars, sizeVars, winVars
    <2> QED BY <1>3, <2>1, <2>2, SigwinchSize DEF UserAndWindow
  <1>4. CASE ReadEvents
    <2>1. CASE \E is_timed \in BOOLEAN : cn_term_read_event(is_timed)
      BY <2>1, ApartFromPolls DEF cn_term_read_event, Idle, ttyVars, sizeVars, winVars
    <2>2. CASE cn_term_poll_resize_event
      BY <2>2, InstallSize, RowsSize, ColumnsSize, CommitSize DEF cn_term_poll_resize_event
    <2>3. CASE DecodeByte
      <3>1. quiet /\ hup' = hup /\ pc \notin {"rows", "cols", "commit"}
        BY <2>3 DEF DecodeByte, cn_term_read_byte, sizeVars, winVars
      <3>2. pc' \notin {"rows", "cols", "commit"}
        <4> DEFINE next == Decode(pc, reg, Head(inq))
        <4>1. next.at \in Waiting \cup {"idle"} /\ pc' \in {"idle", next.at}
          BY <2>3, DecodePlaces DEF DecodeByte, Return, GoOn, Waiting
        <4> QED BY <4>1 DEF Waiting
      <3> QED BY <3>1, <3>2, ApartFromPolls
    <2>4. CASE LateByte
      BY <2>4, ApartFromPolls DEF LateByte, Return, cn_term_read_byte_timeout, ttyVars, sizeVars, winVars
    <2>5. CASE FirstByteTimeout
      BY <2>5, ApartFromPolls DEF FirstByteTimeout, cn_term_read_byte_timeout, ttyVars, sizeVars, winVars
    <2>6. CASE FirstByteFails
      BY <2>6, ApartFromPolls DEF FirstByteFails, Return, ttyVars, sizeVars, winVars
    <2>7. CASE PasteBegin
      BY <2>7, ApartFromPolls DEF PasteBegin, Idle, ttyVars, sizeVars, winVars
    <2>8. CASE PasteByte
      <3>1. quiet /\ hup' = hup /\ pc = "paste" /\ pc' \in {"idle", "paste"}
        BY <2>8 DEF PasteByte, Return, GoOn, sizeVars, winVars
      <3> QED BY <3>1, ApartFromPolls
    <2>9. CASE PasteFails
      BY <2>9, ApartFromPolls DEF PasteFails, Return, ttyVars, sizeVars, winVars
    <2> QED BY <1>4, <2>1, <2>2, <2>3, <2>4, <2>5, <2>6, <2>7, <2>8, <2>9
            DEF ReadEvents, cn_term_read_paste
  <1>5. \/ UNCHANGED inputVars \/ cn_term_enter_raw_mode \/ UserAndWindow \/ ReadEvents
    <2>1. CASE InputStep \/ TextStep \/ ScreenStep
      BY <2>1 DEF InputStep, TextStep, ScreenStep, InputNext
    <2>2. CASE ModeStep
      BY <2>2 DEF ModeStep, ModeNext, EnterFails, cn_term_leave_raw_mode,
                  cn_term_restore_raw_atexit, UserAndWindow
    <2> QED BY <2>1, <2>2 DEF Next, vars
  <1> QED BY <1>1, <1>2, <1>3, <1>4, <1>5

\* As long as no signal waits to be noticed and none fell into the window of a
\* poll, the size the program was last told is the terminal's, for any number
\* of changes of size and any interleaving of the handler with the calls that
\* read (term.c, cn_term_poll_resize_event).
THEOREM SizeStaysCurrent == Spec => []SizeIsCurrent
  <1>1. Init => SInv
    BY InitSize
  <1>2. SInv /\ [Next]_vars => SInv'
    BY NextSize
  <1>3. SInv => SizeIsCurrent
    BY DEF SInv
  <1> QED BY <1>1, <1>2, <1>3, PTL DEF Spec

-----------------------------------------------------------------------------
(* Types, and the paste buffer.                                               *)

Places == {"idle", "poll", "rows", "cols", "commit", "first", "escape", "csifirst",
           "csi", "ss3", "mouse", "utf8", "paste"}
Kinds == {"key", "mouse", "resize", "paste", "pasted", "error"}

TtyTypes == /\ pressed \in Keys /\ presses \in 0 .. MaxKeys /\ inq \in Seq(0 .. 255)
            /\ hup \in BOOLEAN /\ cut \in BOOLEAN
SizeTypes == /\ size \in Sizes /\ resizes \in 0 .. MaxResizes
             /\ known \in Nat \X Nat /\ seen \in Nat \X Nat
             /\ installed \in BOOLEAN /\ pending \in BOOLEAN
             /\ sizeInit \in BOOLEAN /\ raced \in BOOLEAN
CallTypes == /\ pc \in Places /\ timed \in BOOLEAN /\ again \in BOOLEAN
             /\ DOMAIN reg = DOMAIN NoRegs /\ got.kind \in Kinds

\* The buffer never has room for less than two bytes, which is why doubling it
\* makes room for one more.
BufTypes == /\ buf \in Seq(0 .. 255) /\ cap \in Nat
            /\ pc = "paste" => cap >= 2 /\ Len(buf) + 1 <= cap

TInv == TtyTypes /\ SizeTypes /\ CallTypes /\ BufTypes

LEMMA TypesAreTypeOK == TInv /\ ModeTypeOK => TypeOK /\ PasteHasRoom
  <1> SUFFICES ASSUME TInv, ModeTypeOK PROVE TypeOK /\ PasteHasRoom
    OBVIOUS
  <1>1. {hup, installed, pending, sizeInit, timed, again, cut, raced} \subseteq BOOLEAN
    BY DEF TInv, TtyTypes, SizeTypes, CallTypes
  <1>2. InputTypeOK
    BY <1>1 DEF TInv, TtyTypes, SizeTypes, CallTypes, BufTypes, InputTypeOK, Places, Kinds
  <1> QED BY <1>2 DEF TInv, TypeOK, BufTypes, PasteHasRoom

LEMMA InitTypes == Init => TInv /\ ModeTypeOK
  <1> SUFFICES ASSUME Init PROVE TInv /\ ModeTypeOK
    OBVIOUS
  <1>1. TtyTypes
    <2>1. pressed \in Keys /\ presses \in 0 .. MaxKeys /\ inq \in Seq(0 .. 255)
      BY KeysAssumption, BoundsAssumption DEF Init, InputInit
    <2>2. hup \in BOOLEAN /\ cut \in BOOLEAN
      BY Zenon DEF Init, InputInit
    <2> QED BY <2>1, <2>2 DEF TtyTypes
  <1>2. SizeTypes
    <2>1. /\ size \in Sizes /\ resizes \in 0 .. MaxResizes
          /\ known \in Nat \X Nat /\ seen \in Nat \X Nat
      BY BoundsAssumption DEF Init, InputInit
    <2>2. /\ installed \in BOOLEAN /\ pending \in BOOLEAN
          /\ sizeInit \in BOOLEAN /\ raced \in BOOLEAN
      BY Zenon DEF Init, InputInit
    <2> QED BY <2>1, <2>2 DEF SizeTypes
  <1>3. CallTypes
    BY DEF Init, InputInit, CallTypes, Places, Kinds, Error, make_event
  <1>4. BufTypes
    BY DEF Init, InputInit, BufTypes
  <1>5. ModeTypeOK
    <2>1. /\ tty \in {"user", "raw"} /\ rawSaved \in {"none", "user", "raw"}
          /\ {rawValid, rawAtexit, exited, nested, refused} \subseteq BOOLEAN
      BY Zenon DEF Init, ModeInit
    <2>2. modeCalls \in 0 .. MaxModeCalls
      BY ModeCallsAssumption DEF Init, ModeInit
    <2> QED BY <2>1, <2>2 DEF ModeTypeOK
  <1> QED BY <1>1, <1>2, <1>3, <1>4, <1>5 DEF TInv

\* A call that returns an event of a known kind, or goes on.
LEMMA ReturnTypes ==
  ASSUME CallTypes, BufTypes, UNCHANGED <<buf, cap>>, pc # "paste",
         NEW event, event.kind \in Kinds, Return(event)
  PROVE  CallTypes' /\ BufTypes'
  BY DEF Return, CallTypes, BufTypes, Places

LEMMA GoOnTypes ==
  ASSUME CallTypes, BufTypes, UNCHANGED <<buf, cap>>, pc # "paste",
         NEW where \in Places \ {"paste"}, NEW registers, DOMAIN registers = DOMAIN NoRegs,
         GoOn(where, registers)
  PROVE  CallTypes' /\ BufTypes'
  BY DEF GoOn, CallTypes, BufTypes, Places

LEMMA ByteTypes ==
  ASSUME TtyTypes, cn_term_read_byte \/ cn_term_read_byte_timeout
  PROVE  TtyTypes'
  <1>1. CASE cn_term_read_byte
    BY <1>1 DEF cn_term_read_byte, TtyTypes
  <1>2. CASE cn_term_read_byte_timeout
    BY <1>2 DEF cn_term_read_byte_timeout, TtyTypes, ttyVars
  <1> QED BY <1>1, <1>2

LEMMA DecodeTypes == ASSUME TInv, DecodeByte PROVE TInv'
  <1>1. TtyTypes' /\ SizeTypes'
    BY ByteTypes DEF DecodeByte, TInv, SizeTypes, sizeVars, winVars
  <1>2. CallTypes /\ BufTypes /\ UNCHANGED <<buf, cap>> /\ pc # "paste"
    BY DEF DecodeByte, TInv
  <1>3. CallTypes' /\ BufTypes'
    <2> DEFINE next == Decode(pc, reg, Head(inq))
    <2>1. Outcome(next, reg)
      BY DecodeOutcome DEF DecodeByte, Waiting
    <2>2. IF next.at = "idle" THEN Return(next.event) ELSE GoOn(next.at, next.reg)
      BY DEF DecodeByte
    <2> HIDE DEF next
    <2>3. next.event.kind \in Kinds
      BY <2>1 DEF Outcome, Kinds
    <2>4. next.at # "idle" => next.at \in Places \ {"paste"} /\ DOMAIN next.reg = DOMAIN NoRegs
      BY <1>2, <2>1 DEF Outcome, Waiting, Places, CallTypes
    <2> QED BY <1>2, <2>2, <2>3, <2>4, ReturnTypes, GoOnTypes
  <1> QED BY <1>1, <1>3 DEF TInv

LEMMA LateTypes == ASSUME TInv, LateByte PROVE TInv'
  <1>1. TtyTypes' /\ SizeTypes'
    BY ByteTypes DEF LateByte, TInv, SizeTypes, sizeVars, winVars
  <1>2. /\ CallTypes /\ BufTypes /\ UNCHANGED <<buf, cap>> /\ pc # "paste"
        /\ pc \in Waiting /\ Return(LateEvent(pc))
    BY DEF LateByte, TInv, Waiting
  <1>3. LateEvent(pc).kind \in Kinds
    BY <1>2, LateKinds DEF Kinds
  <1>4. CallTypes' /\ BufTypes'
    BY <1>2, <1>3, ReturnTypes
  <1> QED BY <1>1, <1>4 DEF TInv

\* The steps of a poll change neither the queue nor the paste buffer.
LEMMA PollTypes == ASSUME TInv, cn_term_poll_resize_event PROVE TInv'
  <1>1. pc \in {"poll", "rows", "cols", "commit"} /\ UNCHANGED <<ttyVars, sizeVars, buf, cap, cut>>
    BY DEF cn_term_poll_resize_event, cn_term_install_signal_handlers, cn_term_rows,
           cn_term_columns, PollCommit, sizeOnly, decVars
  <1>2. TtyTypes'
    BY <1>1 DEF TInv, TtyTypes, ttyVars
  <1>3. Error.kind \in Kinds /\ make_resize_event(seen[1], seen[2]).kind \in Kinds
    BY DEF make_resize_event, Error, make_event, Kinds
  <1>4. CASE cn_term_install_signal_handlers
    <2>1. installed' = TRUE /\ UNCHANGED <<pending, sizeInit, known, seen, raced>>
      BY <1>4 DEF cn_term_install_signal_handlers
    <2>2. SizeTypes'
      BY <1>1, <2>1 DEF TInv, SizeTypes, sizeVars
    <2>3. /\ pc' \in {"rows", "idle", "first"} /\ got' \in {got, Error}
          /\ UNCHANGED <<timed, again, reg>>
      BY <1>4 DEF cn_term_install_signal_handlers, NoResize, sizeOnly, decVars
    <2> QED BY <1>1, <1>2, <1>3, <2>2, <2>3 DEF TInv, CallTypes, BufTypes, Places
  <1>5. CASE cn_term_rows \/ cn_term_columns
    <2>1. /\ seen' \in {<<size[1], seen[2]>>, <<seen[1], size[2]>>}
          /\ raced' \in {FALSE, raced}
          /\ UNCHANGED <<installed, pending, sizeInit, known>>
      BY <1>5 DEF cn_term_rows, cn_term_columns
    <2>2. seen' \in Nat \X Nat
      BY <2>1, BoundsAssumption DEF TInv, SizeTypes
    <2>3. SizeTypes'
      BY <1>1, <2>1, <2>2 DEF TInv, SizeTypes, sizeVars
    <2>4. pc' \in {"cols", "commit"} /\ UNCHANGED <<timed, again, reg, got>>
      BY <1>5 DEF cn_term_rows, cn_term_columns, sizeOnly, decVars
    <2> QED BY <1>1, <1>2, <2>3, <2>4 DEF TInv, CallTypes, BufTypes, Places
  <1>6. CASE PollCommit
    <2>1. /\ pending' \in {FALSE, pending} /\ sizeInit' \in {TRUE, sizeInit}
          /\ known' \in {seen, known} /\ UNCHANGED <<installed, seen, raced>>
      BY <1>6 DEF PollCommit
    <2>2. SizeTypes'
      BY <1>1, <2>1 DEF TInv, SizeTypes, sizeVars
    <2>3. /\ pc' \in {"idle", "first"} /\ UNCHANGED <<timed, again>>
          /\ reg' \in {reg, NoRegs} /\ got' \in {got, Error, make_resize_event(seen[1], seen[2])}
      BY <1>6 DEF PollCommit, NoResize, Return
    <2> QED BY <1>1, <1>2, <1>3, <2>2, <2>3 DEF TInv, CallTypes, BufTypes, Places
  <1> QED BY <1>4, <1>5, <1>6 DEF cn_term_poll_resize_event

LEMMA FirstIsMember ==
  ASSUME NEW S, NEW s \in Seq(S), s # <<>> PROVE Head(s) \in S
  OBVIOUS

LEMMA PasteTypes == ASSUME TInv, cn_term_read_paste PROVE TInv'
  <1>1. SizeTypes' /\ UNCHANGED <<pressed, presses, hup>> /\ UNCHANGED <<timed, again>>
    <2>1. UNCHANGED <<sizeVars, winVars, pressed, presses, hup, timed, again>>
      BY DEF cn_term_read_paste, PasteBegin, PasteByte, PasteFails, Return, GoOn, ttyVars
    <2> QED BY <2>1 DEF TInv, SizeTypes, sizeVars, winVars
  <1>2. Error.kind \in Kinds /\ \A text_ : Pasted(text_).kind \in Kinds
    BY DEF Error, Pasted, make_event, Kinds
  <1>3. CASE PasteBegin
    <2>1. inq' = inq /\ cut' \in BOOLEAN /\ reg' = reg
      BY <1>3 DEF PasteBegin, Inside, ttyVars, TInv, TtyTypes
    <2>2. TtyTypes'
      BY <1>1, <2>1 DEF TInv, TtyTypes
    <2>3. \/ pc = "idle" /\ got' = Error /\ UNCHANGED <<pc, buf, cap>>
          \/ pc' = "paste" /\ buf' = <<>> /\ cap' = PasteCap /\ got' = got
      BY <1>3 DEF PasteBegin, Idle
    <2>4. CallTypes'
      BY <1>1, <1>2, <2>1, <2>3 DEF TInv, CallTypes, Places
    <2>5. BufTypes'
      <3>1. buf \in Seq(0 .. 255) /\ cap \in Nat
        BY DEF TInv, BufTypes
      <3>2. CASE pc = "idle" /\ UNCHANGED <<pc, buf, cap>>
        BY <3>1, <3>2 DEF BufTypes
      <3>3. CASE pc' = "paste" /\ buf' = <<>> /\ cap' = PasteCap
        <4>1. Len(buf') = 0 /\ cap' \in Nat /\ cap' >= 2
          BY <3>3, BoundsAssumption
        <4>2. buf' \in Seq(0 .. 255)
          BY <3>3
        <4> QED BY <4>1, <4>2 DEF BufTypes
      <3> QED BY <2>3, <3>2, <3>3
    <2> QED BY <1>1, <2>2, <2>4, <2>5 DEF TInv
  <1>4. CASE PasteByte
    <2>1. pc = "paste" /\ inq # <<>> /\ inq' = Tail(inq) /\ cut' = cut
      BY <1>4 DEF PasteByte
    <2>2. TtyTypes'
      BY <1>1, <2>1 DEF TInv, TtyTypes
    <2> DEFINE bytes == Append(buf, Head(inq))
               full == PasteNeed(Len(buf)) > cap
    <2>3. \/ Return(Error) /\ buf' = <<>> /\ cap' = 0
          \/ Return(Pasted(WithoutMark(bytes))) /\ buf' = <<>> /\ cap' = 0
          \/ GoOn("paste", NoRegs) /\ buf' = bytes /\ cap' = IF full THEN cap * 2 ELSE cap
      BY <1>4 DEF PasteByte
    <2>4. CASE ~GoOn("paste", NoRegs)
      <3>1. pc' = "idle" /\ reg' = NoRegs /\ got'.kind \in Kinds /\ buf' = <<>> /\ cap' = 0
        BY <1>2, <2>3, <2>4 DEF Return
      <3> QED BY <1>1, <2>2, <3>1 DEF TInv, CallTypes, BufTypes, Places
    <2>5. CASE GoOn("paste", NoRegs)
      <3>1. pc' = "paste" /\ reg' = NoRegs /\ got' = got
        BY <2>5 DEF GoOn
      <3>2. buf' = bytes /\ cap' = IF full THEN cap * 2 ELSE cap
        BY <2>3, <3>1 DEF Return
      <3>3. CallTypes'
        BY <1>1, <3>1 DEF TInv, CallTypes, Places
      <3>4. BufTypes'
        <4>1. Head(inq) \in 0 .. 255 /\ buf \in Seq(0 .. 255) /\ cap \in Nat
          BY <2>1, FirstIsMember DEF TInv, TtyTypes, BufTypes
        <4>2. bytes \in Seq(0 .. 255) /\ Len(bytes) = Len(buf) + 1
          BY <4>1
        <4>3. cap >= 2 /\ Len(buf) + 1 <= cap /\ Len(buf) \in Nat
          BY <2>1, <4>1 DEF TInv, BufTypes
        <4>4. cap' \in Nat /\ cap' >= 2 /\ Len(buf) + 2 <= cap'
          BY <3>2, <4>1, <4>3 DEF PasteNeed
        <4> HIDE DEF bytes
        <4> QED BY <3>2, <4>2, <4>3, <4>4 DEF BufTypes
      <3> QED BY <1>1, <2>2, <3>3, <3>4 DEF TInv
    <2> QED BY <2>4, <2>5
  <1>5. CASE PasteFails
    <2>1. /\ pc' = "idle" /\ reg' = NoRegs /\ got' = Error /\ buf' = <<>> /\ cap' = 0
          /\ UNCHANGED <<inq, cut>>
      BY <1>5 DEF PasteFails, Return, ttyVars
    <2>2. TtyTypes'
      BY <1>1, <2>1 DEF TInv, TtyTypes
    <2> QED BY <1>1, <1>2, <2>1, <2>2 DEF TInv, CallTypes, BufTypes, Places
  <1> QED BY <1>3, <1>4, <1>5 DEF cn_term_read_paste

LEMMA ReadTypes == ASSUME TInv, ReadEvents PROVE TInv'
  <1>1. CASE \E is_timed \in BOOLEAN : cn_term_read_event(is_timed)
    <2>1. PICK is_timed \in BOOLEAN : cn_term_read_event(is_timed)
      BY <1>1
    <2>2. /\ pc' = "poll" /\ timed' \in BOOLEAN /\ again' = FALSE /\ cut' \in BOOLEAN
          /\ UNCHANGED <<pressed, presses, inq, hup, sizeVars, winVars, reg, buf, cap, got>>
      BY <2>1 DEF cn_term_read_event, Inside, ttyVars, decVars
    <2>3. TtyTypes' /\ SizeTypes'
      BY <2>2 DEF TInv, TtyTypes, SizeTypes, sizeVars, winVars
    <2> QED BY <2>2, <2>3 DEF TInv, CallTypes, BufTypes, Places
  <1>2. CASE FirstByteTimeout
    <2>1. /\ pc' = "poll" /\ again' = TRUE
          /\ UNCHANGED <<sizeVars, winVars, timed, reg, buf, cap, got>>
      BY <1>2 DEF FirstByteTimeout, decVars
    <2>2. TtyTypes' /\ SizeTypes'
      BY <1>2, <2>1, ByteTypes DEF FirstByteTimeout, TInv, SizeTypes, sizeVars, winVars
    <2> QED BY <2>1, <2>2 DEF TInv, CallTypes, BufTypes, Places
  <1>3. CASE FirstByteFails
    <2>1. /\ pc # "paste" /\ Return(Error)
          /\ UNCHANGED <<pressed, presses, inq, hup, sizeVars, winVars, buf, cap, cut>>
      BY <1>3 DEF FirstByteFails, ttyVars
    <2>2. TtyTypes' /\ SizeTypes'
      BY <2>1 DEF TInv, TtyTypes, SizeTypes, sizeVars, winVars
    <2>3. Error.kind \in Kinds
      BY DEF Error, make_event, Kinds
    <2> QED BY <2>1, <2>2, <2>3, ReturnTypes DEF TInv
  <1> QED BY <1>1, <1>2, <1>3, PollTypes, DecodeTypes, LateTypes, PasteTypes DEF ReadEvents

LEMMA WindowTypes == ASSUME TInv, UserAndWindow PROVE TInv'
  <1>1. CallTypes' /\ BufTypes'
    BY DEF UserAndWindow, Press, Hangup, cn_term_on_sigwinch, TInv, CallTypes, BufTypes, decVars
  <1>2. CASE \E k \in Keys : Press(k)
    <2>1. PICK k \in Keys : Press(k)
      BY <1>2
    <2>2. /\ pressed' = k /\ presses < MaxKeys /\ presses' = presses + 1
          /\ inq' = KeyBytes[k] /\ UNCHANGED <<hup, cut, sizeVars, winVars>>
      BY <2>1 DEF Press
    <2>3. presses' \in 0 .. MaxKeys
      BY <2>2, BoundsAssumption DEF TInv, TtyTypes
    <2>4. TtyTypes'
      BY <2>2, <2>3, KeysAssumption DEF TInv, TtyTypes
    <2>5. SizeTypes'
      BY <2>2 DEF TInv, SizeTypes, sizeVars, winVars
    <2> QED BY <1>1, <2>4, <2>5 DEF TInv
  <1>3. CASE Hangup
    <2>1. hup' = TRUE /\ UNCHANGED <<pressed, presses, inq, cut, sizeVars, winVars>>
      BY <1>3 DEF Hangup
    <2> QED BY <1>1, <2>1 DEF TInv, TtyTypes, SizeTypes, sizeVars, winVars
  <1>4. CASE cn_term_on_sigwinch
    <2>1. /\ size' \in Sizes /\ resizes < MaxResizes /\ resizes' = resizes + 1
          /\ pending' \in BOOLEAN /\ raced' \in BOOLEAN
          /\ UNCHANGED <<pressed, presses, inq, hup, cut, installed, sizeInit, known, seen>>
      BY <1>4 DEF cn_term_on_sigwinch, ttyVars
    <2>2. resizes' \in 0 .. MaxResizes
      BY <2>1, BoundsAssumption DEF TInv, SizeTypes
    <2> QED BY <1>1, <2>1, <2>2 DEF TInv, TtyTypes, SizeTypes
  <1> QED BY <1>2, <1>3, <1>4 DEF UserAndWindow

\* What is restored was saved before: this is MInv's, not the types'.
LEMMA ModeTypes ==
  ASSUME TInv, ModeTypeOK, MInv,
         \/ EnterFails \/ cn_term_enter_raw_mode
         \/ cn_term_leave_raw_mode \/ cn_term_restore_raw_atexit
  PROVE  TInv' /\ ModeTypeOK'
  <1>1. /\ UNCHANGED <<ttyVars, sizeVars, pending, sizeInit, known, seen, raced>>
        /\ UNCHANGED <<pc, timed, again, decVars, got, cut>> /\ installed' \in {TRUE, installed}
    BY DEF EnterFails, cn_term_enter_raw_mode, cn_term_leave_raw_mode,
           cn_term_restore_raw_atexit, inputVars, winVars
  <1>2. TInv'
    BY <1>1 DEF TInv, TtyTypes, SizeTypes, CallTypes, BufTypes, ttyVars, sizeVars, decVars
  <1>3. modeCalls' \in 0 .. MaxModeCalls
    <2>1. modeCalls' = modeCalls \/ (modeCalls < MaxModeCalls /\ modeCalls' = modeCalls + 1)
      BY DEF EnterFails, cn_term_enter_raw_mode, cn_term_leave_raw_mode,
             cn_term_restore_raw_atexit, Call
    <2> QED BY <2>1, ModeCallsAssumption DEF ModeTypeOK
  <1> DEFINE settings == /\ tty \in {"user", "raw"} /\ rawSaved \in {"none", "user", "raw"}
                         /\ rawValid \in BOOLEAN /\ rawAtexit \in BOOLEAN /\ exited \in BOOLEAN
                         /\ nested \in BOOLEAN /\ refused \in BOOLEAN
  <1>4. settings
    BY DEF ModeTypeOK
  <1>5. settings'
    <2>1. CASE EnterFails
      BY <1>4, <2>1 DEF EnterFails
    <2>2. CASE cn_term_enter_raw_mode
      <3>1. exited' = exited /\ rawSaved' = tty /\ nested' = (nested \/ tty = "raw")
        BY <2>2 DEF cn_term_enter_raw_mode
      <3>2. PICK set \in BOOLEAN, registers \in BOOLEAN :
              /\ set => tty' = "raw" /\ rawValid' = TRUE
                        /\ rawAtexit' = (rawAtexit \/ registers)
                        /\ refused' = (refused \/ ~rawAtexit')
              /\ ~set => UNCHANGED <<tty, rawValid, rawAtexit, refused>>
        BY <2>2 DEF cn_term_enter_raw_mode
      <3> QED BY <1>4, <3>1, <3>2
    <2>3. CASE cn_term_restore_raw_impl /\ UNCHANGED <<rawSaved, rawAtexit, nested>>
               /\ exited' \in {TRUE, exited}
      <3>1. CASE ~rawValid
        BY <1>4, <2>3, <3>1 DEF cn_term_restore_raw_impl
      <3>2. CASE rawValid
        <4>1. PICK set \in BOOLEAN : /\ tty' = IF set THEN rawSaved ELSE tty
                                     /\ rawValid' = ~set
                                     /\ refused' = (refused \/ ~set)
          BY <2>3, <3>2 DEF cn_term_restore_raw_impl
        <4> QED BY <1>4, <2>3, <3>2, <4>1 DEF MInv
      <3> QED BY <3>1, <3>2
    <2>4. CASE cn_term_leave_raw_mode
      BY <2>3, <2>4 DEF cn_term_leave_raw_mode
    <2>5. CASE cn_term_restore_raw_atexit
      BY <1>4, <2>3, <2>5 DEF cn_term_restore_raw_atexit
    <2> QED BY <2>1, <2>2, <2>4, <2>5
  <1>6. {rawValid', rawAtexit', exited', nested', refused'} \subseteq BOOLEAN
    BY <1>5
  <1> QED BY <1>2, <1>3, <1>5, <1>6 DEF ModeTypeOK

LEMMA NextTypes == ASSUME TInv, ModeTypeOK, MInv, [Next]_vars PROVE TInv' /\ ModeTypeOK'
  <1>1. CASE (ReadEvents \/ UserAndWindow) /\ UNCHANGED modeVars
    BY <1>1, ReadTypes, WindowTypes DEF ModeTypeOK, modeVars
  <1>2. CASE UNCHANGED <<inputVars, modeVars>>
    BY <1>2 DEF TInv, TtyTypes, SizeTypes, CallTypes, BufTypes, ModeTypeOK, inputVars, modeVars,
                ttyVars, sizeVars, winVars, decVars
  <1>3. CASE ModeStep
    BY <1>1, <1>3, ModeTypes DEF ModeStep, ModeNext, UserAndWindow
  <1>4. CASE InputStep
    BY <1>1, <1>4 DEF InputStep, InputNext
  <1>5. CASE TextStep \/ ScreenStep \/ UNCHANGED vars
    BY <1>2, <1>5 DEF TextStep, ScreenStep, vars
  <1> QED BY <1>3, <1>4, <1>5 DEF Next

LEMMA TypesInvariance == Spec => [](TInv /\ ModeTypeOK)
  <1>1. TInv /\ ModeTypeOK /\ MInv /\ [Next]_vars => (TInv /\ ModeTypeOK)'
    BY NextTypes
  <1> QED BY <1>1, InitTypes, ModeInvariance, PTL DEF Spec

\* The terminal's queues, the runtime's globals, the decoder's registers and
\* what the calls return keep their types whatever bytes arrive.
THEOREM TerminalTypes == Spec => []TypeOK
  BY TypesAreTypeOK, TypesInvariance, PTL

\* read_paste never writes behind its buffer, for any first capacity of two
\* bytes or more and any text: the buffer is doubled when the next byte and
\* the terminating zero do not fit (term.c, cn_term_read_paste).
THEOREM PasteBufferSuffices == Spec => []PasteHasRoom
  BY TypesAreTypeOK, TypesInvariance, PTL

-----------------------------------------------------------------------------
(* From the bytes of a key to its event.                                      *)

\* What the decoder has come to after the last byte: the event, or a sequence
\* that becomes the event when no further byte comes.
Ends(s, e) == \/ s.at = "idle" /\ s.event = e
              \/ s.at # "idle" /\ LateEvent(s.at) = e

\* From the state s behind the i-th byte the decoder reads the others to the last
\* one, without an answer before it, and has come to the event.
From(bytes, n, i, s, e) ==
  \E run :
    /\ run[i] = s
    /\ \A k \in i + 1 .. n :
         run[k - 1].at # "idle" /\ run[k] = Decode(run[k - 1].at, run[k - 1].reg, bytes[k])
    /\ Ends(run[n], e)

Start == More("first", NoRegs)

LEMMA FromEnd ==
  ASSUME NEW bytes, NEW n \in Nat, NEW i, n = i, NEW s, NEW e, Ends(s, e)
  PROVE  From(bytes, n, i, s, e)
  <1> DEFINE run == [k \in {i} |-> s]
  <1>1. run[i] = s /\ run[n] = s /\ i + 1 .. n = {}
    OBVIOUS
  <1> HIDE DEF run
  <1> QED BY <1>1 DEF From

LEMMA FromLast ==
  ASSUME NEW bytes, NEW n \in Nat, NEW i, n = i, NEW s, NEW e, From(bytes, n, i, s, e)
  PROVE  Ends(s, e)
  BY DEF From

LEMMA FromNext ==
  ASSUME NEW bytes, NEW n \in Nat, NEW i \in Nat, i < n,
         NEW s, NEW e, From(bytes, n, i, s, e)
  PROVE  s.at # "idle" /\ From(bytes, n, i + 1, Decode(s.at, s.reg, bytes[i + 1]), e)
  <1>1. PICK run : /\ run[i] = s
                   /\ \A k \in i + 1 .. n : /\ run[k - 1].at # "idle"
                                            /\ run[k] = Decode(run[k - 1].at, run[k - 1].reg, bytes[k])
                   /\ Ends(run[n], e)
    BY DEF From
  <1>2. i + 1 \in i + 1 .. n /\ (i + 1) - 1 = i
    OBVIOUS
  <1>3. s.at # "idle" /\ run[i + 1] = Decode(s.at, s.reg, bytes[i + 1])
    BY <1>1, <1>2
  <1>4. \A k \in (i + 1) + 1 .. n : /\ run[k - 1].at # "idle"
                                    /\ run[k] = Decode(run[k - 1].at, run[k - 1].reg, bytes[k])
    <2>1. \A k \in (i + 1) + 1 .. n : k \in i + 1 .. n
      OBVIOUS
    <2> QED BY <1>1, <2>1
  <1> QED BY <1>1, <1>3, <1>4 DEF From

LEMMA FromStep ==
  ASSUME NEW bytes, NEW n \in Nat, NEW i \in Nat, i < n,
         NEW s, NEW e, s.at # "idle",
         NEW t, t = Decode(s.at, s.reg, bytes[i + 1]), From(bytes, n, i + 1, t, e)
  PROVE  From(bytes, n, i, s, e)
  <1>1. PICK run : /\ run[i + 1] = t
                   /\ \A k \in (i + 1) + 1 .. n :
                        /\ run[k - 1].at # "idle"
                        /\ run[k] = Decode(run[k - 1].at, run[k - 1].reg, bytes[k])
                   /\ Ends(run[n], e)
    BY DEF From
  <1> DEFINE longer == [k \in i .. n |-> IF k = i THEN s ELSE run[k]]
  <1>2. longer[i] = s /\ \A k \in i + 1 .. n : longer[k] = run[k]
    OBVIOUS
  <1>3. longer[n] = run[n]
    BY <1>2
  <1> HIDE DEF longer
  <1>4. ASSUME NEW k \in i + 1 .. n
        PROVE  /\ longer[k - 1].at # "idle"
               /\ longer[k] = Decode(longer[k - 1].at, longer[k - 1].reg, bytes[k])
    <2>1. CASE k = i + 1
      <3>1. k - 1 = i
        BY <2>1
      <3>2. longer[k - 1] = s /\ longer[k] = t
        BY <1>1, <1>2, <2>1, <3>1
      <3> QED BY <2>1, <3>2
    <2>2. CASE k # i + 1
      <3>1. k \in (i + 1) + 1 .. n /\ k - 1 \in i + 1 .. n
        BY <2>2
      <3>2. longer[k - 1] = run[k - 1] /\ longer[k] = run[k]
        BY <1>2, <3>1
      <3> QED BY <1>1, <3>1, <3>2
    <2> QED BY <2>1, <2>2
  <1> QED BY <1>1, <1>2, <1>3, <1>4 DEF From

-----------------------------------------------------------------------------
(* One byte of each loop of the decoder.                                      *)

LEMMA AnswerEnds == ASSUME NEW e PROVE Ends(Answer(e), e)
  BY DEF Ends, Answer

LEMMA EscapeBytes ==
  /\ FirstByte(27) = More("escape", NoRegs)
  /\ EscapeDispatch(91) = More("csifirst", NoRegs)
  /\ EscapeDispatch(79) = More("ss3", NoRegs)
  BY DEF FirstByte, EscapeDispatch

\* A key of one byte, alone and after ESC.
LEMMA TypedByte ==
  ASSUME NEW b, NEW mods \in {0, 2}, NEW e, TypedKey(b, mods, e)
  PROVE  cn_term_decode_simple_byte(b, mods) = Answer(e) /\ b # 27
  <1>1. b \in Int /\ b # 27 /\ b < 128
    BY DEF TypedKey
  <1>2. Continuations(b) = 0
    BY <1>1 DEF Continuations
  <1>3. SimpleKey(b, mods) = e
    <2>1. ~Bit(mods, 4)
      BY DEF Bit
    <2>2. CASE b \in 32 .. 126 /\ e = make_key_event(b, mods)
      BY <2>2 DEF SimpleKey
    <2>3. CASE b \in {9, 13, 127}
      BY <2>3 DEF SimpleKey, TypedKey
    <2>4. CASE b \in (1 .. 26) \ {8, 9, 10, 13} /\ e = make_key_event(b + 96, mods + 4)
      BY <2>1, <2>4 DEF SimpleKey
    <2> QED BY <2>2, <2>3, <2>4 DEF TypedKey
  <1> QED BY <1>1, <1>2, <1>3 DEF cn_term_decode_simple_byte

-----------------------------------------------------------------------------
(* The keys of a terminal, one kind after the other.                          *)

\* The first byte is ESC and the decoder goes on from there.
LEMMA FromEscape ==
  ASSUME NEW bytes, NEW n \in Nat, 1 <= n, bytes[1] = 27,
         NEW e, From(bytes, n, 1, More("escape", NoRegs), e)
  PROVE  From(bytes, n, 0, Start, e)
  <1>1. Start.at = "first" /\ Start.reg = NoRegs
    BY MoreFields DEF Start
  <1>2. Decode("first", NoRegs, bytes[0 + 1]) = More("escape", NoRegs)
    BY DecodeLoops, EscapeBytes
  <1> QED BY <1>1, <1>2, FromStep

LEMMA FromBracket ==
  ASSUME NEW bytes, NEW n \in Nat, 2 <= n, bytes[1] = 27, bytes[2] = 91,
         NEW e, From(bytes, n, 2, More("csifirst", NoRegs), e)
  PROVE  From(bytes, n, 0, Start, e)
  <1> DEFINE s == More("escape", NoRegs)
  <1>1. s.at = "escape" /\ s.reg = NoRegs
    BY MoreFields
  <1>2. Decode("escape", NoRegs, bytes[1 + 1]) = More("csifirst", NoRegs)
    BY DecodeLoops, EscapeBytes
  <1> HIDE DEF s
  <1>3. From(bytes, n, 1, s, e)
    BY <1>1, <1>2, FromStep
  <1> QED BY <1>3, FromEscape DEF s

\* The last byte gives the answer.
LEMMA FromAnswer ==
  ASSUME NEW bytes, NEW n \in Nat, NEW i \in Nat, i + 1 = n,
         NEW where, where # "idle", NEW r, NEW e, Decode(where, r, bytes[n]) = Answer(e)
  PROVE  From(bytes, n, i, More(where, r), e)
  <1> DEFINE s == More(where, r)
  <1>1. s.at = where /\ s.reg = r
    BY MoreFields
  <1>2. From(bytes, n, i + 1, Answer(e), e)
    BY FromEnd, AnswerEnds
  <1> HIDE DEF s
  <1>3. From(bytes, n, i, s, e)
    BY <1>1, <1>2, FromStep
  <1> QED BY <1>3 DEF s

\* A byte in the middle.
LEMMA FromMore ==
  ASSUME NEW bytes, NEW n \in Nat, NEW i \in Nat, i < n,
         NEW where, where # "idle", NEW r, NEW e, NEW t,
         Decode(where, r, bytes[i + 1]) = t, From(bytes, n, i + 1, t, e)
  PROVE  From(bytes, n, i, More(where, r), e)
  <1> DEFINE s == More(where, r)
  <1>1. s.at = where /\ s.reg = r
    BY MoreFields
  <1> HIDE DEF s
  <1>2. From(bytes, n, i, s, e)
    BY <1>1, FromStep
  <1> QED BY <1>2 DEF s

LEMMA PlainKeys ==
  ASSUME NEW bytes, NEW n \in Nat, Len(bytes) = n, NEW e, PlainKey(bytes, e)
  PROVE  From(bytes, n, 0, Start, e)
  <1>1. CASE bytes = <<27>> /\ e = make_key_event(256, 0)
    <2>1. n = 1 /\ bytes[1] = 27
      BY <1>1
    <2>2. Ends(More("escape", NoRegs), e)
      BY <1>1, MoreFields DEF Ends, LateEvent
    <2>3. From(bytes, n, 1, More("escape", NoRegs), e)
      BY <2>1, <2>2, FromEnd
    <2> QED BY <2>1, <2>3, FromEscape
  <1>2. CASE n = 1 /\ TypedKey(bytes[1], 0, e)
    <2>1. cn_term_decode_simple_byte(bytes[1], 0) = Answer(e) /\ bytes[1] # 27
      BY <1>2, TypedByte
    <2>2. Decode("first", NoRegs, bytes[1]) = Answer(e)
      BY <2>1, DecodeLoops DEF FirstByte
    <2> QED BY <1>2, <2>2, FromAnswer DEF Start
  <1>3. CASE n = 2 /\ bytes[1] = 27 /\ bytes[2] \notin {79, 91} /\ TypedKey(bytes[2], 2, e)
    <2>1. cn_term_decode_simple_byte(bytes[2], 2) = Answer(e)
      BY <1>3, TypedByte
    <2>2. Decode("escape", NoRegs, bytes[2]) = Answer(e)
      BY <1>3, <2>1, DecodeLoops DEF EscapeDispatch
    <2>3. From(bytes, n, 1, More("escape", NoRegs), e)
      BY <1>3, <2>2, FromAnswer
    <2> QED BY <1>3, <2>3, FromEscape
  <1> QED BY <1>1, <1>2, <1>3 DEF PlainKey

LEMMA FunctionKeys ==
  ASSUME NEW bytes, NEW n \in Nat, Len(bytes) = n, NEW e, FunctionKey(bytes, e)
  PROVE  From(bytes, n, 0, Start, e)
  <1>1. n = 3 /\ bytes[1] = 27 /\ bytes[2] = 79
    BY DEF FunctionKey
  <1>2. cn_term_parse_ss3(bytes[3]) = Answer(e)
    BY DEF FunctionKey, cn_term_parse_ss3, ArrowKey, Ss3Key
  <1>3. Decode("ss3", NoRegs, bytes[3]) = Answer(e)
    BY <1>2, DecodeLoops
  <1>4. From(bytes, n, 2, More("ss3", NoRegs), e)
    BY <1>1, <1>3, FromAnswer
  <1>5. Decode("escape", NoRegs, bytes[1 + 1]) = More("ss3", NoRegs)
    BY <1>1, DecodeLoops, EscapeBytes
  <1>6. From(bytes, n, 1, More("escape", NoRegs), e)
    BY <1>1, <1>4, <1>5, FromMore
  <1> QED BY <1>1, <1>6, FromEscape

-----------------------------------------------------------------------------
(* Numbers.                                                                   *)

Regs == [mods : Int, need : Int, code : Int, p1 : Int, current : Int,
         parsing2 : BOOLEAN, digit : BOOLEAN, stage : Int, btn : Int, col : Int]

WithNumber(r, v) == [r EXCEPT !.current = v, !.digit = TRUE]

LEMMA NoRegsFacts ==
  /\ NoRegs \in Regs /\ NoRegs.mods = 0 /\ NoRegs.need = 0 /\ NoRegs.code = 0 /\ NoRegs.p1 = 0
  /\ NoRegs.current = 0 /\ NoRegs.parsing2 = FALSE /\ NoRegs.digit = FALSE
  /\ NoRegs.stage = 0 /\ NoRegs.btn = 0 /\ NoRegs.col = 0
  BY DEF NoRegs, Regs

LEMMA RegsEqual ==
  ASSUME NEW r \in Regs, NEW q \in Regs,
         r.mods = q.mods, r.need = q.need, r.code = q.code, r.p1 = q.p1, r.current = q.current,
         r.parsing2 = q.parsing2, r.digit = q.digit, r.stage = q.stage, r.btn = q.btn, r.col = q.col
  PROVE  r = q
  BY DEF Regs

LEMMA WithNumberFacts ==
  ASSUME NEW r \in Regs, NEW v \in Int, NEW w \in Int
  PROVE  /\ WithNumber(r, v) \in Regs /\ WithNumber(r, v).current = v
         /\ WithNumber(r, v).digit = TRUE
         /\ WithNumber(WithNumber(r, v), w) = WithNumber(r, w)
  BY DEF WithNumber, Regs

\* The loops that read numbers, and where they go with a digit.
NumberLoop(at0, at) == <<at0, at>> \in {<<"csifirst", "csi">>, <<"csi", "csi">>, <<"mouse", "mouse">>}

LEMMA DigitByte ==
  ASSUME NEW at0, NEW at, NumberLoop(at0, at), NEW r \in Regs, NEW b, Digit(b),
         NEW w, w = r.current * 10 + (b - 48)
  PROVE  /\ Decode(at0, r, b) = More(at, WithNumber(r, w))
         /\ at0 # "idle" /\ NumberLoop(at, at)
  <1>1. cn_term_parse_csi(r, b) = More("csi", WithNumber(r, w))
    BY DEF cn_term_parse_csi, Digit, WithNumber
  <1>2. cn_term_parse_mouse_sgr(r, b) = More("mouse", WithNumber(r, w))
    BY DEF cn_term_parse_mouse_sgr, Digit, WithNumber
  <1> QED BY <1>1, <1>2, DecodeLoops DEF NumberLoop

\* The first digit of a number, and one behind others.
LEMMA FirstDigit ==
  ASSUME NEW bytes, NEW n \in Nat, NEW i \in Nat, i < n,
         NEW at0, NEW at, NumberLoop(at0, at), NEW r \in Regs, r.current = 0, NEW e,
         NEW d \in 0 .. 9, bytes[i + 1] = 48 + d,
         From(bytes, n, i + 1, More(at, WithNumber(r, d)), e)
  PROVE  From(bytes, n, i, More(at0, r), e)
  <1>1. Digit(bytes[i + 1]) /\ d = r.current * 10 + (bytes[i + 1] - 48)
    BY DEF Digit
  <1>2. Decode(at0, r, bytes[i + 1]) = More(at, WithNumber(r, d)) /\ at0 # "idle"
    BY <1>1, DigitByte
  <1> QED BY <1>2, FromMore

LEMMA DigitFrom ==
  ASSUME NEW bytes, NEW n \in Nat, NEW i \in Nat, i < n,
         NEW at, NumberLoop(at, at), NEW r \in Regs, NEW v \in Nat, NEW e,
         NEW d \in 0 .. 9, bytes[i + 1] = 48 + d,
         From(bytes, n, i + 1, More(at, WithNumber(r, v * 10 + d)), e)
  PROVE  From(bytes, n, i, More(at, WithNumber(r, v)), e)
  <1> DEFINE q == WithNumber(r, v)
             w == v * 10 + d
  <1>1. v \in Int /\ w \in Int
    OBVIOUS
  <1> HIDE DEF w
  <1>2. q \in Regs /\ q.current = v /\ WithNumber(q, w) = WithNumber(r, w)
    BY <1>1, WithNumberFacts
  <1>3. Digit(bytes[i + 1])
    BY DEF Digit
  <1>4. w = q.current * 10 + (bytes[i + 1] - 48)
    BY <1>2 DEF w
  <1>5. Decode(at, q, bytes[i + 1]) = More(at, WithNumber(r, w)) /\ at # "idle"
    <2> HIDE DEF q
    <2> QED BY <1>2, <1>3, <1>4, DigitByte
  <1>6. From(bytes, n, i + 1, More(at, WithNumber(r, w)), e)
    BY DEF w
  <1> QED BY <1>5, <1>6, FromMore

\* What the digits of a number add up to.
NumberIs(bytes, i, j, a, b, c, d) ==
  /\ j \in i + 1 .. i + 4 /\ bytes[i + 1] = 48 + a
  /\ j >= i + 2 => bytes[i + 2] = 48 + b
  /\ j >= i + 3 => bytes[i + 3] = 48 + c
  /\ j >= i + 4 => bytes[i + 4] = 48 + d
  /\ j = i + 1 => Number(bytes, i + 1, j) = a
  /\ j = i + 2 => Number(bytes, i + 1, j) = a * 10 + b
  /\ j = i + 3 => Number(bytes, i + 1, j) = (a * 10 + b) * 10 + c
  /\ j = i + 4 => Number(bytes, i + 1, j) = ((a * 10 + b) * 10 + c) * 10 + d

LEMMA NumberValue ==
  ASSUME NEW bytes, NEW i \in Nat, NEW j \in Nat, Digits(bytes, i + 1, j)
  PROVE  \E a, b, c, d \in 0 .. 9 : NumberIs(bytes, i, j, a, b, c, d)
  <1> DEFINE D(k) == IF k <= j THEN bytes[k] - 48 ELSE 0
  <1>1. j \in i + 1 .. i + 4 /\ \A k \in i + 1 .. j : bytes[k] \in 48 .. 57
    BY DEF Digits
  <1>2. (i + 1) + 1 = i + 2 /\ (i + 1) + 2 = i + 3 /\ (i + 1) + 3 = i + 4
    OBVIOUS
  <1>3. D(i + 1) \in 0 .. 9 /\ D(i + 2) \in 0 .. 9 /\ D(i + 3) \in 0 .. 9 /\ D(i + 4) \in 0 .. 9
    BY <1>1
  <1>4. /\ bytes[i + 1] = 48 + D(i + 1)
        /\ j >= i + 2 => bytes[i + 2] = 48 + D(i + 2)
        /\ j >= i + 3 => bytes[i + 3] = 48 + D(i + 3)
        /\ j >= i + 4 => bytes[i + 4] = 48 + D(i + 4)
    BY <1>1
  <1> DEFINE a == D(i + 1)
             b == D(i + 2)
             c == D(i + 3)
             d == D(i + 4)
  <1>5. a \in 0 .. 9 /\ b \in 0 .. 9 /\ c \in 0 .. 9 /\ d \in 0 .. 9
    BY <1>3
  <1>6. /\ bytes[i + 1] = 48 + a
        /\ j >= i + 2 => bytes[i + 2] = 48 + b
        /\ j >= i + 3 => bytes[i + 3] = 48 + c
        /\ j >= i + 4 => bytes[i + 4] = 48 + d
    BY <1>4
  <1> HIDE DEF a, b, c, d
  <1>7. NumberIs(bytes, i, j, a, b, c, d)
    <2>1. CASE j = i + 1
      <3>1. Number(bytes, i + 1, j) = bytes[i + 1] - 48
        BY <2>1 DEF Number
      <3> QED BY <1>1, <1>5, <1>6, <2>1, <3>1 DEF NumberIs
    <2>2. CASE j = i + 2
      <3>1. Number(bytes, i + 1, j) = (bytes[i + 1] - 48) * 10 + (bytes[i + 2] - 48)
        BY <1>2, <2>2 DEF Number
      <3> QED BY <1>1, <1>5, <1>6, <2>2, <3>1 DEF NumberIs
    <2>3. CASE j = i + 3
      <3>1. Number(bytes, i + 1, j)
              = (bytes[i + 1] - 48) * 100 + (bytes[i + 2] - 48) * 10 + (bytes[i + 3] - 48)
        BY <1>2, <2>3 DEF Number
      <3>2. Number(bytes, i + 1, j) = (a * 10 + b) * 10 + c
        BY <1>5, <1>6, <2>3, <3>1
      <3> QED BY <1>1, <1>5, <1>6, <2>3, <3>2 DEF NumberIs
    <2>4. CASE j = i + 4
      <3>1. Number(bytes, i + 1, j)
              = (bytes[i + 1] - 48) * 1000 + (bytes[i + 2] - 48) * 100 + (bytes[i + 3] - 48) * 10
                  + (bytes[i + 4] - 48)
        BY <1>2, <2>4 DEF Number
      <3>2. Number(bytes, i + 1, j) = ((a * 10 + b) * 10 + c) * 10 + d
        BY <1>5, <1>6, <2>4, <3>1
      <3> QED BY <1>1, <1>5, <1>6, <2>4, <3>2 DEF NumberIs
    <2> QED BY <1>1, <2>1, <2>2, <2>3, <2>4
  <1> QED BY <1>5, <1>7, Zenon

\* The decoder reads a number as the number it is.
LEMMA NumberFrom ==
  ASSUME NEW bytes, NEW n \in Nat, NEW i \in Nat, NEW i1, i1 = i + 1, NEW j \in Nat, j <= n,
         Digits(bytes, i1, j), NEW at0, NEW at, NumberLoop(at0, at),
         NEW r \in Regs, r.current = 0, NEW e,
         From(bytes, n, j, More(at, WithNumber(r, Number(bytes, i1, j))), e)
  PROVE  From(bytes, n, i, More(at0, r), e)
  <1>1. PICK a, b, c, d \in 0 .. 9 : NumberIs(bytes, i, j, a, b, c, d)
    BY NumberValue
  <1> DEFINE v == a * 10 + b
             w == v * 10 + c
             x == w * 10 + d
  <1>2. a \in Nat /\ v \in Nat /\ w \in Nat
    OBVIOUS
  <1>3. NumberLoop(at, at)
    BY DEF NumberLoop
  <1>4. j \in i + 1 .. i + 4 /\ bytes[i + 1] = 48 + a
    BY <1>1 DEF NumberIs
  <1>5. ASSUME From(bytes, n, i + 1, More(at, WithNumber(r, a)), e)
        PROVE  From(bytes, n, i, More(at0, r), e)
    BY <1>4, <1>5, FirstDigit
  <1>6. ASSUME j >= i + 2, From(bytes, n, i + 2, More(at, WithNumber(r, v)), e)
        PROVE  From(bytes, n, i + 1, More(at, WithNumber(r, a)), e)
    <2>1. i + 1 \in Nat /\ i + 1 < n /\ (i + 1) + 1 = i + 2 /\ bytes[i + 2] = 48 + b
      BY <1>1, <1>6 DEF NumberIs
    <2> QED BY <1>2, <1>3, <1>6, <2>1, DigitFrom
  <1>7. ASSUME j >= i + 3, From(bytes, n, i + 3, More(at, WithNumber(r, w)), e)
        PROVE  From(bytes, n, i + 2, More(at, WithNumber(r, v)), e)
    <2>1. i + 2 \in Nat /\ i + 2 < n /\ (i + 2) + 1 = i + 3 /\ bytes[i + 3] = 48 + c
      BY <1>1, <1>7 DEF NumberIs
    <2> HIDE DEF v
    <2> QED BY <1>2, <1>3, <1>7, <2>1, DigitFrom
  <1>8. ASSUME j >= i + 4, From(bytes, n, i + 4, More(at, WithNumber(r, x)), e)
        PROVE  From(bytes, n, i + 3, More(at, WithNumber(r, w)), e)
    <2>1. i + 3 \in Nat /\ i + 3 < n /\ (i + 3) + 1 = i + 4 /\ bytes[i + 4] = 48 + d
      BY <1>1, <1>8 DEF NumberIs
    <2> HIDE DEF w
    <2> QED BY <1>2, <1>3, <1>8, <2>1, DigitFrom
  <1>9. \/ j = i + 1 /\ Number(bytes, i + 1, j) = a
        \/ j = i + 2 /\ Number(bytes, i + 1, j) = v
        \/ j = i + 3 /\ Number(bytes, i + 1, j) = w
        \/ j = i + 4 /\ Number(bytes, i + 1, j) = x
    BY <1>1, <1>4 DEF NumberIs
  <1>10. /\ j = i + 2 => j >= i + 2
         /\ j = i + 3 => j >= i + 3 /\ j >= i + 2
         /\ j = i + 4 => j >= i + 4 /\ j >= i + 3 /\ j >= i + 2
    OBVIOUS
  <1> HIDE DEF v, w, x
  <1> QED BY <1>5, <1>6, <1>7, <1>8, <1>9, <1>10

\* The registers behind the semicolon of a CSI sequence.
Second(v) == [NoRegs EXCEPT !.p1 = v, !.parsing2 = TRUE]

LEMMA SecondFacts ==
  ASSUME NEW v \in Int
  PROVE  /\ Second(v) \in Regs /\ Second(v).mods = 0 /\ Second(v).need = 0 /\ Second(v).code = 0
         /\ Second(v).p1 = v /\ Second(v).current = 0 /\ Second(v).parsing2 = TRUE
         /\ Second(v).digit = FALSE /\ Second(v).stage = 0 /\ Second(v).btn = 0
         /\ Second(v).col = 0
  BY NoRegsFacts DEF Second, Regs

LEMMA SemicolonByte ==
  ASSUME NEW v \in Int
  PROVE  Decode("csi", WithNumber(NoRegs, v), 59) = More("csi", Second(v))
  <1> DEFINE r == WithNumber(NoRegs, v)
             q == [r EXCEPT !.p1 = v, !.current = 0, !.digit = FALSE, !.parsing2 = TRUE]
  <1>1. /\ r \in Regs /\ r.mods = 0 /\ r.need = 0 /\ r.code = 0 /\ r.p1 = 0
        /\ r.current = v /\ r.parsing2 = FALSE /\ r.digit = TRUE
        /\ r.stage = 0 /\ r.btn = 0 /\ r.col = 0
    BY NoRegsFacts DEF WithNumber, Regs
  <1> HIDE DEF r
  <1>2. /\ q \in Regs /\ q.mods = 0 /\ q.need = 0 /\ q.code = 0 /\ q.p1 = v
        /\ q.current = 0 /\ q.parsing2 = TRUE /\ q.digit = FALSE
        /\ q.stage = 0 /\ q.btn = 0 /\ q.col = 0
    BY <1>1 DEF Regs
  <1>3. cn_term_parse_csi(r, 59) = More("csi", q)
    <2>1. [r EXCEPT !.p1 = IF r.digit THEN r.current ELSE 1,
                    !.current = 0, !.digit = FALSE, !.parsing2 = TRUE] = q
      BY <1>1
    <2>2. ~Digit(59)
      BY DEF Digit
    <2> HIDE DEF q
    <2> QED BY <1>1, <2>1, <2>2 DEF cn_term_parse_csi
  <1> HIDE DEF q
  <1>4. q = Second(v)
    <2> DEFINE s == Second(v)
    <2>1. /\ s \in Regs /\ s.mods = 0 /\ s.need = 0 /\ s.code = 0 /\ s.p1 = v
          /\ s.current = 0 /\ s.parsing2 = TRUE /\ s.digit = FALSE
          /\ s.stage = 0 /\ s.btn = 0 /\ s.col = 0
      BY SecondFacts
    <2> HIDE DEF s
    <2>2. q = s
      BY ONLY <1>2, <2>1, RegsEqual
    <2> QED BY <2>2 DEF s
  <1> QED BY <1>3, <1>4, DecodeLoops DEF r

\* The first and the second parameter of a finished sequence.
First(r) == IF ~r.parsing2 /\ r.digit THEN r.current ELSE r.p1
Param(r) == IF r.parsing2 /\ r.digit THEN r.current ELSE 1

LEMMA ArrowByte ==
  ASSUME NEW r, NEW b \in DOMAIN ArrowKey, NEW at \in {"csifirst", "csi"}
  PROVE  Decode(at, r, b) = Answer(make_key_event(ArrowKey[b], cn_term_csi_modifiers(Param(r))))
  <1>1. b \in {65, 66, 67, 68, 72, 70}
    BY DEF ArrowKey
  <1>2. cn_term_parse_csi(r, b) = Answer(make_key_event(ArrowKey[b], cn_term_csi_modifiers(Param(r))))
    BY <1>1 DEF cn_term_parse_csi, Digit, Param
  <1> QED BY <1>2, DecodeLoops

LEMMA TildeByte ==
  ASSUME NEW r
  PROVE  /\ First(r) \in DOMAIN TildeKey
              => Decode("csi", r, 126)
                   = Answer(make_key_event(TildeKey[First(r)], cn_term_csi_modifiers(Param(r))))
         /\ First(r) = 200 => Decode("csi", r, 126) = Answer(make_paste_event)
  <1>1. 126 \notin DOMAIN ArrowKey
    BY DEF ArrowKey
  <1>2. 200 \notin DOMAIN TildeKey
    BY DEF TildeKey
  <1>3. First(r) \in DOMAIN TildeKey
          => cn_term_parse_csi(r, 126)
               = Answer(make_key_event(TildeKey[First(r)], cn_term_csi_modifiers(Param(r))))
    BY <1>1, <1>2 DEF cn_term_parse_csi, Digit, Param, First
  <1>4. First(r) = 200 => cn_term_parse_csi(r, 126) = Answer(make_paste_event)
    BY <1>1, <1>2 DEF cn_term_parse_csi, Digit, Param, First
  <1> QED BY <1>3, <1>4, DecodeLoops

LEMMA ParamFacts ==
  ASSUME NEW v \in Int, NEW m \in Int
  PROVE  /\ Param(NoRegs) = 1
         /\ First(WithNumber(NoRegs, v)) = v /\ Param(WithNumber(NoRegs, v)) = 1
         /\ First(WithNumber(Second(v), m)) = v /\ Param(WithNumber(Second(v), m)) = m
  BY DEF First, Param, WithNumber, Second, NoRegs

LEMMA ModifierFacts ==
  /\ cn_term_csi_modifiers(1) = 0
  /\ \A m \in 1 .. 8 : cn_term_csi_modifiers(m) = m - 1
  BY DEF cn_term_csi_modifiers

LEMMA CursorKeys ==
  ASSUME NEW bytes, NEW n \in Nat, Len(bytes) = n, NEW e, CursorKey(bytes, e)
  PROVE  From(bytes, n, 0, Start, e)
  <1>1. bytes[1] = 27 /\ bytes[2] = 91 /\ bytes[n] \in DOMAIN ArrowKey
    BY DEF CursorKey
  <1>2. CASE n = 3 /\ e = make_key_event(ArrowKey[bytes[n]], 0)
    <2>1. Decode("csifirst", NoRegs, bytes[n]) = Answer(e)
      BY <1>1, <1>2, ArrowByte, ParamFacts, ModifierFacts
    <2>2. From(bytes, n, 2, More("csifirst", NoRegs), e)
      BY <1>2, <2>1, FromAnswer
    <2> QED BY <1>1, <1>2, <2>2, FromBracket
  <1>3. CASE /\ n = 6 /\ bytes[3] = 49 /\ bytes[4] = 59 /\ bytes[5] \in 49 .. 56
             /\ e = make_key_event(ArrowKey[bytes[n]], bytes[5] - 49)
    <2> DEFINE m == bytes[5] - 48
    <2>1. m \in 1 .. 8 /\ m \in 0 .. 9 /\ m \in Int /\ bytes[5] = 48 + m /\ bytes[5] - 49 = m - 1
      BY <1>3
    <2> HIDE DEF m
    <2>2. Param(WithNumber(Second(1), m)) = m /\ cn_term_csi_modifiers(m) = m - 1
      BY <2>1, ParamFacts, ModifierFacts
    <2>3. Decode("csi", WithNumber(Second(1), m), bytes[n]) = Answer(e)
      BY <1>1, <1>3, <2>1, <2>2, ArrowByte
    <2>4. From(bytes, n, 5, More("csi", WithNumber(Second(1), m)), e)
      BY <1>3, <2>3, FromAnswer
    <2>5. NumberLoop("csi", "csi") /\ NumberLoop("csifirst", "csi")
      BY DEF NumberLoop
    <2>6. From(bytes, n, 4, More("csi", Second(1)), e)
      <3>1. Second(1) \in Regs /\ Second(1).current = 0
        <4>1. \A v : v \in Int => Second(v) \in Regs /\ Second(v).current = 0
          BY SecondFacts
        <4> QED BY <4>1
      <3>2. bytes[4 + 1] = 48 + m /\ 4 + 1 = 5 /\ 4 < n
        BY <1>3, <2>1
      <3> QED BY <2>1, <2>4, <2>5, <3>1, <3>2, FirstDigit
    <2>7. Decode("csi", WithNumber(NoRegs, 1), bytes[3 + 1]) = More("csi", Second(1))
      BY <1>3, SemicolonByte
    <2>8. From(bytes, n, 3, More("csi", WithNumber(NoRegs, 1)), e)
      BY <1>3, <2>6, <2>7, FromMore
    <2>9. From(bytes, n, 2, More("csifirst", NoRegs), e)
      BY <1>3, <2>5, <2>8, NoRegsFacts, FirstDigit
    <2> QED BY <1>1, <1>3, <2>9, FromBracket
  <1> QED BY <1>2, <1>3 DEF CursorKey

LEMMA NumberIsNat ==
  ASSUME NEW bytes, NEW i1 \in Nat, i1 > 0, NEW j \in Nat, Digits(bytes, i1, j)
  PROVE  Number(bytes, i1, j) \in Nat
  <1> DEFINE i == i1 - 1
  <1>1. i \in Nat /\ i1 = i + 1
    OBVIOUS
  <1> HIDE DEF i
  <1>2. PICK a, b, c, d \in 0 .. 9 : NumberIs(bytes, i, j, a, b, c, d)
    BY <1>1, NumberValue
  <1> QED BY <1>1, <1>2 DEF NumberIs

LEMMA NumberedKeys ==
  ASSUME NEW bytes, NEW n \in Nat, Len(bytes) = n, NEW e, NumberedKey(bytes, e)
  PROVE  From(bytes, n, 0, Start, e)
  <1>1. bytes[1] = 27 /\ bytes[2] = 91 /\ bytes[n] = 126
    BY DEF NumberedKey
  <1>2. NumberLoop("csifirst", "csi") /\ NumberLoop("csi", "csi")
    BY DEF NumberLoop
  <1>3. ASSUME NEW j \in Nat, 2 <= j, j <= n, Digits(bytes, 3, j),
               From(bytes, n, j, More("csi", WithNumber(NoRegs, Number(bytes, 3, j))), e)
        PROVE  From(bytes, n, 0, Start, e)
    <2>1. From(bytes, n, 2, More("csifirst", NoRegs), e)
      <3>1. 2 + 1 = 3 /\ 2 \in Nat
        OBVIOUS
      <3> QED BY <1>2, <1>3, <3>1, NoRegsFacts, NumberFrom
    <2> QED BY <1>1, <1>3, <2>1, FromBracket
  <1>4. ASSUME n \in 4 .. 7, Digits(bytes, 3, n - 1),
               Number(bytes, 3, n - 1) \in DOMAIN TildeKey,
               e = make_key_event(TildeKey[Number(bytes, 3, n - 1)], 0)
        PROVE  From(bytes, n, 0, Start, e)
    <2> DEFINE v == Number(bytes, 3, n - 1)
    <2>1. v \in Int
      BY <1>4 DEF TildeKey
    <2> HIDE DEF v
    <2>2. Decode("csi", WithNumber(NoRegs, v), bytes[n]) = Answer(e)
      <3>1. First(WithNumber(NoRegs, v)) = v /\ Param(WithNumber(NoRegs, v)) = 1
        BY <2>1, ParamFacts
      <3> QED BY <1>1, <1>4, <3>1, TildeByte, ModifierFacts DEF v
    <2>3. n - 1 \in Nat /\ (n - 1) + 1 = n /\ 2 <= n - 1 /\ n - 1 <= n
      BY <1>4
    <2>4. From(bytes, n, n - 1, More("csi", WithNumber(NoRegs, v)), e)
      BY <2>2, <2>3, FromAnswer
    <2> QED BY <1>3, <1>4, <2>3, <2>4 DEF v
  <1>5. ASSUME n \in 6 .. 9, Digits(bytes, 3, n - 3),
               Number(bytes, 3, n - 3) \in DOMAIN TildeKey,
               bytes[n - 2] = 59, bytes[n - 1] \in 49 .. 56,
               e = make_key_event(TildeKey[Number(bytes, 3, n - 3)], bytes[n - 1] - 49)
        PROVE  From(bytes, n, 0, Start, e)
    <2> DEFINE v == Number(bytes, 3, n - 3)
               m == bytes[n - 1] - 48
    <2>1. v \in Int
      BY <1>5 DEF TildeKey
    <2>2. m \in 1 .. 8 /\ m \in 0 .. 9 /\ m \in Int /\ bytes[n - 1] = 48 + m /\ bytes[n - 1] - 49 = m - 1
      BY <1>5
    <2> HIDE DEF v, m
    <2>3. Decode("csi", WithNumber(Second(v), m), bytes[n]) = Answer(e)
      <3>1. First(WithNumber(Second(v), m)) = v /\ Param(WithNumber(Second(v), m)) = m
        BY <2>1, <2>2, ParamFacts
      <3>2. cn_term_csi_modifiers(m) = m - 1
        BY <2>2, ModifierFacts
      <3> QED BY <1>1, <1>5, <2>2, <3>1, <3>2, TildeByte DEF v
    <2>4. /\ n - 1 \in Nat /\ (n - 1) + 1 = n /\ n - 2 \in Nat /\ (n - 2) + 1 = n - 1
          /\ n - 3 \in Nat /\ (n - 3) + 1 = n - 2 /\ 2 <= n - 3 /\ n - 3 <= n
          /\ n - 2 < n /\ n - 3 < n
      BY <1>5
    <2>5. From(bytes, n, n - 1, More("csi", WithNumber(Second(v), m)), e)
      BY <2>3, <2>4, FromAnswer
    <2>6. From(bytes, n, n - 2, More("csi", Second(v)), e)
      <3>1. Second(v) \in Regs /\ Second(v).current = 0
        BY <2>1, SecondFacts
      <3>2. bytes[(n - 2) + 1] = 48 + m /\ n - 2 < n
        BY <2>2, <2>4
      <3> QED BY <1>2, <2>2, <2>4, <2>5, <3>1, <3>2, FirstDigit
    <2>7. Decode("csi", WithNumber(NoRegs, v), bytes[n - 2]) = More("csi", Second(v))
      BY <1>5, <2>1, SemicolonByte
    <2>8. From(bytes, n, n - 3, More("csi", WithNumber(NoRegs, v)), e)
      BY <2>4, <2>6, <2>7, FromMore
    <2> QED BY <1>3, <1>5, <2>4, <2>8 DEF v
  <1> QED BY <1>4, <1>5 DEF NumberedKey

\* ESC [ 2 0 0 ~ opens a paste.
LEMMA PasteOpens ==
  ASSUME NEW bytes, bytes = <<27, 91, 50, 48, 48, 126>>
  PROVE  From(bytes, 6, 0, Start, make_paste_event)
  <1>1. /\ bytes[1] = 27 /\ bytes[2] = 91 /\ bytes[3] = 50 /\ bytes[4] = 48 /\ bytes[5] = 48
        /\ bytes[6] = 126
    OBVIOUS
  <1>2. Digits(bytes, 2 + 1, 5)
    BY <1>1 DEF Digits
  <1>3. Number(bytes, 2 + 1, 5) = 200
    <2>1. 2 + 1 = 3 /\ 3 + 1 = 4 /\ 3 + 2 = 5
      OBVIOUS
    <2> QED BY <1>1, <2>1 DEF Number
  <1>4. Decode("csi", WithNumber(NoRegs, 200), bytes[6]) = Answer(make_paste_event)
    <2>1. First(WithNumber(NoRegs, 200)) = 200
      BY ParamFacts
    <2> QED BY <1>1, <2>1, TildeByte
  <1>5. From(bytes, 6, 5, More("csi", WithNumber(NoRegs, 200)), make_paste_event)
    BY <1>4, FromAnswer
  <1>6. NumberLoop("csifirst", "csi")
    BY DEF NumberLoop
  <1>7. From(bytes, 6, 2, More("csifirst", NoRegs), make_paste_event)
    BY <1>2, <1>3, <1>5, <1>6, NoRegsFacts, NumberFrom
  <1> QED BY <1>1, <1>7, FromBracket

-----------------------------------------------------------------------------
(* The mouse.                                                                 *)

\* The registers of the mouse loop between two numbers: behind the first
\* semicolon the stage is 1 and the column is not known, behind the second it is 2.
Mouse(v, c, stage) == [NoRegs EXCEPT !.btn = v, !.col = c, !.stage = stage]
AtColumn(v) == Mouse(v, 0, 1)
AtRow(v, c) == Mouse(v, c, 2)

\* The registers of the mouse loop, one by one.
MouseRegs(r, current, digit, stage, btn, col) ==
  /\ r \in Regs /\ r.mods = 0 /\ r.need = 0 /\ r.code = 0 /\ r.p1 = 0 /\ r.parsing2 = FALSE
  /\ r.current = current /\ r.digit = digit /\ r.stage = stage /\ r.btn = btn /\ r.col = col

LEMMA MouseRegsEqual ==
  ASSUME NEW r, NEW q, NEW current, NEW digit, NEW stage, NEW btn, NEW col,
         MouseRegs(r, current, digit, stage, btn, col),
         MouseRegs(q, current, digit, stage, btn, col)
  PROVE  r = q
  BY RegsEqual DEF MouseRegs

LEMMA MouseFacts ==
  ASSUME NEW v \in Int, NEW c \in Int, NEW stage \in Int
  PROVE  MouseRegs(Mouse(v, c, stage), 0, FALSE, stage, v, c)
  BY NoRegsFacts DEF Mouse, Regs, MouseRegs

LEMMA AtColumnFacts ==
  ASSUME NEW v, v \in Int
  PROVE  MouseRegs(AtColumn(v), 0, FALSE, 1, v, 0)
  <1> DEFINE c == 0
             stage == 1
  <1>1. c \in Int /\ stage \in Int
    OBVIOUS
  <1> HIDE DEF c, stage
  <1>2. MouseRegs(Mouse(v, c, stage), 0, FALSE, stage, v, c)
    BY <1>1, MouseFacts, Zenon
  <1> QED BY <1>2 DEF AtColumn, c, stage

LEMMA AtRowFacts ==
  ASSUME NEW v, v \in Int, NEW c, c \in Int
  PROVE  MouseRegs(AtRow(v, c), 0, FALSE, 2, v, c)
  <1> DEFINE stage == 2
  <1>1. stage \in Int
    OBVIOUS
  <1> HIDE DEF stage
  <1>2. MouseRegs(Mouse(v, c, stage), 0, FALSE, stage, v, c)
    BY <1>1, MouseFacts, Zenon
  <1> QED BY <1>2 DEF AtRow, stage

LEMMA MouseNumber ==
  ASSUME NEW r, NEW stage, NEW btn, NEW col, NEW v \in Int,
         MouseRegs(r, 0, FALSE, stage, btn, col)
  PROVE  MouseRegs(WithNumber(r, v), v, TRUE, stage, btn, col)
  BY DEF WithNumber, Regs, MouseRegs

\* What a semicolon does to the registers.
LEMMA MouseKept ==
  ASSUME NEW r, NEW v \in Int, NEW stage \in Int, NEW btn \in Int, NEW col \in Int,
         MouseRegs(r, v, TRUE, stage, btn, col), NEW zero \in Int, NEW next \in Int
  PROVE  /\ MouseRegs([r EXCEPT !.btn = v, !.stage = next, !.current = zero, !.digit = FALSE],
                      zero, FALSE, next, v, col)
         /\ MouseRegs([r EXCEPT !.col = v, !.stage = next, !.current = zero, !.digit = FALSE],
                      zero, FALSE, next, btn, v)
  BY DEF Regs, MouseRegs

LEMMA ButtonsEnd ==
  ASSUME NEW v, v \in Int
  PROVE  Decode("mouse", WithNumber(NoRegs, v), 59) = More("mouse", AtColumn(v))
  <1> DEFINE r == WithNumber(NoRegs, v)
             zero == 0
             one == 1
             q == [r EXCEPT !.btn = v, !.stage = one, !.current = zero, !.digit = FALSE]
  <1>1. MouseRegs(NoRegs, 0, FALSE, 0, 0, 0)
    BY NoRegsFacts DEF MouseRegs
  <1>2. MouseRegs(r, v, TRUE, zero, zero, zero)
    BY <1>1, MouseNumber
  <1> HIDE DEF r
  <1>3. cn_term_parse_mouse_sgr(r, 59) = More("mouse", q)
    <2>1. ~Digit(59)
      BY DEF Digit
    <2> QED BY <1>2, <2>1 DEF cn_term_parse_mouse_sgr, MouseRegs
  <1>4. zero \in Int /\ one \in Int
    OBVIOUS
  <1> HIDE DEF q
  <1>5. MouseRegs(q, zero, FALSE, one, v, zero)
    <2> HIDE DEF zero, one
    <2> QED BY <1>2, <1>4, MouseKept, Zenon DEF q
  <1>6. q = AtColumn(v)
    BY <1>5, AtColumnFacts, MouseRegsEqual, Zenon
  <1> QED BY <1>3, <1>6, DecodeLoops DEF r

LEMMA ColumnEnds ==
  ASSUME NEW v, v \in Int, NEW c, c \in Int
  PROVE  Decode("mouse", WithNumber(AtColumn(v), c), 59) = More("mouse", AtRow(v, c))
  <1> DEFINE r == WithNumber(AtColumn(v), c)
             zero == 0
             one == 1
             two == 2
             q == [r EXCEPT !.col = c, !.stage = two, !.current = zero, !.digit = FALSE]
  <1>1. MouseRegs(AtColumn(v), 0, FALSE, 1, v, 0)
    BY AtColumnFacts, Zenon
  <1>2. MouseRegs(r, c, TRUE, one, v, zero)
    BY <1>1, MouseNumber, Zenon
  <1> HIDE DEF r
  <1>3. cn_term_parse_mouse_sgr(r, 59) = More("mouse", q)
    <2>1. ~Digit(59)
      BY DEF Digit
    <2> QED BY <1>2, <2>1 DEF cn_term_parse_mouse_sgr, MouseRegs
  <1>4. zero \in Int /\ one \in Int /\ two \in Int
    OBVIOUS
  <1> HIDE DEF q
  <1>5. MouseRegs(q, zero, FALSE, two, v, c)
    <2> HIDE DEF zero, one, two
    <2> QED BY <1>2, <1>4, MouseKept, Zenon DEF q
  <1>6. q = AtRow(v, c)
    BY <1>5, AtRowFacts, MouseRegsEqual, Zenon
  <1> QED BY <1>3, <1>6, DecodeLoops DEF r

LEMMA RowEnds ==
  ASSUME NEW v, v \in Int, NEW c, c \in Int, NEW w, w \in Int, NEW b, b \in {77, 109}
  PROVE  Decode("mouse", WithNumber(AtRow(v, c), w), b) = Answer(MouseEvent(b = 77, v, c, w))
  <1> DEFINE r == WithNumber(AtRow(v, c), w)
  <1>1. MouseRegs(AtRow(v, c), 0, FALSE, 2, v, c)
    BY AtRowFacts, Zenon
  <1>2. MouseRegs(r, w, TRUE, 2, v, c)
    <2>1. w \in Int
      OBVIOUS
    <2> QED BY ONLY <1>1, <2>1, MouseNumber, Zenon
  <1> HIDE DEF r
  <1>3. cn_term_parse_mouse_sgr(r, b) = Answer(MouseEvent(b = 77, v, c, w))
    <2>1. ~Digit(b) /\ b # 59
      BY DEF Digit
    <2> QED BY <1>2, <2>1 DEF cn_term_parse_mouse_sgr, MouseRegs
  <1> QED BY <1>3, DecodeLoops DEF r

\* The bits of the buttons.
LEMMA ButtonBits ==
  ASSUME NEW button \in 0 .. 3, NEW shift \in 0 .. 1, NEW alt \in 0 .. 1, NEW ctrl \in 0 .. 1,
         NEW motion \in 0 .. 1, NEW wheel \in 0 .. 1,
         NEW btn, btn = button + 4 * shift + 8 * alt + 16 * ctrl + 32 * motion + 64 * wheel
  PROVE  /\ btn % 4 = button
         /\ Bit(btn, 4) <=> shift = 1
         /\ Bit(btn, 8) <=> alt = 1
         /\ Bit(btn, 16) <=> ctrl = 1
         /\ Bit(btn, 32) <=> motion = 1
         /\ Bit(btn, 64) <=> wheel = 1
  <1>1. btn \in Nat
    OBVIOUS
  <1>2. btn % 4 = button
    BY <1>1
  <1>3. btn \div 4 = shift + 2 * alt + 4 * ctrl + 8 * motion + 16 * wheel
    BY <1>1
  <1>4. btn \div 8 = alt + 2 * ctrl + 4 * motion + 8 * wheel
    BY <1>1
  <1>5. btn \div 16 = ctrl + 2 * motion + 4 * wheel
    BY <1>1
  <1>6. btn \div 32 = motion + 2 * wheel
    BY <1>1
  <1>7. btn \div 64 = wheel
    BY <1>1
  <1>8. /\ (btn \div 4) % 2 = shift /\ (btn \div 8) % 2 = alt /\ (btn \div 16) % 2 = ctrl
        /\ (btn \div 32) % 2 = motion /\ (btn \div 64) % 2 = wheel
    BY <1>3, <1>4, <1>5, <1>6, <1>7
  <1> QED BY <1>2, <1>8 DEF Bit

LEMMA MouseIs ==
  ASSUME NEW btn, NEW col \in Nat, col > 0, NEW row \in Nat, row > 0, NEW b \in {77, 109},
         NEW e, ButtonsMean(btn, b, row, col, e)
  PROVE  MouseEvent(b = 77, btn, col, row) = e
  <1>0. PICK button \in 0 .. 3, shift \in 0 .. 1, alt \in 0 .. 1, ctrl \in 0 .. 1,
             motion \in 0 .. 1, wheel \in 0 .. 1 :
          /\ btn = button + 4 * shift + 8 * alt + 16 * ctrl + 32 * motion + 64 * wheel
          /\ e = make_mouse_event(
                      CASE wheel = 1 -> IF button = 1 THEN 7 ELSE 6
                        [] wheel = 0 /\ b = 109 -> 4
                        [] wheel = 0 /\ b = 77 /\ motion = 1 -> 5
                        [] OTHER -> button + 1,
                      shift + 2 * alt + 4 * ctrl, row - 1, col - 1)
    BY Zenon DEF ButtonsMean
  <1>1. /\ btn % 4 = button
        /\ Bit(btn, 4) <=> shift = 1
        /\ Bit(btn, 8) <=> alt = 1
        /\ Bit(btn, 16) <=> ctrl = 1
        /\ Bit(btn, 32) <=> motion = 1
        /\ Bit(btn, 64) <=> wheel = 1
    BY <1>0, ButtonBits
  <1>2. (IF Bit(btn, 4) THEN 1 ELSE 0) + (IF Bit(btn, 8) THEN 2 ELSE 0)
          + (IF Bit(btn, 16) THEN 4 ELSE 0) = shift + 2 * alt + 4 * ctrl
    BY <1>1
  <1>3. (CASE Bit(btn, 64) -> IF btn % 4 = 1 THEN 7 ELSE 6
           [] ~Bit(btn, 64) /\ ~(b = 77) -> 4
           [] ~Bit(btn, 64) /\ b = 77 /\ Bit(btn, 32) -> 5
           [] OTHER -> (btn % 4) + 1)
        = (CASE wheel = 1 -> IF button = 1 THEN 7 ELSE 6
             [] wheel = 0 /\ b = 109 -> 4
             [] wheel = 0 /\ b = 77 /\ motion = 1 -> 5
             [] OTHER -> button + 1)
    BY <1>1
  <1>4. (IF row > 0 THEN row - 1 ELSE 0) = row - 1 /\ (IF col > 0 THEN col - 1 ELSE 0) = col - 1
    OBVIOUS
  <1> QED BY <1>0, <1>2, <1>3, <1>4 DEF MouseEvent

LEMMA MouseKeys ==
  ASSUME NEW bytes, NEW n \in Nat, Len(bytes) = n, DOMAIN bytes = 1 .. n, NEW e,
         MouseKey(bytes, e)
  PROVE  From(bytes, n, 0, Start, e)
  <1>0. PICK i \in DOMAIN bytes, j \in DOMAIN bytes : MouseReport(bytes, i, j, e)
    BY DEF MouseKey
  <1>1. /\ bytes[1] = 27 /\ bytes[2] = 91 /\ bytes[3] = 60
        /\ Digits(bytes, 4, i - 1) /\ bytes[i] = 59
        /\ Digits(bytes, i + 1, j - 1) /\ bytes[j] = 59
        /\ Digits(bytes, j + 1, n - 1) /\ bytes[n] \in {77, 109}
        /\ Number(bytes, i + 1, j - 1) > 0 /\ Number(bytes, j + 1, n - 1) > 0
    BY <1>0, Zenon DEF MouseReport
  <1> DEFINE btn == Number(bytes, 4, i - 1)
             col == Number(bytes, i + 1, j - 1)
             row == Number(bytes, j + 1, n - 1)
  <1>2. /\ i \in Nat /\ j \in Nat /\ i - 1 \in Nat /\ j - 1 \in Nat /\ n - 1 \in Nat
        /\ 3 + 1 = 4 /\ (i - 1) + 1 = i /\ (j - 1) + 1 = j /\ (n - 1) + 1 = n
        /\ i - 1 < n /\ j - 1 < n /\ n - 1 < n /\ i - 1 <= n /\ j - 1 <= n /\ n - 1 <= n
        /\ 4 <= i - 1 /\ i + 1 <= j - 1 /\ j + 1 <= n - 1
    <2>1. i \in 1 .. n /\ j \in 1 .. n
      BY <1>0
    <2>2. i - 1 \in 4 .. 4 + 3 /\ j - 1 \in i + 1 .. (i + 1) + 3 /\ n - 1 \in j + 1 .. (j + 1) + 3
      BY <1>1 DEF Digits
    <2>3. i \in Nat /\ j \in Nat /\ i >= 5 /\ j >= i + 2 /\ n >= j + 2
      BY <2>1, <2>2
    <2> QED BY ONLY <2>3, n \in Nat
  <1>3. btn \in Nat /\ col \in Nat /\ row \in Nat
    <2>1. 4 \in Nat /\ i + 1 \in Nat /\ j + 1 \in Nat /\ i + 1 > 0 /\ j + 1 > 0
      BY <1>2
    <2>2. btn \in Nat
      BY ONLY <1>1, <1>2, <2>1, NumberIsNat
    <2>3. col \in Nat
      BY ONLY <1>1, <1>2, <2>1, NumberIsNat
    <2>4. row \in Nat
      BY ONLY <1>1, <1>2, <2>1, NumberIsNat
    <2> QED BY <2>2, <2>3, <2>4
  <1>4. MouseEvent(bytes[n] = 77, btn, col, row) = e
    <2>1. col > 0 /\ row > 0 /\ bytes[n] \in {77, 109}
      BY <1>1
    <2>2. ButtonsMean(btn, bytes[n], row, col, e)
      BY <1>0, Zenon DEF MouseReport
    <2> HIDE DEF btn, col, row
    <2> QED BY ONLY <1>3, <2>1, <2>2, MouseIs
  <1> HIDE DEF btn, col, row
  <1>5. NumberLoop("mouse", "mouse")
    BY DEF NumberLoop
  <1>6. Decode("mouse", WithNumber(AtRow(btn, col), row), bytes[n]) = Answer(e)
    <2>1. btn \in Int /\ col \in Int /\ row \in Int
      BY <1>3
    <2>2. bytes[n] \in {77, 109}
      BY <1>1
    <2>3. Decode("mouse", WithNumber(AtRow(btn, col), row), bytes[n])
            = Answer(MouseEvent(bytes[n] = 77, btn, col, row))
      BY ONLY <2>1, <2>2, RowEnds
    <2> QED BY <1>4, <2>3
  <1>7. From(bytes, n, n - 1, More("mouse", WithNumber(AtRow(btn, col), row)), e)
    BY <1>2, <1>6, FromAnswer
  <1>8. From(bytes, n, j, More("mouse", AtRow(btn, col)), e)
    <2>1. AtRow(btn, col) \in Regs /\ AtRow(btn, col).current = 0
      <3>1. btn \in Int /\ col \in Int
        BY <1>3
      <3>2. MouseRegs(AtRow(btn, col), 0, FALSE, 2, btn, col)
        BY <3>1, AtRowFacts, Zenon
      <3> QED BY <3>2 DEF MouseRegs
    <2>2. From(bytes, n, n - 1, More("mouse", WithNumber(AtRow(btn, col),
                                                         Number(bytes, j + 1, n - 1))), e)
      BY <1>7 DEF row
    <2>3. Digits(bytes, j + 1, n - 1) /\ n \in Nat
      BY <1>1
    <2> QED BY ONLY <1>2, <1>5, <2>1, <2>2, <2>3, NumberFrom
  <1>9. From(bytes, n, j - 1, More("mouse", WithNumber(AtColumn(btn), col)), e)
    <2>1. Decode("mouse", WithNumber(AtColumn(btn), col), bytes[(j - 1) + 1])
            = More("mouse", AtRow(btn, col))
      <3>1. btn \in Int /\ col \in Int
        BY <1>3
      <3>2. bytes[(j - 1) + 1] = 59
        BY <1>1, <1>2
      <3> QED BY <3>1, <3>2, ColumnEnds, Zenon
    <2>2. From(bytes, n, (j - 1) + 1, More("mouse", AtRow(btn, col)), e)
      BY <1>2, <1>8
    <2> QED BY <1>2, <2>1, <2>2, FromMore
  <1>10. From(bytes, n, i, More("mouse", AtColumn(btn)), e)
    <2>1. AtColumn(btn) \in Regs /\ AtColumn(btn).current = 0
      <3>1. btn \in Int
        BY <1>3
      <3>2. MouseRegs(AtColumn(btn), 0, FALSE, 1, btn, 0)
        BY <3>1, AtColumnFacts, Zenon
      <3> QED BY <3>2 DEF MouseRegs
    <2>2. From(bytes, n, j - 1, More("mouse", WithNumber(AtColumn(btn),
                                                         Number(bytes, i + 1, j - 1))), e)
      BY <1>9 DEF col
    <2>3. Digits(bytes, i + 1, j - 1) /\ n \in Nat
      BY <1>1
    <2> QED BY ONLY <1>2, <1>5, <2>1, <2>2, <2>3, NumberFrom
  <1>11. From(bytes, n, i - 1, More("mouse", WithNumber(NoRegs, btn)), e)
    <2>1. Decode("mouse", WithNumber(NoRegs, btn), bytes[(i - 1) + 1])
            = More("mouse", AtColumn(btn))
      BY <1>1, <1>2, <1>3, ButtonsEnd
    <2>2. From(bytes, n, (i - 1) + 1, More("mouse", AtColumn(btn)), e)
      BY <1>2, <1>10
    <2> QED BY <1>2, <2>1, <2>2, FromMore
  <1>12. From(bytes, n, 3, More("mouse", NoRegs), e)
    <2>1. From(bytes, n, i - 1, More("mouse", WithNumber(NoRegs, Number(bytes, 4, i - 1))), e)
      BY <1>11 DEF btn
    <2>2. 4 = 3 + 1 /\ 3 \in Nat
      OBVIOUS
    <2> QED BY <1>1, <1>2, <1>5, <2>1, <2>2, NoRegsFacts, NumberFrom
  <1>13. Decode("csifirst", NoRegs, bytes[2 + 1]) = More("mouse", NoRegs)
    <2>1. cn_term_parse_csi(NoRegs, 60) = More("mouse", NoRegs)
      <3>1. ~Digit(60)
        BY DEF Digit
      <3> QED BY <3>1 DEF cn_term_parse_csi
    <2> QED BY <1>1, <2>1, DecodeLoops
  <1>14. From(bytes, n, 2, More("csifirst", NoRegs), e)
    <2>1. 2 + 1 = 3 /\ 2 < n
      BY <1>2
    <2> QED BY <1>12, <1>13, <2>1, FromMore
  <1>15. 2 <= n
    BY <1>2
  <1> QED BY <1>1, <1>14, <1>15, FromBracket

-----------------------------------------------------------------------------
(* UTF-8.                                                                     *)

\* The decoder waits for this many bytes of a code point whose leading bits it has.
Utf8Regs(r, need, code) == r \in Regs /\ r.mods = 0 /\ r.need = need /\ r.code = code

LEMMA Utf8First ==
  ASSUME NEW b \in 194 .. 244, NEW need \in Int, need = Continuations(b),
         NEW code \in Int, code = LeadBits(b)
  PROVE  \E r : Decode("first", NoRegs, b) = More("utf8", r) /\ Utf8Regs(r, need, code)
  <1> DEFINE zero == 0
             r == [NoRegs EXCEPT !.mods = zero, !.need = need, !.code = code]
  <1>1. Continuations(b) # 0
    BY DEF Continuations
  <1>2. Decode("first", NoRegs, b) = More("utf8", r)
    <2>1. b # 27
      OBVIOUS
    <2>2. FirstByte(b) = cn_term_decode_simple_byte(b, 0)
      BY <2>1 DEF FirstByte
    <2>3. cn_term_decode_simple_byte(b, zero)
            = More("utf8", [NoRegs EXCEPT !.mods = zero, !.need = Continuations(b),
                                          !.code = LeadBits(b)])
      BY <1>1, Zenon DEF cn_term_decode_simple_byte
    <2>4. zero = 0
      OBVIOUS
    <2> HIDE DEF zero
    <2> QED BY <2>2, <2>3, <2>4, DecodeLoops
  <1>3. zero \in Int /\ zero = 0
    OBVIOUS
  <1> HIDE DEF zero
  <1>4. r \in Regs /\ r.mods = zero /\ r.need = need /\ r.code = code
    BY <1>3, NoRegsFacts DEF Regs
  <1> HIDE DEF r
  <1> QED BY <1>2, <1>3, <1>4 DEF Utf8Regs

LEMMA Utf8Last ==
  ASSUME NEW r, NEW code \in Int, Utf8Regs(r, 1, code), NEW b \in 128 .. 191,
         NEW w, w = code * 64 + (b % 64)
  PROVE  Decode("utf8", r, b) = Answer(make_key_event(w, 0))
  <1>1. cn_term_decode_utf8(r, b) = Answer(make_key_event(w, 0))
    BY DEF cn_term_decode_utf8, Utf8Regs
  <1> QED BY <1>1, DecodeLoops

WithCode(r, need, code) == [r EXCEPT !.need = need, !.code = code]

LEMMA Utf8Kept ==
  ASSUME NEW r, NEW old, NEW before, Utf8Regs(r, old, before),
         NEW need, need \in Int, NEW code, code \in Int
  PROVE  Utf8Regs(WithCode(r, need, code), need, code)
  BY DEF Regs, Utf8Regs, WithCode

\* One byte less to come, and the code with its six bits.
Adds(need, less, code, b, w) ==
  /\ need \in Int /\ need # 1 /\ less \in Int /\ less = need - 1 /\ code \in Int
  /\ b \in 128 .. 191 /\ w \in Int /\ w = code * 64 + (b % 64)

LEMMA Utf8Next ==
  ASSUME NEW r, NEW need, NEW less, NEW code, NEW b, NEW w,
         Utf8Regs(r, need, code), Adds(need, less, code, b, w)
  PROVE  /\ Decode("utf8", r, b) = More("utf8", WithCode(r, less, w))
         /\ Utf8Regs(WithCode(r, less, w), less, w)
  <1>1. cn_term_decode_utf8(r, b) = More("utf8", WithCode(r, less, w))
    BY DEF cn_term_decode_utf8, Utf8Regs, WithCode, Adds
  <1>2. less \in Int /\ w \in Int /\ Utf8Regs(r, need, code)
    BY DEF Adds
  <1>3. Utf8Regs(WithCode(r, less, w), less, w)
    BY ONLY <1>2, Utf8Kept, Zenon
  <1> QED BY <1>1, <1>3, DecodeLoops

\* The last byte, and one in the middle.
LEMMA Utf8LastFrom ==
  ASSUME NEW bytes, NEW n \in Nat, NEW i \in Nat, i + 1 = n, NEW r, NEW code \in Int,
         Utf8Regs(r, 1, code), bytes[n] \in 128 .. 191,
         NEW e, e = make_key_event(code * 64 + (bytes[n] % 64), 0)
  PROVE  From(bytes, n, i, More("utf8", r), e)
  <1>1. Decode("utf8", r, bytes[n]) = Answer(e)
    BY Utf8Last
  <1> QED BY <1>1, FromAnswer

LEMMA Utf8Two ==
  ASSUME NEW bytes, NEW a \in 2 .. 31, NEW l \in 0 .. 63, bytes[1] = 192 + a, bytes[2] = 128 + l,
         NEW e, e = make_key_event(a * 64 + l, 0)
  PROVE  From(bytes, 2, 0, Start, e)
  <1>1. /\ bytes[1] \in 194 .. 244 /\ Continuations(bytes[1]) = 1 /\ LeadBits(bytes[1]) = a
    BY DEF Continuations, LeadBits
  <1>2. bytes[2] \in 128 .. 191 /\ bytes[2] % 64 = l
    OBVIOUS
  <1>3. PICK r : Decode("first", NoRegs, bytes[1]) = More("utf8", r) /\ Utf8Regs(r, 1, a)
    BY <1>1, Utf8First
  <1>4. From(bytes, 2, 1, More("utf8", r), e)
    BY <1>2, <1>3, Utf8LastFrom
  <1> QED BY <1>3, <1>4, FromMore DEF Start

LEMMA Utf8Three ==
  ASSUME NEW bytes, NEW a \in 0 .. 15, NEW m \in 0 .. 63, NEW l \in 0 .. 63,
         bytes[1] = 224 + a, bytes[2] = 128 + m, bytes[3] = 128 + l,
         NEW w \in Int, w = a * 64 + m, NEW e, e = make_key_event(w * 64 + l, 0)
  PROVE  From(bytes, 3, 0, Start, e)
  <1>1. /\ bytes[1] \in 194 .. 244 /\ Continuations(bytes[1]) = 2 /\ LeadBits(bytes[1]) = a
    <2>1. bytes[1] \in 224 .. 239 /\ bytes[1] \notin 194 .. 223 /\ bytes[1] \notin 240 .. 244
      OBVIOUS
    <2>2. bytes[1] % 16 = a
      OBVIOUS
    <2> QED BY <2>1, <2>2 DEF Continuations, LeadBits
  <1>2. /\ bytes[2] \in 128 .. 191 /\ bytes[2] % 64 = m
        /\ bytes[3] \in 128 .. 191 /\ bytes[3] % 64 = l
    OBVIOUS
  <1>3. PICK r : Decode("first", NoRegs, bytes[1]) = More("utf8", r) /\ Utf8Regs(r, 2, a)
    BY <1>1, Utf8First
  <1>4. PICK q : Decode("utf8", r, bytes[2]) = More("utf8", q) /\ Utf8Regs(q, 1, w)
    <2> DEFINE need == 2
               less == 1
    <2>2. Adds(need, less, a, bytes[2], w)
      BY <1>2 DEF Adds
    <2>3. Utf8Regs(r, need, a)
      BY <1>3
    <2> HIDE DEF need, less
    <2>4. /\ Decode("utf8", r, bytes[2]) = More("utf8", WithCode(r, less, w))
          /\ Utf8Regs(WithCode(r, less, w), less, w)
      BY ONLY <2>2, <2>3, Utf8Next, Zenon
    <2> QED BY <2>4 DEF less
  <1>5. From(bytes, 3, 2, More("utf8", q), e)
    BY <1>2, <1>4, Utf8LastFrom
  <1>6. From(bytes, 3, 1, More("utf8", r), e)
    BY <1>4, <1>5, FromMore
  <1> QED BY <1>3, <1>6, FromMore DEF Start

LEMMA Utf8Four ==
  ASSUME NEW bytes, NEW a \in 0 .. 4, NEW h \in 0 .. 63, NEW m \in 0 .. 63, NEW l \in 0 .. 63,
         bytes[1] = 240 + a, bytes[2] = 128 + h, bytes[3] = 128 + m, bytes[4] = 128 + l,
         NEW v \in Int, v = a * 64 + h, NEW w \in Int, w = v * 64 + m,
         NEW e, e = make_key_event(w * 64 + l, 0)
  PROVE  From(bytes, 4, 0, Start, e)
  <1>1. /\ bytes[1] \in 194 .. 244 /\ Continuations(bytes[1]) = 3 /\ LeadBits(bytes[1]) = a
    <2>1. bytes[1] \in 240 .. 244 /\ bytes[1] \notin 194 .. 223 /\ bytes[1] \notin 224 .. 239
      OBVIOUS
    <2>2. bytes[1] % 8 = a
      OBVIOUS
    <2> QED BY <2>1, <2>2 DEF Continuations, LeadBits
  <1>2. /\ bytes[2] \in 128 .. 191 /\ bytes[2] % 64 = h
        /\ bytes[3] \in 128 .. 191 /\ bytes[3] % 64 = m
        /\ bytes[4] \in 128 .. 191 /\ bytes[4] % 64 = l
    OBVIOUS
  <1>3. PICK r : Decode("first", NoRegs, bytes[1]) = More("utf8", r) /\ Utf8Regs(r, 3, a)
    BY <1>1, Utf8First
  <1>4. PICK p : Decode("utf8", r, bytes[2]) = More("utf8", p) /\ Utf8Regs(p, 2, v)
    <2> DEFINE need == 3
               less == 2
    <2>2. Adds(need, less, a, bytes[2], v)
      BY <1>2 DEF Adds
    <2>3. Utf8Regs(r, need, a)
      BY <1>3
    <2> HIDE DEF need, less
    <2>4. /\ Decode("utf8", r, bytes[2]) = More("utf8", WithCode(r, less, v))
          /\ Utf8Regs(WithCode(r, less, v), less, v)
      BY ONLY <2>2, <2>3, Utf8Next, Zenon
    <2> QED BY <2>4 DEF less
  <1>5. PICK q : Decode("utf8", p, bytes[3]) = More("utf8", q) /\ Utf8Regs(q, 1, w)
    <2> DEFINE need == 2
               less == 1
    <2>2. Adds(need, less, v, bytes[3], w)
      BY <1>2 DEF Adds
    <2>3. Utf8Regs(p, need, v)
      BY <1>4
    <2> HIDE DEF need, less
    <2>4. /\ Decode("utf8", p, bytes[3]) = More("utf8", WithCode(p, less, w))
          /\ Utf8Regs(WithCode(p, less, w), less, w)
      BY ONLY <2>2, <2>3, Utf8Next, Zenon
    <2> QED BY <2>4 DEF less
  <1>6. From(bytes, 4, 3, More("utf8", q), e)
    BY <1>2, <1>5, Utf8LastFrom
  <1>7. From(bytes, 4, 2, More("utf8", p), e)
    BY <1>5, <1>6, FromMore
  <1>8. From(bytes, 4, 1, More("utf8", r), e)
    BY <1>4, <1>7, FromMore
  <1> QED BY <1>3, <1>8, FromMore DEF Start

LEMMA WriteThree ==
  ASSUME NEW c \in Nat, c > 2047, c <= 65535
  PROVE  cn_term_write_code(c)
           = <<224 + (c \div 4096), 128 + ((c \div 64) % 64), 128 + ((c \div 1) % 64)>>
  BY SMT DEF cn_term_write_code

LEMMA WriteFour ==
  ASSUME NEW c \in Nat, c > 65535, c <= 1114111
  PROVE  cn_term_write_code(c)
           = <<240 + (c \div 262144), 128 + ((c \div 4096) % 64), 128 + ((c \div 64) % 64),
               128 + ((c \div 1) % 64)>>
  BY SMT DEF cn_term_write_code

LEMMA Utf8Keys ==
  ASSUME NEW bytes, NEW n \in Nat, Len(bytes) = n, NEW e, Utf8Key(bytes, e)
  PROVE  From(bytes, n, 0, Start, e)
  <1> DEFINE c == e.code
  <1>1. c \in Nat /\ c > 127 /\ c <= 1114111 /\ e = make_key_event(c, 0) /\ bytes = cn_term_write_code(c)
    BY SMT DEF Utf8Key
  <1> HIDE DEF c
  <1>2. c \in Nat /\ c > 127 /\ c <= 1114111 /\ c \div 1 = c
    BY <1>1, SMT
  <1>3. CASE c <= 2047
    <2> DEFINE a == c \div 64
               l == c % 64
    <2>1. bytes = <<192 + a, 128 + l>>
      <3>1. bytes = cn_term_write_code(c)
        BY <1>1, SMT
      <3>2. cn_term_write_code(c) = <<192 + (c \div 64), 128 + ((c \div 1) % 64)>>
        <4>1. c \in Nat /\ c > 127 /\ c <= 2047
          BY <1>2, <1>3, SMT
        <4> QED BY ONLY <4>1, SMT DEF cn_term_write_code
      <3> QED BY <1>2, <3>1, <3>2, SMT
    <2>2. n = 2 /\ bytes[1] = 192 + a /\ bytes[2] = 128 + l
      BY <2>1, SMT
    <2>3. a \in 2 .. 31 /\ l \in 0 .. 63 /\ c = a * 64 + l
      BY <1>2, <1>3, SMT
    <2> HIDE DEF a, l
    <2>4. e = make_key_event(a * 64 + l, 0)
      BY <1>1, <2>3, SMT
    <2>5. From(bytes, 2, 0, Start, e)
      BY <2>2, <2>3, <2>4, Utf8Two
    <2> QED BY <2>2, <2>5
  <1>4. CASE c > 2047 /\ c <= 65535
    <2> DEFINE a == c \div 4096
               w == c \div 64
               m == w % 64
               l == c % 64
    <2>1. bytes = <<224 + a, 128 + m, 128 + l>>
      <3>1. bytes = cn_term_write_code(c)
        BY <1>1, SMT
      <3>2. cn_term_write_code(c) = <<224 + (c \div 4096), 128 + ((c \div 64) % 64),
                                      128 + ((c \div 1) % 64)>>
        BY <1>2, <1>4, WriteThree, SMT
      <3> QED BY <1>2, <3>1, <3>2, SMT
    <2>2. n = 3 /\ bytes[1] = 224 + a /\ bytes[2] = 128 + m /\ bytes[3] = 128 + l
      BY <2>1, SMT
    <2>3. a \in 0 .. 15 /\ m \in 0 .. 63 /\ l \in 0 .. 63 /\ w \in Int
      BY <1>2, <1>4, SMT
    <2>4. w = a * 64 + m /\ c = w * 64 + l
      BY <1>2, <1>4, SMT
    <2> HIDE DEF a, w, m, l
    <2>5. e = make_key_event(w * 64 + l, 0)
      BY <1>1, <2>4, SMT
    <2>6. From(bytes, 3, 0, Start, e)
      BY ONLY <2>2, <2>3, <2>4, <2>5, Utf8Three
    <2> QED BY <2>2, <2>6
  <1>5. CASE c > 65535
    <2> DEFINE a == c \div 262144
               v == c \div 4096
               w == c \div 64
               h == v % 64
               m == w % 64
               l == c % 64
    <2>1. bytes = <<240 + a, 128 + h, 128 + m, 128 + l>>
      <3>1. bytes = cn_term_write_code(c)
        BY <1>1, SMT
      <3>2. cn_term_write_code(c) = <<240 + (c \div 262144), 128 + ((c \div 4096) % 64),
                                      128 + ((c \div 64) % 64), 128 + ((c \div 1) % 64)>>
        BY <1>2, <1>5, WriteFour, SMT
      <3> QED BY <1>2, <3>1, <3>2, SMT
    <2>2. /\ n = 4 /\ bytes[1] = 240 + a /\ bytes[2] = 128 + h /\ bytes[3] = 128 + m
          /\ bytes[4] = 128 + l
      BY <2>1, SMT
    <2>3. /\ a \in 0 .. 4 /\ h \in 0 .. 63 /\ m \in 0 .. 63 /\ l \in 0 .. 63
          /\ v \in Int /\ w \in Int
      BY <1>2, <1>5, SMT
    <2>4. v = a * 64 + h /\ w = v * 64 + m /\ c = w * 64 + l
      BY <1>2, <1>5, SMT
    <2> HIDE DEF a, v, w, h, m, l
    <2>5. e = make_key_event(w * 64 + l, 0)
      BY <1>1, <2>4, SMT
    <2>6. From(bytes, 4, 0, Start, e)
      BY ONLY <2>2, <2>3, <2>4, <2>5, Utf8Four
    <2> QED BY <2>2, <2>6
  <1> QED BY <1>1, <1>3, <1>4, <1>5, SMT

-----------------------------------------------------------------------------
(* Every key.                                                                 *)

LEMMA FromRegisters ==
  ASSUME NEW bytes, NEW n \in Nat, NEW i \in Nat, i <= n, NEW s, s.at # "idle", NEW e,
         From(bytes, n, i, s, e)
  PROVE  From(bytes, n, i, More(s.at, s.reg), e)
  <1> DEFINE m == More(s.at, s.reg)
  <1>1. m.at = s.at /\ m.reg = s.reg
    BY MoreFields
  <1> HIDE DEF m
  <1>2. CASE i = n
    <2>1. Ends(s, e)
      BY <1>2, FromLast
    <2>2. Ends(m, e)
      BY <1>1, <2>1 DEF Ends
    <2> QED BY <1>2, <2>2, FromEnd DEF m
  <1>3. CASE i < n
    <2>1. From(bytes, n, i + 1, Decode(s.at, s.reg, bytes[i + 1]), e)
      BY <1>3, FromNext
    <2>2. From(bytes, n, i, m, e)
      BY <1>1, <1>3, <2>1, FromStep
    <2> QED BY <2>2 DEF m
  <1> QED BY <1>2, <1>3

\* The end marker read as a key is a key the decoder does not know.
LEMMA EndMarkDecodes ==
  ASSUME NEW bytes, bytes = EndMark
  PROVE  From(bytes, 6, 0, Start, unknown_event(0))
  <1>1. /\ bytes[1] = 27 /\ bytes[2] = 91 /\ bytes[3] = 50 /\ bytes[4] = 48 /\ bytes[5] = 49
        /\ bytes[6] = 126
    BY DEF EndMark
  <1>2. Digits(bytes, 3, 5)
    BY <1>1 DEF Digits
  <1>3. Number(bytes, 3, 5) = 201
    <2>1. 3 + 1 = 4 /\ 3 + 2 = 5
      OBVIOUS
    <2> QED BY <1>1, <2>1 DEF Number
  <1>4. Decode("csi", WithNumber(NoRegs, 201), bytes[6]) = Answer(unknown_event(0))
    <2> DEFINE r == WithNumber(NoRegs, 201)
    <2>1. First(r) = 201
      BY ParamFacts
    <2>2. 126 \notin DOMAIN ArrowKey /\ 201 \notin DOMAIN TildeKey /\ ~Digit(126)
      BY DEF ArrowKey, TildeKey, Digit
    <2> HIDE DEF r
    <2>3. cn_term_parse_csi(r, 126) = Answer(unknown_event(0))
      BY <2>1, <2>2 DEF cn_term_parse_csi, First
    <2> QED BY <1>1, <2>3, DecodeLoops DEF r
  <1> DEFINE e == unknown_event(0)
             v == 201
  <1>5. v = 201 /\ Decode("csi", WithNumber(NoRegs, v), bytes[6]) = Answer(e)
    BY <1>4
  <1> HIDE DEF e, v
  <1>6. From(bytes, 6, 5, More("csi", WithNumber(NoRegs, v)), e)
    BY <1>5, FromAnswer
  <1>7. NumberLoop("csifirst", "csi") /\ 3 = 2 + 1 /\ 6 \in Nat /\ 2 \in Nat /\ 5 \in Nat /\ 5 <= 6
    BY DEF NumberLoop
  <1>8. NoRegs \in Regs /\ NoRegs.current = 0
    BY NoRegsFacts
  <1>9. From(bytes, 6, 5, More("csi", WithNumber(NoRegs, Number(bytes, 3, 5))), e)
    BY <1>3, <1>5, <1>6
  <1>10. From(bytes, 6, 2, More("csifirst", NoRegs), e)
    BY ONLY <1>2, <1>7, <1>8, <1>9, NumberFrom
  <1> QED BY <1>1, <1>10, FromBracket DEF e

LEMMA KeyLength ==
  ASSUME NEW k \in Keys
  PROVE  /\ KeyBytes[k] \in Seq(0 .. 255) /\ Len(KeyBytes[k]) \in Nat /\ Len(KeyBytes[k]) >= 1
         /\ DOMAIN KeyBytes[k] = 1 .. Len(KeyBytes[k])
  BY KeysAssumption

\* The decoder turns the bytes of each key into the event of that key.
LEMMA KeysDecode ==
  ASSUME NEW k \in Keys, k # PastedKey
  PROVE  From(KeyBytes[k], Len(KeyBytes[k]), 0, Start, KeyEvent[k])
  <1>1. CASE k = PasteKey
    <2>1. KeyBytes[k] = <<27, 91, 50, 48, 48, 126>> /\ KeyEvent[k] = make_paste_event
      BY <1>1, TerminalAssumption
    <2>2. Len(KeyBytes[k]) = 6
      BY <2>1
    <2> QED BY <2>1, <2>2, PasteOpens
  <1>2. CASE k # PasteKey
    <2> DEFINE bytes == KeyBytes[k]
               n == Len(bytes)
    <2>1. XtermKey(bytes, KeyEvent[k])
      BY <1>2, TerminalAssumption
    <2>2. n \in Nat /\ n = Len(bytes) /\ DOMAIN bytes = 1 .. n
      BY KeyLength
    <2> HIDE DEF bytes, n
    <2>3. From(bytes, n, 0, Start, KeyEvent[k])
      <3>1. CASE PlainKey(bytes, KeyEvent[k])
        BY <2>2, <3>1, PlainKeys
      <3>2. CASE Utf8Key(bytes, KeyEvent[k])
        BY <2>2, <3>2, Utf8Keys
      <3>3. CASE CursorKey(bytes, KeyEvent[k])
        BY <2>2, <3>3, CursorKeys
      <3>4. CASE NumberedKey(bytes, KeyEvent[k])
        BY <2>2, <3>4, NumberedKeys
      <3>5. CASE FunctionKey(bytes, KeyEvent[k])
        BY <2>2, <3>5, FunctionKeys
      <3>6. CASE MouseKey(bytes, KeyEvent[k])
        BY <2>2, <3>6, MouseKeys
      <3> QED BY <2>1, <3>1, <3>2, <3>3, <3>4, <3>5, <3>6 DEF XtermKey
    <2> QED BY <2>3 DEF bytes, n
  <1> QED BY <1>1, <1>2

EventKinds(e) == e.kind \in {"key", "mouse"}

LEMMA MadeKinds ==
  /\ \A code, mods : EventKinds(make_key_event(code, mods))
  /\ \A code, mods, row, col : EventKinds(make_mouse_event(code, mods, row, col))
  BY DEF make_key_event, make_mouse_event, make_event, EventKinds

\* Only the key that opens a paste stands for the event of a paste.
LEMMA KindOfKey ==
  ASSUME NEW k \in Keys, k # PastedKey, k # PasteKey
  PROVE  EventKinds(KeyEvent[k])
  <1> DEFINE bytes == KeyBytes[k]
             e == KeyEvent[k]
  <1>1. XtermKey(bytes, e)
    BY TerminalAssumption
  <1> HIDE DEF bytes, e
  <1>2. ASSUME PlainKey(bytes, e) PROVE EventKinds(e)
    BY <1>2, MadeKinds DEF PlainKey, TypedKey
  <1>3. ASSUME Utf8Key(bytes, e) PROVE EventKinds(e)
    <2>1. e = make_key_event(e.code, 0)
      BY <1>3, SMT DEF Utf8Key
    <2> QED BY <2>1, MadeKinds, Zenon
  <1>4. ASSUME CursorKey(bytes, e) PROVE EventKinds(e)
    BY <1>4, MadeKinds DEF CursorKey
  <1>5. ASSUME NumberedKey(bytes, e) PROVE EventKinds(e)
    BY <1>5, MadeKinds DEF NumberedKey
  <1>6. ASSUME FunctionKey(bytes, e) PROVE EventKinds(e)
    BY <1>6, MadeKinds DEF FunctionKey
  <1>7. ASSUME MouseKey(bytes, e) PROVE EventKinds(e)
    <2>1. PICK i \in DOMAIN bytes, j \in DOMAIN bytes : MouseReport(bytes, i, j, e)
      BY <1>7 DEF MouseKey
    <2>2. PICK btn, last, row, col : ButtonsMean(btn, last, row, col, e)
      BY <2>1, Zenon DEF MouseReport
    <2>3. PICK button \in 0 .. 3, shift \in 0 .. 1, alt \in 0 .. 1, ctrl \in 0 .. 1,
               motion \in 0 .. 1, wheel \in 0 .. 1 :
            /\ btn = button + 4 * shift + 8 * alt + 16 * ctrl + 32 * motion + 64 * wheel
            /\ e = make_mouse_event(
                      CASE wheel = 1 -> IF button = 1 THEN 7 ELSE 6
                        [] wheel = 0 /\ last = 109 -> 4
                        [] wheel = 0 /\ last = 77 /\ motion = 1 -> 5
                        [] OTHER -> button + 1,
                      shift + 2 * alt + 4 * ctrl, row - 1, col - 1)
      BY <2>2, Zenon DEF ButtonsMean
    <2> QED BY <2>3, MadeKinds
  <1>8. EventKinds(e)
    BY <1>1, <1>2, <1>3, <1>4, <1>5, <1>6, <1>7 DEF XtermKey
  <1> QED BY <1>8 DEF e

-----------------------------------------------------------------------------
(* The bytes that were not read yet.                                          *)

SuffixOf(q, bytes) ==
  /\ Len(q) <= Len(bytes)
  /\ \A j \in 1 .. Len(q) : q[j] = bytes[Len(bytes) - Len(q) + j]

Bytes == Seq(0 .. 255)

LEMMA SuffixEnds ==
  ASSUME NEW bytes \in Bytes
  PROVE  SuffixOf(<<>>, bytes) /\ SuffixOf(bytes, bytes)
  <1>1. Len(bytes) \in Nat
    BY LenProperties DEF Bytes
  <1>2. SuffixOf(<<>>, bytes)
    BY <1>1 DEF SuffixOf
  <1>3. SuffixOf(bytes, bytes)
    BY <1>1 DEF SuffixOf
  <1> QED BY <1>2, <1>3

LEMMA SuffixWhole ==
  ASSUME NEW q \in Bytes, NEW bytes \in Bytes, SuffixOf(q, bytes), Len(q) = Len(bytes)
  PROVE  q = bytes
  <1>1. Len(q) \in Nat /\ Len(bytes) \in Nat
    BY LenProperties DEF Bytes
  <1>2. \A j \in 1 .. Len(q) : q[j] = bytes[j]
    BY <1>1 DEF SuffixOf
  <1> QED BY <1>2, SeqEqual DEF Bytes

\* Reading a byte.
LEMMA SuffixNext ==
  ASSUME NEW q \in Bytes, NEW bytes \in Bytes, SuffixOf(q, bytes), q # <<>>,
         NEW i, i = Len(bytes) - Len(q)
  PROVE  /\ i \in Nat /\ i < Len(bytes) /\ Len(bytes) \in Nat
         /\ Len(q) \in Nat /\ Len(q) >= 1
         /\ Head(q) = bytes[i + 1] /\ Head(q) \in 0 .. 255
         /\ Tail(q) \in Bytes /\ Len(Tail(q)) = Len(q) - 1
         /\ Len(bytes) - Len(Tail(q)) = i + 1
         /\ SuffixOf(Tail(q), bytes)
  <1> DEFINE n == Len(bytes)
             l == Len(q)
  <1>1. l \in Nat /\ n \in Nat /\ l # 0
    BY LenProperties, EmptySeq DEF Bytes
  <1>2. /\ Tail(q) \in Bytes /\ Len(Tail(q)) = l - 1 /\ Head(q) \in 0 .. 255
        /\ \A j \in 1 .. l - 1 : Tail(q)[j] = q[j + 1]
    BY HeadTailProperties DEF Bytes
  <1>3. Head(q) = q[1]
    BY DEF Bytes
  <1>4. l <= n /\ \A j \in 1 .. l : q[j] = bytes[n - l + j]
    BY DEF SuffixOf
  <1> HIDE DEF n, l
  <1>5. i = n - l
    BY DEF n, l
  <1>6. i \in Nat /\ i < n /\ n - (l - 1) = i + 1
    BY <1>1, <1>4, <1>5
  <1>7. Head(q) = bytes[i + 1]
    <2>1. 1 \in 1 .. l /\ n - l + 1 = i + 1
      BY <1>1, <1>5
    <2>2. q[1] = bytes[n - l + 1]
      BY <1>4, <2>1
    <2> QED BY <1>3, <2>1, <2>2
  <1>8. SuffixOf(Tail(q), bytes)
    <2>1. Len(Tail(q)) <= n
      BY <1>1, <1>2, <1>4
    <2>2. ASSUME NEW j \in 1 .. l - 1
          PROVE  Tail(q)[j] = bytes[n - (l - 1) + j]
      <3>1. j + 1 \in 1 .. l /\ n - l + (j + 1) = n - (l - 1) + j
        BY <1>1
      <3>2. q[j + 1] = bytes[n - l + (j + 1)]
        BY <1>4, <3>1
      <3> QED BY <1>2, <3>1, <3>2
    <2> QED BY <1>2, <2>1, <2>2 DEF SuffixOf, n
  <1> QED BY <1>1, <1>2, <1>6, <1>7, <1>8 DEF n, l

-----------------------------------------------------------------------------
(* A key of which some bytes were read.                                       *)

\* The decoder is in the state s and the bytes q of the key are not read yet: it
\* will come to the event of the key.  The text of a paste, read as keys, does not
\* open a paste with its last byte.
Halfway(k, q, s) ==
  LET n == Len(KeyBytes[k])
      i == n - Len(q)
  IN /\ k # PastedKey => From(KeyBytes[k], n, i, s, KeyEvent[k])
     /\ k = PastedKey => \/ Len(q) > 5
                         \/ n = 6 /\ From(KeyBytes[k], n, i, s, unknown_event(0))

LEMMA PastedFacts ==
  ASSUME NEW bytes, bytes = KeyBytes[PastedKey], NEW n, n = Len(bytes)
  PROVE  /\ bytes \in Bytes /\ n \in Nat /\ n >= 6
         /\ PastedText \in Bytes /\ Len(PastedText) = n - 6
         /\ \A j \in 1 .. n - 6 : bytes[j] = PastedText[j]
         /\ \A j \in 1 .. 6 : bytes[n - 6 + j] = EndMark[j]
         /\ EndMark \in Bytes /\ Len(EndMark) = 6
  <1>1. EndMark \in Bytes /\ Len(EndMark) = 6
    BY DEF EndMark, Bytes
  <1>2. PastedText \in Bytes /\ bytes = PastedText \o EndMark
    BY TerminalAssumption DEF Bytes
  <1>3. Len(PastedText) \in Nat
    BY <1>2, LenProperties DEF Bytes
  <1>4. /\ bytes \in Bytes /\ n = Len(PastedText) + 6
        /\ \A j \in 1 .. Len(PastedText) + 6 :
             bytes[j] = IF j <= Len(PastedText) THEN PastedText[j] ELSE EndMark[j - Len(PastedText)]
    <2> DEFINE S == 0 .. 255
    <2>1. PastedText \in Seq(S) /\ EndMark \in Seq(S)
      BY <1>1, <1>2 DEF Bytes
    <2> HIDE DEF S
    <2>2. /\ PastedText \o EndMark \in Seq(S)
          /\ Len(PastedText \o EndMark) = Len(PastedText) + Len(EndMark)
          /\ \A j \in 1 .. Len(PastedText) + Len(EndMark) :
               (PastedText \o EndMark)[j]
                 = IF j <= Len(PastedText) THEN PastedText[j] ELSE EndMark[j - Len(PastedText)]
      BY ONLY <2>1, ConcatProperties
    <2>3. bytes \in Bytes
      BY <1>2, <2>2 DEF S, Bytes
    <2> QED BY <1>1, <1>2, <2>2, <2>3
  <1>5. n \in Nat /\ n >= 6 /\ Len(PastedText) = n - 6
    BY <1>3, <1>4
  <1>6. \A j \in 1 .. n - 6 : bytes[j] = PastedText[j]
    BY <1>3, <1>4, <1>5
  <1>7. \A j \in 1 .. 6 : bytes[n - 6 + j] = EndMark[j]
    <2> TAKE j \in 1 .. 6
    <2>1. /\ n - 6 + j \in 1 .. Len(PastedText) + 6 /\ ~(n - 6 + j <= Len(PastedText))
          /\ (n - 6 + j) - Len(PastedText) = j
      BY <1>3, <1>5
    <2> QED BY <1>4, <2>1
  <1> QED BY <1>1, <1>2, <1>4, <1>5, <1>6, <1>7

\* The marker alone, when nothing was pasted.
LEMMA NothingPasted ==
  ASSUME Len(KeyBytes[PastedKey]) = 6
  PROVE  From(KeyBytes[PastedKey], 6, 0, Start, unknown_event(0))
  <1> DEFINE bytes == KeyBytes[PastedKey]
             n == Len(bytes)
  <1>1. /\ bytes \in Bytes /\ n = 6 /\ EndMark \in Bytes /\ Len(EndMark) = 6
        /\ \A j \in 1 .. 6 : bytes[n - 6 + j] = EndMark[j]
    BY PastedFacts
  <1> HIDE DEF bytes
  <1>2. \A j \in 1 .. 6 : bytes[j] = EndMark[j]
    <2> TAKE j \in 1 .. 6
    <2> HIDE DEF n
    <2>1. n - 6 + j = j
      BY <1>1
    <2> QED BY <1>1, <2>1
  <1>3. bytes = EndMark
    BY <1>1, <1>2, SeqEqual DEF Bytes
  <1> QED BY <1>3, EndMarkDecodes DEF bytes

\* A byte of a sequence that comes to the event of its key.
LEMMA FromByte ==
  ASSUME NEW bytes, NEW n \in Nat, NEW i \in Nat, i < n, NEW at, NEW r, NEW e,
         From(bytes, n, i, More(at, r), e),
         NEW next, next = Decode(at, r, bytes[i + 1])
  PROVE  /\ next.at = "idle" => i + 1 = n /\ next.event = e
         /\ next.at # "idle" => From(bytes, n, i + 1, More(next.at, next.reg), e)
  <1> DEFINE s == More(at, r)
             j == i + 1
  <1>1. s.at = at /\ s.reg = r
    BY MoreFields
  <1> HIDE DEF s
  <1>2. From(bytes, n, j, next, e)
    BY <1>1, FromNext DEF s
  <1>3. j \in Nat /\ j <= n
    OBVIOUS
  <1> HIDE DEF j
  <1>4. CASE j < n
    <2>1. next.at # "idle"
      BY <1>2, <1>3, <1>4, FromNext
    <2> QED BY <1>2, <1>3, <2>1, FromRegisters DEF j
  <1>5. CASE j = n
    <2>1. Ends(next, e)
      BY <1>2, <1>3, <1>5, FromLast
    <2>2. next.at = "idle" => next.event = e
      BY <2>1 DEF Ends
    <2>3. next.at # "idle" => From(bytes, n, j, More(next.at, next.reg), e)
      BY <1>2, <1>3, FromRegisters
    <2> QED BY <1>5, <2>2, <2>3 DEF j
  <1> QED BY <1>3, <1>4, <1>5

\* The first byte of a key, whatever the registers hold.
LEMMA FirstRegisters ==
  ASSUME NEW r, NEW b
  PROVE  Decode("first", r, b) = Decode("first", NoRegs, b)
  BY DecodeLoops

-----------------------------------------------------------------------------
(* One byte more of a key.                                                    *)

\* The call answers with the event e and leaves the bytes q of the key unread.
Answered(k, q, e) ==
  /\ k # PastedKey => e = KeyEvent[k] /\ q = <<>>
  /\ k = PastedKey /\ e.kind = "paste" => q # <<>> /\ Len(q) < Len(KeyBytes[k])

\* The decoder has answered with the event and nothing is left, or is on the way.
Comes(bytes, n, left, next, e) ==
  /\ next.at = "idle" => left = <<>> /\ next.event = e
  /\ next.at # "idle" => From(bytes, n, n - Len(left), More(next.at, next.reg), e)

LEMMA NextOfKey ==
  ASSUME NEW k \in Keys, NEW bytes, bytes = KeyBytes[k], NEW n, n = Len(bytes),
         NEW q \in Bytes, SuffixOf(q, bytes), q # <<>>,
         NEW i, i = n - Len(q), NEW at, NEW r, NEW e,
         From(bytes, n, i, More(at, r), e),
         NEW next, next = Decode(at, r, Head(q)), NEW left, left = Tail(q)
  PROVE  Comes(bytes, n, left, next, e)
  <1>1. bytes \in Bytes
    BY KeyLength DEF Bytes
  <1>2. /\ i \in Nat /\ i < n /\ n \in Nat /\ Len(q) \in Nat /\ Head(q) = bytes[i + 1]
        /\ Tail(q) \in Bytes /\ Len(Tail(q)) = Len(q) - 1 /\ n - Len(Tail(q)) = i + 1
    BY <1>1, SuffixNext
  <1>3. next = Decode(at, r, bytes[i + 1])
    BY <1>2
  <1>4. /\ next.at = "idle" => i + 1 = n /\ next.event = e
        /\ next.at # "idle" => From(bytes, n, i + 1, More(next.at, next.reg), e)
    <2>1. next = Decode(at, r, bytes[i + 1]) /\ i \in Nat /\ i < n /\ n \in Nat
      BY <1>2, <1>3
    <2> QED BY ONLY <2>1, FromByte, From(bytes, n, i, More(at, r), e)
  <1>5. CASE next.at = "idle"
    <2>1. Len(Tail(q)) = 0
      BY <1>2, <1>4, <1>5
    <2>2. Tail(q) = <<>>
      BY <1>2, <2>1, EmptySeq DEF Bytes
    <2> QED BY <1>4, <1>5, <2>2 DEF Comes
  <1>6. CASE next.at # "idle"
    BY <1>2, <1>4, <1>6 DEF Comes
  <1> QED BY <1>5, <1>6 DEF Comes

LEMMA ReadNext ==
  ASSUME NEW k \in Keys, NEW q \in Bytes, SuffixOf(q, KeyBytes[k]), q # <<>>,
         NEW at \in Waiting \cup {"first"}, NEW r,
         at = "first" => q = KeyBytes[k],
         at # "first" => q # KeyBytes[k] /\ Halfway(k, q, More(at, r)),
         NEW next, next = Decode(at, r, Head(q))
  PROVE  /\ next.at = "idle" => Answered(k, Tail(q), next.event)
         /\ next.at # "idle" =>
              next.at \in Waiting /\ Halfway(k, Tail(q), More(next.at, next.reg))
  <1> DEFINE bytes == KeyBytes[k]
             n == Len(bytes)
             i == n - Len(q)
             left == Tail(q)
  <1>1. bytes \in Bytes /\ n >= 1
    BY KeyLength DEF Bytes
  <1>2. /\ i \in Nat /\ i < n /\ n \in Nat /\ Len(q) \in Nat /\ Len(q) >= 1
        /\ Head(q) = bytes[i + 1] /\ left \in Bytes /\ Len(left) = Len(q) - 1
    BY <1>1, SuffixNext
  <1>3. next.at # "idle" => next.at \in Waiting
    BY DecodePlaces
  <1>0. /\ bytes = KeyBytes[k] /\ n = Len(bytes) /\ i = n - Len(q) /\ left = Tail(q)
        /\ SuffixOf(q, bytes)
    OBVIOUS
  <1> HIDE DEF bytes, n, i, left
  <1>4. at = "first" => i = 0
    BY <1>0, <1>2
  <1>5. ASSUME NEW e, at = "first" => From(bytes, n, 0, Start, e),
               at # "first" => From(bytes, n, i, More(at, r), e)
        PROVE  Comes(bytes, n, left, next, e)
    <2>1. CASE at = "first"
      <3>1. From(bytes, n, i, More(at, NoRegs), e)
        BY <1>4, <1>5, <2>1 DEF Start
      <3>2. next = Decode(at, NoRegs, Head(q))
        BY <2>1, FirstRegisters
      <3> QED BY <1>0, <1>1, <3>1, <3>2, NextOfKey, Zenon
    <2>2. CASE at # "first"
      <3>1. From(bytes, n, i, More(at, r), e) /\ next = Decode(at, r, Head(q))
        BY <1>5, <2>2
      <3> QED BY <1>0, <1>1, <3>1, NextOfKey, Zenon
    <2> QED BY <2>1, <2>2
  <1>6. CASE k # PastedKey
    <2>1. at = "first" => From(bytes, n, 0, Start, KeyEvent[k])
      BY <1>0, <1>6, KeysDecode
    <2>2. at # "first" => From(bytes, n, i, More(at, r), KeyEvent[k])
      BY <1>0, <1>6 DEF Halfway
    <2>3. /\ next.at = "idle" => left = <<>> /\ next.event = KeyEvent[k]
          /\ next.at # "idle" =>
               From(bytes, n, n - Len(left), More(next.at, next.reg), KeyEvent[k])
      BY <1>5, <2>1, <2>2 DEF Comes
    <2> QED BY <1>0, <1>3, <1>6, <2>3 DEF Answered, Halfway
  <1>7. CASE k = PastedKey
    <2>1. n >= 6 /\ \A j \in 1 .. 6 : bytes[n - 6 + j] = EndMark[j]
      BY <1>0, <1>7, PastedFacts
    <2>2. CASE Len(q) > 6 \/ (Len(q) = 6 /\ at # "first")
      <3>1. Len(left) >= 5 /\ Len(left) < n
        BY <1>0, <1>2, <2>2
      <3>2. left # <<>>
        BY <3>1
      <3>3. Answered(k, left, next.event)
        BY <1>0, <1>7, <3>1, <3>2 DEF Answered
      <3>4. next.at # "idle" => Len(left) > 5
        <4>1. CASE Len(q) > 6
          BY <1>2, <4>1
        <4>2. CASE Len(q) = 6 /\ at # "first"
          <5>1. i + 1 = n - 6 + 1
            BY <1>0, <1>2, <4>2
          <5>2. Head(q) = EndMark[1]
            BY <1>2, <2>1, <5>1
          <5>3. Head(q) = 27
            BY <5>2 DEF EndMark
          <5> QED BY <4>2, <5>3, EscapeAnswers
        <4> QED BY <2>2, <4>1, <4>2
      <3>5. next.at # "idle" => Halfway(k, left, More(next.at, next.reg))
        BY <1>0, <1>7, <3>4 DEF Halfway
      <3> QED BY <1>0, <1>3, <3>3, <3>5
    <2>3. CASE Len(q) < 6 \/ (Len(q) = 6 /\ at = "first")
      <3> DEFINE e == unknown_event(0)
      <3>1. n = 6
        <4>1. CASE at = "first"
          <5>1. Len(q) = n
            BY <1>0, <4>1
          <5> QED BY <1>2, <2>1, <2>3, <5>1
        <4>2. CASE at # "first"
          <5>1. ~(Len(q) > 5)
            BY <1>2, <2>3, <4>2
          <5> QED BY <1>0, <1>7, <4>2, <5>1 DEF Halfway
        <4> QED BY <4>1, <4>2
      <3>2. at = "first" => From(bytes, n, 0, Start, e)
        BY <1>0, <1>7, <3>1, NothingPasted
      <3>3. at # "first" => From(bytes, n, i, More(at, r), e)
        <4> SUFFICES ASSUME at # "first" PROVE From(bytes, n, i, More(at, r), e)
          OBVIOUS
        <4>1. ~(Len(q) > 5)
          BY <1>2, <2>3
        <4> QED BY <1>0, <1>7, <3>1, <4>1 DEF Halfway
      <3>4. e.kind = "key"
        BY DEF unknown_event, make_key_event, make_event
      <3> HIDE DEF e
      <3>5. /\ next.at = "idle" => left = <<>> /\ next.event = e
            /\ next.at # "idle" => From(bytes, n, n - Len(left), More(next.at, next.reg), e)
        BY <1>5, <3>2, <3>3 DEF Comes
      <3>6. next.at = "idle" => Answered(k, left, next.event)
        BY <1>0, <1>7, <3>4, <3>5 DEF Answered
      <3>7. next.at # "idle" => Halfway(k, left, More(next.at, next.reg))
        BY <1>0, <1>7, <3>1, <3>5 DEF Halfway, e
      <3> QED BY <1>0, <1>3, <3>6, <3>7
    <2> QED BY <1>2, <2>2, <2>3
  <1> QED BY <1>6, <1>7

-----------------------------------------------------------------------------
(* The text of a paste.                                                       *)

\* The bytes read so far are the first ones of what follows the opening marker.
PastedSoFar(bytes, q) ==
  /\ Len(bytes) + Len(q) = Len(KeyBytes[PastedKey])
  /\ \A j \in 1 .. Len(bytes) : bytes[j] = KeyBytes[PastedKey][j]

LEMMA PasteNext ==
  ASSUME NEW buffer \in Bytes, NEW q \in Bytes, q # <<>>,
         SuffixOf(q, KeyBytes[PastedKey]), PastedSoFar(buffer, q),
         NEW bytes, bytes = Append(buffer, Head(q))
  PROVE  /\ bytes \in Bytes /\ PastedSoFar(bytes, Tail(q))
         /\ AtEndMark(bytes) => Tail(q) = <<>> /\ WithoutMark(bytes) = PastedText
         /\ ~AtEndMark(bytes) => Tail(q) # <<>>
  <1> DEFINE all == KeyBytes[PastedKey]
             n == Len(all)
             m == Len(bytes)
             left == Tail(q)
  <1>1. /\ all \in Bytes /\ n \in Nat /\ n >= 6
        /\ PastedText \in Bytes /\ Len(PastedText) = n - 6
        /\ \A j \in 1 .. n - 6 : all[j] = PastedText[j]
        /\ \A j \in 1 .. 6 : all[n - 6 + j] = EndMark[j]
        /\ EndMark \in Bytes /\ Len(EndMark) = 6
    BY PastedFacts
  <1>2. /\ Len(q) \in Nat /\ Len(q) >= 1 /\ Head(q) = all[n - Len(q) + 1] /\ Head(q) \in 0 .. 255
        /\ left \in Bytes /\ Len(left) = Len(q) - 1
    <2> DEFINE i == n - Len(q)
    <2>1. i = Len(all) - Len(q) /\ all \in Bytes /\ SuffixOf(q, all)
      BY <1>1
    <2> HIDE DEF i, all
    <2>2. /\ Len(q) \in Nat /\ Len(q) >= 1 /\ Head(q) = all[i + 1] /\ Head(q) \in 0 .. 255
          /\ Tail(q) \in Bytes /\ Len(Tail(q)) = Len(q) - 1
      BY <2>1, SuffixNext
    <2> QED BY <2>2 DEF i
  <1>3. bytes \in Bytes /\ m = Len(buffer) + 1 /\ Len(buffer) \in Nat
        /\ \A j \in 1 .. m : bytes[j] = IF j = m THEN Head(q) ELSE buffer[j]
    BY <1>2 DEF Bytes
  <1>4. Len(buffer) + Len(q) = n /\ \A j \in 1 .. Len(buffer) : buffer[j] = all[j]
    BY DEF PastedSoFar
  <1> HIDE DEF n, m, left
  <1>5. m + Len(left) = n /\ m \in Nat /\ n - Len(q) + 1 = m
    BY <1>1, <1>2, <1>3, <1>4
  <1>10. Len(left) \in Nat
    BY <1>2
  <1>6. \A j \in 1 .. m : bytes[j] = all[j]
    <2> TAKE j \in 1 .. m
    <2>1. CASE j = m
      BY <1>2, <1>3, <1>5, <2>1
    <2>2. CASE j # m
      <3>1. j \in 1 .. Len(buffer)
        BY <1>3, <2>2
      <3> QED BY <1>3, <1>4, <2>2, <3>1
    <2> QED BY <2>1, <2>2
  <1>7. PastedSoFar(bytes, left)
    BY <1>5, <1>6 DEF PastedSoFar, n, m
  <1>8. CASE m = n
    <2>1. Len(left) = 0
      BY <1>1, <1>5, <1>8, <1>10
    <2>2. left = <<>>
      BY <1>2, <2>1, EmptySeq DEF Bytes
    <2>3. bytes = all
      BY <1>1, <1>3, <1>6, <1>8, SeqEqual DEF Bytes, m, n
    <2>4. /\ SubSeq(all, n - 5, n) \in Bytes /\ Len(SubSeq(all, n - 5, n)) = 6
          /\ \A j \in 1 .. 6 : SubSeq(all, n - 5, n)[j] = all[n - 6 + j]
      <3> DEFINE S == 0 .. 255
                 a == n - 5
      <3>1. /\ a \in 1 .. n + 1 /\ n \in 0 .. n /\ a <= n /\ n - a + 1 = 6
            /\ \A j : j \in 1 .. 6 => a + j - 1 = n - 6 + j
            /\ \A j : j \in a .. n => j \in 1 .. n
        BY <1>1
      <3>2. all \in Seq(S) /\ n = Len(all)
        BY <1>1 DEF Bytes, n
      <3>3. \A j \in a .. n : all[j] \in S
        <4> HIDE DEF S, all, a
        <4> QED BY <3>1, <3>2, LenProperties
      <3> HIDE DEF S, all
      <3>4. /\ SubSeq(all, a, n) \in Seq(S) /\ Len(SubSeq(all, a, n)) = n - a + 1
            /\ \A j \in 1 .. n - a + 1 : SubSeq(all, a, n)[j] = all[a + j - 1]
        BY <1>1, <3>1, <3>2, <3>3, SubSeqProperties
      <3> QED BY <3>1, <3>4 DEF S, Bytes
    <2>5. SubSeq(all, n - 5, n) = EndMark
      <3> DEFINE t == SubSeq(all, n - 5, n)
      <3>1. /\ t \in Bytes /\ Len(t) = Len(EndMark) /\ EndMark \in Bytes
            /\ \A j \in 1 .. 6 : t[j] = all[n - 6 + j]
        BY <1>1, <2>4
      <3> HIDE DEF t, all
      <3>2. \A j \in 1 .. Len(t) : t[j] = EndMark[j]
        BY <1>1, <3>1
      <3>3. t = EndMark
        BY <3>1, <3>2, SeqEqual DEF Bytes
      <3> QED BY <3>3 DEF t
    <2>6. AtEndMark(bytes)
      BY <1>1, <2>3, <2>5 DEF AtEndMark, n
    <2>7. WithoutMark(bytes) = PastedText
      <3>1. /\ SubSeq(all, 1, n - 6) \in Bytes /\ Len(SubSeq(all, 1, n - 6)) = n - 6
            /\ \A j \in 1 .. n - 6 : SubSeq(all, 1, n - 6)[j] = all[j]
        <4> DEFINE S == 0 .. 255
                   b == n - 6
                   a == 1
        <4>1. /\ a \in 1 .. n + 1 /\ b \in 0 .. n /\ b \in Nat /\ b - a + 1 = b
              /\ \A j : j \in 1 .. b => a + j - 1 = j
          BY <1>1
        <4>2. all \in Seq(S) /\ n = Len(all)
          BY <1>1 DEF Bytes, n
        <4> HIDE DEF S, all, b
        <4>3. /\ SubSeq(all, 1, b) \in Seq(S) /\ Len(SubSeq(all, 1, b)) = b
              /\ \A j \in 1 .. b : SubSeq(all, 1, b)[j] = all[j]
          BY <1>1, <4>1, <4>2
        <4> QED BY <4>1, <4>3 DEF S, Bytes, b
      <3>2. SubSeq(all, 1, n - 6) = PastedText
        BY <1>1, <3>1, SeqEqual DEF Bytes
      <3> QED BY <2>3, <3>2 DEF WithoutMark, n
    <2> QED BY <1>3, <1>7, <2>2, <2>6, <2>7 DEF left
  <1>9. CASE m # n
    <2>1. Len(left) # 0 /\ m <= n - 1
      BY <1>1, <1>5, <1>9, <1>10
    <2>2. left # <<>>
      BY <2>1
    <2>3. ~AtEndMark(bytes)
      <3>1. CASE m < 6
        BY <3>1 DEF AtEndMark, m
      <3>2. CASE m >= 6
        <4>1. m \in 6 .. n - 1
          BY <1>1, <1>5, <2>1, <3>2
        <4>2. SubSeq(all, m - 5, m) # EndMark
          BY <4>1, TerminalAssumption DEF n
        <4>3. SubSeq(bytes, m - 5, m) = SubSeq(all, m - 5, m)
          <5> DEFINE S == 0 .. 255
                     a == m - 5
          <5>1. a \in Nat /\ a >= 1 /\ a <= m /\ m <= n
            BY <1>5, <2>1, <3>2
          <5>2. bytes \in Seq(S) /\ all \in Seq(S) /\ m = Len(bytes) /\ n = Len(all)
            BY <1>1, <1>3 DEF Bytes, m, n
          <5> HIDE DEF S, all, a
          <5>3. a \in Int /\ m \in Int /\ (\A j : j \in a .. m => j \in 1 .. m /\ j \in 1 .. n)
            BY <1>1, <1>5, <5>1
          <5>4. (\A j \in a .. m : bytes[j] \in S) /\ (\A j \in a .. m : all[j] \in S)
            BY <5>2, <5>3, LenProperties
          <5>5. /\ SubSeq(bytes, a, m) \in Seq(S)
                /\ Len(SubSeq(bytes, a, m)) = IF a <= m THEN m - a + 1 ELSE 0
                /\ \A j \in 1 .. m - a + 1 : SubSeq(bytes, a, m)[j] = bytes[a + j - 1]
            BY ONLY <5>3, <5>4, SubSeqProperties
          <5>6. /\ SubSeq(all, a, m) \in Seq(S)
                /\ Len(SubSeq(all, a, m)) = IF a <= m THEN m - a + 1 ELSE 0
                /\ \A j \in 1 .. m - a + 1 : SubSeq(all, a, m)[j] = all[a + j - 1]
            BY ONLY <5>3, <5>4, SubSeqProperties
          <5>7. \A j \in 1 .. m - a + 1 : bytes[a + j - 1] = all[a + j - 1]
            <6> TAKE j \in 1 .. m - a + 1
            <6>1. a + j - 1 \in 1 .. m
              BY <1>5, <5>1
            <6> QED BY <1>6, <6>1 DEF all
          <5> DEFINE s == SubSeq(bytes, a, m)
                     t == SubSeq(all, a, m)
          <5>8. /\ s \in Seq(S) /\ t \in Seq(S) /\ Len(s) = Len(t) /\ Len(t) = m - a + 1
                /\ \A j \in 1 .. m - a + 1 : s[j] = t[j]
            BY <5>1, <5>5, <5>6, <5>7
          <5> HIDE DEF s, t
          <5>9. s = t
            BY <5>8, SeqEqual
          <5> QED BY <5>9 DEF s, t, a, all
        <4> QED BY <4>2, <4>3 DEF AtEndMark, m
      <3> QED BY <1>5, <3>1, <3>2
    <2> QED BY <1>3, <1>7, <2>2, <2>3 DEF left
  <1> QED BY <1>8, <1>9

-----------------------------------------------------------------------------
(* The key that is being read.                                                *)

KeyTypes == /\ pressed \in Keys /\ presses \in Nat /\ inq \in Bytes
            /\ cut \in BOOLEAN /\ buf \in Bytes /\ pc \in Places

\* Before the first byte of an event.
Between == {"poll", "rows", "cols", "commit", "first"}

\* Between two calls the last key was read to its end and its event returned; only
\* the text of a paste, read as keys, may be left halfway.
Returned ==
  /\ got.kind = "pasted" => got.text = PastedText /\ ~Inside
  /\ pressed # PastedKey /\ got.kind \in {"key", "mouse", "paste"} =>
       ~Inside /\ got = KeyEvent[pressed]
  /\ pressed = PastedKey /\ got.kind = "paste" => Inside

\* The buffer of read_paste holds what was read behind the opening marker.
InPaste ==
  \/ pressed = PasteKey /\ inq = <<>> /\ buf = <<>>
  \/ pressed = PastedKey /\ inq # <<>> /\ PastedSoFar(buf, inq)

\* What holds as long as no boundary of a key was lost.  A decoder that waits for
\* a byte may find that the next key was pressed instead.
KeyState ==
  /\ pc = "idle" => Returned
  /\ pc \in Between => ~Inside
  /\ pc \in Waiting => inq = KeyBytes[pressed] \/ Halfway(pressed, inq, More(pc, reg))
  /\ pc = "paste" => InPaste

KInv ==
  /\ SuffixOf(inq, KeyBytes[pressed])
  /\ Len(inq) = Len(KeyBytes[pressed]) => Reading
  /\ presses = 0 => inq = <<>> /\ got.kind # "paste" /\ pc # "paste"
  /\ ~cut => KeyState

LEMMA PlacesApart ==
  /\ "idle" \notin Between /\ "idle" \notin Waiting /\ "paste" \notin Between
  /\ "paste" \notin Waiting /\ "poll" \notin Waiting /\ "first" \notin Waiting
  /\ "poll" \in Between /\ "first" \in Between
  /\ \A p \in Between : p \notin Waiting
  /\ Reading <=> pc \in Waiting \cup {"first", "paste"}
  BY DEF Between, Waiting, Reading

LEMMA InitKeys == Init => KInv
  <1> SUFFICES ASSUME Init PROVE KInv
    OBVIOUS
  <1>1. /\ pressed = PasteKey /\ presses = 0 /\ inq = <<>> /\ pc = "idle" /\ got = Error
    BY DEF Init, InputInit
  <1>2. got.kind = "error"
    BY <1>1 DEF Error, make_event
  <1>3. pressed \in Keys /\ KeyBytes[pressed] \in Bytes /\ Len(KeyBytes[pressed]) >= 1
    BY <1>1, KeysAssumption, KeyLength DEF Bytes
  <1>4. SuffixOf(inq, KeyBytes[pressed]) /\ Len(inq) # Len(KeyBytes[pressed])
    BY <1>1, <1>3, SuffixEnds
  <1>5. KeyState
    BY <1>1, <1>2, PlacesApart DEF KeyState, Returned
  <1> QED BY <1>1, <1>2, <1>4, <1>5 DEF KInv

\* What is left of a key when no byte of it was read, or when it was read.
LEMMA QueueFacts ==
  ASSUME KeyTypes, KInv
  PROVE  /\ KeyBytes[pressed] \in Bytes /\ KeyBytes[pressed] # <<>>
         /\ Len(KeyBytes[pressed]) \in Nat /\ Len(inq) \in Nat
         /\ Len(inq) <= Len(KeyBytes[pressed])
         /\ inq = <<>> => Len(inq) # Len(KeyBytes[pressed])
         /\ inq # <<>> /\ ~Inside => inq = KeyBytes[pressed]
         /\ inq = KeyBytes[pressed] => Reading
  <1> DEFINE bytes == KeyBytes[pressed]
  <1>1. bytes \in Bytes /\ Len(bytes) >= 1 /\ Len(bytes) \in Nat
    BY KeyLength DEF Bytes, KeyTypes
  <1>2. Len(inq) \in Nat /\ Len(inq) <= Len(bytes)
    BY LenProperties DEF KeyTypes, KInv, Bytes, SuffixOf
  <1>3. inq # <<>> /\ ~Inside => Len(inq) = Len(bytes)
    <2> HIDE DEF bytes
    <2> QED BY <1>1, <1>2 DEF Inside, bytes
  <1>4. Len(inq) = Len(bytes) => inq = bytes
    BY <1>1, SuffixWhole DEF KeyTypes, KInv
  <1>5. inq = <<>> => Len(inq) = 0
    BY EmptySeq
  <1>6. bytes # <<>>
    BY <1>1
  <1> HIDE DEF bytes
  <1>7. inq = bytes => Reading
    BY DEF KInv, bytes
  <1> QED BY <1>1, <1>2, <1>3, <1>4, <1>5, <1>6, <1>7 DEF bytes

-----------------------------------------------------------------------------
(* The steps.                                                                 *)

\* A step that leaves the queue and what was returned as they are.
LEMMA StillKeys ==
  ASSUME KInv, UNCHANGED <<pressed, presses, inq, pc, reg, buf, got, cut>>
  PROVE  KInv'
  BY DEF KInv, KeyState, Returned, InPaste, Inside, Reading

\* A step of a poll or of a read that finds nothing: it goes on before the first
\* byte, or returns something that is not a key.
LEMMA QuietKeys ==
  ASSUME KeyTypes, KInv, UNCHANGED <<pressed, presses, inq>>, Len(inq) # Len(KeyBytes[pressed]),
         ~cut' => ~Inside, 
         \/ pc' \in Between /\ got' = got
         \/ pc' = "idle" /\ got'.kind \in {"error", "resize"}
  PROVE  KInv'
  <1>1. SuffixOf(inq', KeyBytes[pressed']) /\ Len(inq') # Len(KeyBytes[pressed'])
    BY DEF KInv
  <1>2. pc' # "paste" /\ pc' \notin Waiting
    BY PlacesApart
  <1>3. presses' = 0 => inq' = <<>> /\ got'.kind # "paste"
    BY DEF KInv
  <1>4. ~cut' => KeyState'
    BY <1>2 DEF KeyState, Returned, Inside, Between
  <1> QED BY <1>1, <1>2, <1>3, <1>4 DEF KInv

\* The key whose events are returned is one that opens a paste, if a paste opens.
LEMMA OpensPaste ==
  ASSUME NEW k \in Keys, k # PastedKey, KeyEvent[k].kind = "paste"
  PROVE  k = PasteKey
  BY KindOfKey DEF EventKinds

LEMMA ReturnedKinds ==
  ASSUME NEW k \in Keys, k # PastedKey
  PROVE  KeyEvent[k].kind \in {"key", "mouse", "paste"}
  <1>1. CASE k = PasteKey
    BY <1>1, TerminalAssumption DEF make_paste_event, make_event
  <1>2. CASE k # PasteKey
    BY <1>2, KindOfKey DEF EventKinds
  <1> QED BY <1>1, <1>2

LEMMA DecodeKeys == ASSUME KeyTypes, KInv, DecodeByte PROVE KInv'
  <1> DEFINE next == Decode(pc, reg, Head(inq))
             KB == KeyBytes[pressed]
  <1>1. /\ pc \in Waiting \cup {"first"} /\ inq # <<>> /\ inq' = Tail(inq)
        /\ UNCHANGED <<pressed, presses, buf>>
        /\ cut' = (cut \/ (pc # "first" /\ inq = KB))
    BY DEF DecodeByte, cn_term_read_byte, Waiting
  <1>2. /\ next.at = "idle" => pc' = "idle" /\ got' = next.event
        /\ next.at # "idle" => pc' = next.at /\ reg' = next.reg /\ got' = got
    BY DEF DecodeByte, Return, GoOn
  <1> DEFINE i == Len(KB) - Len(inq)
  <1>3. i = Len(KB) - Len(inq) /\ KB \in Bytes /\ inq \in Bytes /\ SuffixOf(inq, KB)
    BY QueueFacts DEF KInv, KeyTypes
  <1> HIDE DEF i
  <1>4. /\ SuffixOf(inq', KB) /\ Len(inq') = Len(inq) - 1 /\ Len(inq') \in Nat
        /\ Len(inq) <= Len(KB) /\ Len(KB) \in Nat /\ Len(inq) \in Nat
    <2>1. Tail(inq) \in Bytes /\ Len(Tail(inq)) = Len(inq) - 1 /\ SuffixOf(Tail(inq), KB)
      BY <1>1, <1>3, SuffixNext
    <2> QED BY <1>1, <2>1, QueueFacts, LenProperties DEF Bytes
  <1>5. Outcome(next, reg)
    BY <1>1, DecodeOutcome
  <1>6. ~cut' => KeyState'
    <2> SUFFICES ASSUME ~cut' PROVE KeyState'
      OBVIOUS
    <2>1. KeyState /\ (pc # "first" => inq # KB)
      BY <1>1 DEF KInv
    <2>2. pc = "first" => inq = KB
      BY <1>1, <2>1, QueueFacts, PlacesApart DEF KeyState
    <2>3. pc # "first" => Halfway(pressed, inq, More(pc, reg))
      BY <1>1, <2>1 DEF KeyState
    <2> HIDE DEF next
    <2>4. next = Decode(pc, reg, Head(inq))
      BY DEF next
    <2>5. /\ next.at = "idle" => Answered(pressed, inq', next.event)
          /\ next.at # "idle" =>
               next.at \in Waiting /\ Halfway(pressed, inq', More(next.at, next.reg))
      <3>1. pressed \in Keys
        BY DEF KeyTypes
      <3>2. /\ next.at = "idle" => Answered(pressed, Tail(inq), next.event)
            /\ next.at # "idle" =>
                 next.at \in Waiting /\ Halfway(pressed, Tail(inq), More(next.at, next.reg))
        BY ONLY <1>1, <1>3, <2>1, <2>2, <2>3, <2>4, <3>1, ReadNext
      <3> QED BY <1>1, <3>2
    <2>6. CASE next.at = "idle"
      <3>1. pc' = "idle" /\ got' = next.event /\ pressed' = pressed
        BY <1>1, <1>2, <2>6
      <3>2. got'.kind # "pasted"
        BY <1>5, <3>1 DEF Outcome
      <3>3. pressed # PastedKey => inq' = <<>> /\ got' = KeyEvent[pressed]
        BY <2>5, <2>6, <3>1 DEF Answered
      <3>4. pressed = PastedKey /\ got'.kind = "paste" => inq' # <<>> /\ Len(inq') < Len(KB)
        BY <2>5, <2>6, <3>1 DEF Answered
      <3>5. Returned'
        BY <3>1, <3>2, <3>3, <3>4 DEF Returned, Inside
      <3> QED BY <3>1, <3>5, PlacesApart DEF KeyState
    <2>7. CASE next.at # "idle"
      <3>1. pc' \in Waiting /\ Halfway(pressed', inq', More(pc', reg'))
        BY <1>1, <1>2, <2>5, <2>7
      <3> QED BY <3>1, PlacesApart DEF KeyState
    <2> QED BY <2>6, <2>7
  <1>7. presses' = 0 => FALSE
    BY <1>1 DEF KInv
  <1>8. Len(inq') # Len(KeyBytes[pressed'])
    <2> HIDE DEF KB, next
    <2>1. Len(inq') # Len(KB)
      BY <1>4
    <2> QED BY <1>1, <2>1 DEF KB
  <1>9. SuffixOf(inq', KeyBytes[pressed'])
    BY <1>1, <1>4
  <1> QED BY <1>6, <1>7, <1>8, <1>9 DEF KInv

LEMMA LateKeys == ASSUME KeyTypes, KInv, LateByte PROVE KInv'
  <1>1. /\ pc \in Waiting /\ UNCHANGED <<pressed, presses, inq>>
        /\ (inq # <<>> => Inside) /\ cut' = (cut \/ Inside)
        /\ pc' = "idle" /\ got' = LateEvent(pc)
    BY DEF LateByte, cn_term_read_byte_timeout, Return, Waiting, ttyVars
  <1>2. got'.kind \in {"key", "error"}
    BY <1>1, LateKinds
  <1>3. Len(inq) # Len(KeyBytes[pressed])
    BY <1>1, QueueFacts DEF Inside
  <1>4. ~cut' => KeyState'
    <2> SUFFICES ASSUME ~cut' PROVE KeyState'
      OBVIOUS
    <2>1. KeyState /\ ~Inside /\ inq = <<>>
      BY <1>1 DEF KInv
    <2>2. Halfway(pressed, inq, More(pc, reg))
      BY <1>1, <2>1, QueueFacts DEF KeyState
    <2>3. pressed # PastedKey => LateEvent(pc) = KeyEvent[pressed]
      <3> SUFFICES ASSUME pressed # PastedKey PROVE LateEvent(pc) = KeyEvent[pressed]
        OBVIOUS
      <3> DEFINE n == Len(KeyBytes[pressed])
                 s == More(pc, reg)
                 e == KeyEvent[pressed]
                 z == n - Len(inq)
      <3>1. From(KeyBytes[pressed], n, z, s, e)
        BY <2>2 DEF Halfway
      <3>2. n \in Nat /\ n = z
        BY <2>1, QueueFacts, EmptySeq
      <3>3. s.at = pc
        BY MoreFields
      <3> HIDE DEF n, s, e, z
      <3>4. Ends(s, e)
        BY <3>1, <3>2, FromLast
      <3> QED BY <1>1, <3>3, <3>4, PlacesApart DEF Ends, e
    <2>4. Returned'
      BY <1>1, <1>2, <2>1, <2>3 DEF Returned, Inside
    <2> QED BY <1>1, <2>4, PlacesApart DEF KeyState
  <1> QED BY <1>1, <1>2, <1>3, <1>4 DEF KInv

LEMMA PressKeys == ASSUME KeyTypes, KInv, NEW k \in Keys, Press(k) PROVE KInv'
  <1> DEFINE KB == KeyBytes[k]
  <1>1. /\ Reading /\ inq = <<>> /\ pressed' = k /\ presses' = presses + 1 /\ inq' = KB
        /\ ((k = PastedKey) <=> (presses > 0 /\ pressed = PasteKey))
        /\ UNCHANGED <<pc, reg, buf, got, cut>>
    BY DEF Press, decVars
  <1>2. KB \in Bytes /\ KB # <<>> /\ SuffixOf(KB, KB) /\ Len(KB) \in Nat
    <2>1. KB \in Bytes /\ KB # <<>>
      BY KeysAssumption DEF Bytes
    <2> HIDE DEF KB
    <2> QED BY <2>1, SuffixEnds, LenProperties DEF Bytes
  <1>3. Reading'
    BY <1>1 DEF Reading
  <1>4. presses' # 0
    BY <1>1 DEF KeyTypes
  <1>5. ~cut => KeyState'
    <2> SUFFICES ASSUME ~cut PROVE KeyState'
      OBVIOUS
    <2>1. KeyState
      BY DEF KInv
    <2>2. ~Inside'
      BY <1>1, <1>2 DEF Inside
    <2>3. pc # "idle"
      BY <1>1 DEF Reading
    <2>4. CASE pc = "paste"
      <3>1. pressed = PasteKey /\ buf = <<>>
        BY <1>1, <2>1, <2>4 DEF KeyState, InPaste
      <3>2. presses > 0
        BY <2>4 DEF KInv, KeyTypes
      <3>3. k = PastedKey
        BY <1>1, <3>1, <3>2
      <3>4. PastedSoFar(buf, KB)
        <4>1. Len(buf) = 0
          BY <3>1
        <4> HIDE DEF KB
        <4>2. KB = KeyBytes[PastedKey]
          BY <3>3 DEF KB
        <4>3. 1 .. Len(buf) = {} /\ Len(buf) + Len(KB) = Len(KB)
          BY <1>2, <4>1
        <4> QED BY <4>2, <4>3 DEF PastedSoFar
      <3>5. InPaste'
        BY <1>1, <1>2, <3>3, <3>4 DEF InPaste
      <3> QED BY <1>1, <2>4, <3>5, PlacesApart DEF KeyState
    <2>5. CASE pc # "paste"
      BY <1>1, <2>2, <2>3, <2>5 DEF KeyState
    <2> QED BY <2>4, <2>5
  <1> QED BY <1>1, <1>2, <1>3, <1>4, <1>5 DEF KInv

LEMMA ReadEventKeys ==
  ASSUME KeyTypes, KInv, NEW is_timed, cn_term_read_event(is_timed) PROVE KInv'
  <1>1. /\ pc = "idle" /\ pc' = "poll" /\ cut' = Inside
        /\ UNCHANGED <<pressed, presses, inq, got>>
    BY DEF cn_term_read_event, Idle, ttyVars
  <1>2. Len(inq) # Len(KeyBytes[pressed])
    BY <1>1 DEF KInv, Reading
  <1> QED BY <1>1, <1>2, QuietKeys, PlacesApart

LEMMA FirstByteKeys ==
  ASSUME KeyTypes, KInv, FirstByteTimeout \/ FirstByteFails PROVE KInv'
  <1>1. CASE FirstByteTimeout
    <2>1. /\ pc' = "poll" /\ cut' = (cut \/ Inside) /\ (inq # <<>> => Inside)
          /\ UNCHANGED <<pressed, presses, inq, got>>
      BY <1>1 DEF FirstByteTimeout, cn_term_read_byte_timeout, ttyVars
    <2>2. Len(inq) # Len(KeyBytes[pressed])
      BY <2>1, QueueFacts DEF Inside
    <2> QED BY <2>1, <2>2, QuietKeys, PlacesApart
  <1>2. CASE FirstByteFails
    <2>1. /\ inq = <<>> /\ pc' = "idle" /\ got' = Error
          /\ UNCHANGED <<pressed, presses, inq, cut>>
      BY <1>2 DEF FirstByteFails, cn_term_read_byte_block_fails, Return, ttyVars
    <2>2. got'.kind = "error"
      BY <2>1 DEF Error, make_event
    <2>3. ~Inside /\ Len(inq) # Len(KeyBytes[pressed])
      BY <2>1, QueueFacts DEF Inside
    <2> QED BY <2>1, <2>2, <2>3, QuietKeys
  <1> QED BY <1>1, <1>2

LEMMA PollKeys ==
  ASSUME KeyTypes, KInv, cn_term_poll_resize_event PROVE KInv'
  <1>1. /\ pc \in {"poll", "rows", "cols", "commit"} /\ UNCHANGED <<pressed, presses, inq, cut>>
    BY DEF cn_term_poll_resize_event, cn_term_install_signal_handlers, cn_term_rows,
           cn_term_columns, PollCommit, sizeOnly, ttyVars
  <1>2. Len(inq) # Len(KeyBytes[pressed])
    BY <1>1 DEF KInv, Reading
  <1>3. ~cut' => ~Inside
    BY <1>1 DEF KInv, KeyState, Between
  <1>4. Error.kind = "error" /\ make_resize_event(seen[1], seen[2]).kind = "resize"
    BY DEF Error, make_resize_event, make_event
  <1>5. CASE cn_term_install_signal_handlers
    <2>1. \/ pc' \in {"rows", "first"} /\ got' = got
          \/ pc' = "idle" /\ got' = Error
      BY <1>5 DEF cn_term_install_signal_handlers, NoResize
    <2> QED BY <1>1, <1>2, <1>3, <1>4, <2>1, QuietKeys DEF Between
  <1>6. CASE cn_term_rows \/ cn_term_columns
    <2>1. pc' \in {"cols", "commit"} /\ got' = got
      BY <1>6 DEF cn_term_rows, cn_term_columns
    <2> QED BY <1>1, <1>2, <1>3, <2>1, QuietKeys DEF Between
  <1>7. CASE PollCommit
    <2>1. \/ pc' = "first" /\ got' = got
          \/ pc' = "idle" /\ got' \in {Error, make_resize_event(seen[1], seen[2])}
      BY <1>7 DEF PollCommit, NoResize, Return
    <2> QED BY <1>1, <1>2, <1>3, <1>4, <2>1, QuietKeys DEF Between
  <1> QED BY <1>5, <1>6, <1>7 DEF cn_term_poll_resize_event

LEMMA PasteBeginKeys == ASSUME KeyTypes, KInv, PasteBegin PROVE KInv'
  <1>1. /\ pc = "idle" /\ got.kind = "paste" /\ cut' = (cut \/ Inside)
        /\ UNCHANGED <<pressed, presses, inq, reg>>
        /\ \/ got' = Error /\ pc' = "idle"
           \/ pc' = "paste" /\ buf' = <<>> /\ got' = got
    BY DEF PasteBegin, Idle, PasteOpen, ttyVars
  <1>2. Len(inq) # Len(KeyBytes[pressed])
    BY <1>1 DEF KInv, Reading
  <1>3. CASE pc' = "idle"
    <2>1. got'.kind = "error"
      BY <1>1, <1>3 DEF Error, make_event
    <2> QED BY <1>1, <1>2, <1>3, <2>1, QuietKeys
  <1>4. CASE pc' = "paste"
    <2>1. buf' = <<>> /\ got' = got
      BY <1>1, <1>4
    <2>2. presses' # 0
      BY <1>1 DEF KInv
    <2>3. ~cut' => KeyState'
      <3> SUFFICES ASSUME ~cut' PROVE KeyState'
        OBVIOUS
      <3>1. ~Inside /\ Returned
        BY <1>1 DEF KInv, KeyState
      <3>2. inq = <<>>
        BY <1>2, <3>1, QueueFacts
      <3>3. pressed # PastedKey /\ KeyEvent[pressed].kind = "paste"
        BY <1>1, <3>1 DEF Returned
      <3>4. pressed = PasteKey
        BY <3>3, OpensPaste DEF KeyTypes
      <3>5. InPaste'
        BY <1>1, <2>1, <3>2, <3>4 DEF InPaste
      <3> QED BY <1>4, <3>5, PlacesApart DEF KeyState
    <2>4. SuffixOf(inq', KeyBytes[pressed']) /\ Len(inq') # Len(KeyBytes[pressed'])
      BY <1>1, <1>2 DEF KInv
    <2> QED BY <2>2, <2>3, <2>4 DEF KInv
  <1> QED BY <1>1, <1>3, <1>4

LEMMA PasteByteKeys == ASSUME KeyTypes, KInv, PasteByte PROVE KInv'
  <1> DEFINE KB == KeyBytes[pressed]
             bytes == Append(buf, Head(inq))
             i == Len(KB) - Len(inq)
  <1>1. /\ pc = "paste" /\ inq # <<>> /\ inq' = Tail(inq)
        /\ UNCHANGED <<pressed, presses, cut>>
    BY DEF PasteByte
  <1>2. \/ pc' = "idle" /\ got' = Error
        \/ AtEndMark(bytes) /\ pc' = "idle" /\ got' = Pasted(WithoutMark(bytes))
        \/ ~AtEndMark(bytes) /\ pc' = "paste" /\ buf' = bytes /\ got' = got
    BY DEF PasteByte, Return, GoOn
  <1>3. i = Len(KB) - Len(inq) /\ KB \in Bytes /\ inq \in Bytes /\ SuffixOf(inq, KB)
    BY QueueFacts DEF KInv, KeyTypes
  <1> HIDE DEF i
  <1>4. /\ SuffixOf(inq', KB) /\ Len(inq') = Len(inq) - 1
        /\ Len(inq) <= Len(KB) /\ Len(KB) \in Nat /\ Len(inq) \in Nat
    <2>1. Len(Tail(inq)) = Len(inq) - 1 /\ SuffixOf(Tail(inq), KB)
      BY <1>1, <1>3, SuffixNext
    <2> QED BY <1>1, <2>1, QueueFacts
  <1>5. SuffixOf(inq', KeyBytes[pressed']) /\ Len(inq') # Len(KeyBytes[pressed'])
    <2> HIDE DEF KB
    <2>1. Len(inq') # Len(KB)
      BY <1>4
    <2> QED BY <1>1, <1>4, <2>1 DEF KB
  <1>6. presses' # 0
    BY <1>1 DEF KInv
  <1>7. Error.kind = "error" /\ \A t : Pasted(t).kind = "pasted" /\ Pasted(t).text = t
    BY DEF Error, make_event, Pasted
  <1>8. ~cut' => KeyState'
    <2> SUFFICES ASSUME ~cut' PROVE KeyState'
      OBVIOUS
    <2>1. pressed = PastedKey /\ PastedSoFar(buf, inq)
      BY <1>1 DEF KInv, KeyState, InPaste
    <2> HIDE DEF bytes
    <2>2. bytes = Append(buf, Head(inq)) /\ buf \in Bytes /\ SuffixOf(inq, KeyBytes[PastedKey])
      BY <1>3, <2>1 DEF bytes, KeyTypes
    <2>3. /\ PastedSoFar(bytes, Tail(inq))
          /\ AtEndMark(bytes) => Tail(inq) = <<>> /\ WithoutMark(bytes) = PastedText
          /\ ~AtEndMark(bytes) => Tail(inq) # <<>>
      BY ONLY <1>1, <1>3, <2>1, <2>2, PasteNext
    <2>4. CASE pc' = "idle" /\ got' = Error
      <3>1. Returned'
        BY <1>7, <2>4 DEF Returned
      <3> QED BY <2>4, <3>1, PlacesApart DEF KeyState
    <2>5. CASE AtEndMark(bytes) /\ pc' = "idle" /\ got' = Pasted(WithoutMark(bytes))
      <3>1. inq' = <<>> /\ got'.text = PastedText /\ got'.kind = "pasted"
        BY <1>1, <1>7, <2>3, <2>5
      <3>2. Returned'
        BY <3>1 DEF Returned, Inside
      <3> QED BY <2>5, <3>2, PlacesApart DEF KeyState
    <2>6. CASE ~AtEndMark(bytes) /\ pc' = "paste" /\ buf' = bytes
      <3>1. InPaste'
        BY <1>1, <2>1, <2>3, <2>6 DEF InPaste
      <3> QED BY <2>6, <3>1, PlacesApart DEF KeyState
    <2> QED BY <1>2, <2>4, <2>5, <2>6
  <1> QED BY <1>5, <1>6, <1>8 DEF KInv

LEMMA PasteFailsKeys == ASSUME KeyTypes, KInv, PasteFails PROVE KInv'
  <1>1. /\ inq = <<>> /\ pc' = "idle" /\ got' = Error
        /\ UNCHANGED <<pressed, presses, inq, cut>>
    BY DEF PasteFails, cn_term_read_byte_block_fails, Return, ttyVars
  <1>2. got'.kind = "error"
    BY <1>1 DEF Error, make_event
  <1>3. ~Inside /\ Len(inq) # Len(KeyBytes[pressed])
    BY <1>1, QueueFacts DEF Inside
  <1> QED BY <1>1, <1>2, <1>3, QuietKeys

LEMMA NextKeys == ASSUME KeyTypes, KInv, [Next]_vars PROVE KInv'
  <1>1. CASE UNCHANGED inputVars
    BY <1>1, StillKeys DEF inputVars, ttyVars, decVars
  <1>2. CASE cn_term_enter_raw_mode
    BY <1>2, StillKeys DEF cn_term_enter_raw_mode, ttyVars, decVars
  <1>3. CASE UserAndWindow
    <2>1. CASE \E k \in Keys : Press(k)
      BY <2>1, PressKeys
    <2>2. CASE Hangup
      BY <2>2, StillKeys DEF Hangup, decVars
    <2>3. CASE cn_term_on_sigwinch
      BY <2>3, StillKeys DEF cn_term_on_sigwinch, ttyVars, decVars
    <2> QED BY <1>3, <2>1, <2>2, <2>3 DEF UserAndWindow
  <1>4. CASE ReadEvents
    BY <1>4, ReadEventKeys, PollKeys, DecodeKeys, LateKeys, FirstByteKeys, PasteBeginKeys,
       PasteByteKeys, PasteFailsKeys DEF ReadEvents, cn_term_read_paste
  <1>5. \/ UNCHANGED inputVars \/ cn_term_enter_raw_mode \/ UserAndWindow \/ ReadEvents
    <2>1. CASE InputStep \/ TextStep \/ ScreenStep
      BY <2>1 DEF InputStep, TextStep, ScreenStep, InputNext
    <2>2. CASE ModeStep
      BY <2>2 DEF ModeStep, ModeNext, EnterFails, cn_term_leave_raw_mode,
                  cn_term_restore_raw_atexit, UserAndWindow
    <2> QED BY <2>1, <2>2 DEF Next, vars
  <1> QED BY <1>1, <1>2, <1>3, <1>4, <1>5

LEMMA KeysInvariance == Spec => [](TInv /\ KInv)
  <1>1. TInv => KeyTypes
    BY BoundsAssumption DEF TInv, TtyTypes, CallTypes, BufTypes, KeyTypes, Bytes
  <1>2. TInv /\ KInv /\ [Next]_vars => KInv'
    BY <1>1, NextKeys
  <1> QED BY <1>2, InitKeys, TypesInvariance, PTL DEF Spec

\* A call of read_event that no byte came late to and that took no bytes of two
\* keys together returns the event of the key that was pressed and has read its
\* bytes to the last one, for every set of keys an xterm may send, every order
\* of pressing them and every interleaving with the changes of size (term.c,
\* cn_term_read_event, cn_term_read_event_timeout and what they call).
THEOREM KeysAreDecoded == Spec => []DecodesKeys
  <1>1. KInv => DecodesKeys
    BY DEF KInv, KeyState, Returned, DecodesKeys, Idle
  <1> QED BY <1>1, KeysInvariance, PTL

\* read_paste returns the pasted text to the last byte and without the marker,
\* leaves nothing of it unread and never writes behind its buffer, for every
\* text that does not hold the marker (term.c, cn_term_read_paste).
THEOREM PastesAreExact == Spec => []PasteIsExact
  <1>1. KInv /\ PasteHasRoom => PasteIsExact
    BY DEF KInv, KeyState, Returned, PasteIsExact, Idle
  <1> QED BY <1>1, KeysInvariance, PasteBufferSuffices, PTL

---------------------------------------------------------------------------
(* Text: the walk of the decoder against string_width and write_code.        *)

Octets == {b \in Nat : b < 256}

\* The fold of the decoder over the bytes of a character behind its first one.
Accumulate(base, tail) == FoldLeft(LAMBDA acc, b : acc * 64 + Low6(b), base, tail)

AccUnfold(g, base, tail, s) ==
  IF s = {} THEN base ELSE g[s \ {Max(s)}] * 64 + Low6(tail[Max(s)])

AccEq(g, base, tail, D) == g = [s \in D |-> AccUnfold(g, base, tail, s)]

AccFcn(base, tail) == CHOOSE g : AccEq(g, base, tail, SUBSET DOMAIN tail)

LEMMA AccumulateIsRecursive ==
  ASSUME NEW base, NEW tail
  PROVE  Accumulate(base, tail) = AccFcn(base, tail)[DOMAIN tail]
  BY DEF Accumulate, FoldLeft, MapThenFoldSet, AccFcn, AccEq, AccUnfold

LEMMA MaxOfFinite ==
  ASSUME NEW n \in Nat, NEW s \in SUBSET (1 .. n), s # {}
  PROVE  Max(s) \in s
  <1> DEFINE T == {m \in Nat : \A x \in s : x <= m}
  <1>1. n \in T
    OBVIOUS
  <1>2. PICK m \in T : \A k \in T : m <= k
    BY <1>1, LeastNat
  <1>3. m \in s
    <2> SUFFICES ASSUME m \notin s PROVE FALSE
      OBVIOUS
    <2>1. PICK x \in s : TRUE
      OBVIOUS
    <2>2. x \in Nat /\ x >= 1 /\ x <= m /\ m \in Nat
      BY <1>2, <2>1
    <2>3. \A y \in s : y \in Nat /\ y <= m /\ y # m
      BY <1>2
    <2>4. m - 1 \in Nat
      BY <2>2
    <2>5. \A y \in s : y <= m - 1
      BY <2>3, <2>2
    <2>6. m - 1 \in T
      BY <2>4, <2>5
    <2> QED BY <1>2, <2>2, <2>6
  <1>4. \A y \in s : m >= y
    BY <1>2
  <1> QED BY <1>3, <1>4 DEF Max

LEMMA AccFcnIsSolution ==
  ASSUME NEW base, NEW tail, NEW n \in Nat, DOMAIN tail = 1 .. n
  PROVE  AccEq(AccFcn(base, tail), base, tail, SUBSET DOMAIN tail)
  <1> DEFINE D(k) == {s \in SUBSET (1 .. n) : Cardinality(s) <= k}
             P    == {k \in Nat : \E g : AccEq(g, base, tail, D(k))}
  <1>1. \A s \in SUBSET (1 .. n) : IsFiniteSet(s) /\ Cardinality(s) \in Nat
    <2>1. IsFiniteSet(1 .. n)
      BY FS_Interval
    <2> QED BY <2>1, FS_Subset, FS_CardinalityType
  <1>2. 0 \in P
    <2> DEFINE g == [s \in D(0) |-> base]
    <2>1. \A s \in D(0) : s = {}
      BY <1>1, FS_EmptySet
    <2>2. AccEq(g, base, tail, D(0))
      BY <2>1 DEF AccEq, AccUnfold
    <2> QED BY <2>2
  <1>3. ASSUME NEW k \in Nat, k \in P PROVE k + 1 \in P
    <2>1. PICK g : AccEq(g, base, tail, D(k))
      BY <1>3
    <2> DEFINE h == [s \in D(k + 1) |-> AccUnfold(g, base, tail, s)]
    <2>2. \A s \in D(k) : h[s] = g[s]
      <3>1. \A s \in D(k) : s \in D(k + 1)
        BY <1>1
      <3>2. \A s \in D(k) : g[s] = AccUnfold(g, base, tail, s)
        BY <2>1 DEF AccEq
      <3> QED BY <3>1, <3>2
    <2>3. \A s \in D(k + 1) : s # {} => s \ {Max(s)} \in D(k)
      <3> SUFFICES ASSUME NEW s \in D(k + 1), s # {} PROVE s \ {Max(s)} \in D(k)
        OBVIOUS
      <3>1. Max(s) \in s
        BY MaxOfFinite
      <3>2. IsFiniteSet(s) /\ IsFiniteSet(s \ {Max(s)}) /\ Cardinality(s) \in Nat
            /\ Cardinality(s \ {Max(s)}) \in Nat
        BY <1>1
      <3>3. Cardinality(s \ {Max(s)}) = Cardinality(s) - 1
        BY <3>1, <3>2, FS_RemoveElement
      <3>4. Cardinality(s) <= k + 1 /\ s \ {Max(s)} \in SUBSET (1 .. n)
        OBVIOUS
      <3>5. Cardinality(s \ {Max(s)}) <= k
        BY <3>2, <3>3, <3>4
      <3> QED BY <3>4, <3>5
    <2> HIDE DEF D
    <2>4. \A s \in D(k + 1) : AccUnfold(g, base, tail, s) = AccUnfold(h, base, tail, s)
      BY <2>2, <2>3 DEF AccUnfold
    <2>5. AccEq(h, base, tail, D(k + 1))
      BY <2>4 DEF AccEq
    <2> HIDE DEF h
    <2>6. \E f : AccEq(f, base, tail, D(k + 1))
      BY <2>5
    <2> QED BY <2>6
  <1>4. n \in P
    <2> HIDE DEF P
    <2> QED BY <1>2, <1>3, SetInduction
  <1>5. D(n) = SUBSET (1 .. n)
    <2>1. \A s \in SUBSET (1 .. n) : Cardinality(s) <= n
      <3>1. IsFiniteSet(1 .. n) /\ Cardinality(1 .. n) = n
        BY FS_Interval
      <3> QED BY <3>1, FS_Subset
    <2> QED BY <2>1
  <1>6. \E g : AccEq(g, base, tail, SUBSET DOMAIN tail)
    BY <1>4, <1>5
  <1> QED BY <1>6 DEF AccFcn

LEMMA MaxOfInterval ==
  ASSUME NEW n \in Nat \ {0}
  PROVE  Max(1 .. n) = n /\ (1 .. n) \ {n} = 1 .. n - 1
  <1>1. n \in 1 .. n /\ \A y \in 1 .. n : n >= y
    OBVIOUS
  <1>2. \A m \in 1 .. n : (\A y \in 1 .. n : m >= y) => m = n
    OBVIOUS
  <1> QED BY <1>1, <1>2 DEF Max

\* The value of the fold for the tails a character can have.
LEMMA AccumulateValue ==
  ASSUME NEW base, NEW tail, NEW n \in 1 .. 3, DOMAIN tail = 1 .. n
  PROVE  /\ n = 1 => Accumulate(base, tail) = base * 64 + Low6(tail[1])
         /\ n = 2 => Accumulate(base, tail) = (base * 64 + Low6(tail[1])) * 64 + Low6(tail[2])
         /\ n = 3 => Accumulate(base, tail)
                       = ((base * 64 + Low6(tail[1])) * 64 + Low6(tail[2])) * 64 + Low6(tail[3])
  <1> DEFINE f == AccFcn(base, tail)
  <1>1. \A s \in SUBSET (1 .. n) : f[s] = AccUnfold(f, base, tail, s)
    <2>1. AccEq(f, base, tail, SUBSET DOMAIN tail)
      BY AccFcnIsSolution
    <2> HIDE DEF f
    <2> QED BY <2>1 DEF AccEq
  <1>2. Accumulate(base, tail) = f[1 .. n]
    BY AccumulateIsRecursive
  <1> HIDE DEF f
  <1>3. f[{}] = base
    BY <1>1 DEF AccUnfold
  <1>4. ASSUME NEW k \in 1 .. n
        PROVE  f[1 .. k] = f[1 .. k - 1] * 64 + Low6(tail[k])
    <2>1. 1 .. k \in SUBSET (1 .. n) /\ 1 .. k # {} /\ k \in Nat \ {0}
      OBVIOUS
    <2>2. Max(1 .. k) = k /\ (1 .. k) \ {k} = 1 .. k - 1
      BY <2>1, MaxOfInterval
    <2>3. f[1 .. k] = AccUnfold(f, base, tail, 1 .. k)
      BY <1>1, <2>1
    <2> QED BY <2>1, <2>2, <2>3 DEF AccUnfold
  <1>5. 1 .. 1 - 1 = {} /\ 2 - 1 = 1 /\ 3 - 1 = 2 /\ 1 \in 1 .. n
    OBVIOUS
  <1>6. f[1 .. 1] = base * 64 + Low6(tail[1])
    BY <1>3, <1>4, <1>5, Zenon
  <1>7. 2 \in 1 .. n => f[1 .. 2] = (base * 64 + Low6(tail[1])) * 64 + Low6(tail[2])
    BY <1>4, <1>5, <1>6, Zenon
  <1>8. 3 \in 1 .. n => f[1 .. 3] = ((base * 64 + Low6(tail[1])) * 64 + Low6(tail[2])) * 64
                                      + Low6(tail[3])
    <2>1. 3 \in 1 .. n => 2 \in 1 .. n
      OBVIOUS
    <2> QED BY <1>4, <1>5, <1>7, <2>1, Zenon
  <1>9. (n >= 2 => 2 \in 1 .. n) /\ (n >= 3 => 3 \in 1 .. n)
    OBVIOUS
  <1>10. /\ n = 1 => Accumulate(base, tail) = f[1 .. 1]
         /\ n = 2 => Accumulate(base, tail) = f[1 .. 2]
         /\ n = 3 => Accumulate(base, tail) = f[1 .. 3]
    BY <1>2
  <1> QED BY <1>6, <1>7, <1>8, <1>9, <1>10

\* The code of a character is a number.
LEMMA CodeIsNumber ==
  ASSUME NEW a \in Int, NEW b \in Int, NEW c \in Int, NEW d \in Int
  PROVE  /\ TwoBytes(a, b) \in Int /\ ThreeBytes(a, b, c) \in Int
         /\ FourBytes(a, b, c, d) \in Int
  <1>1. /\ Low6(b) \in Int /\ Low6(c) \in Int /\ Low6(d) \in Int
        /\ a % 32 \in Int /\ a % 16 \in Int /\ a % 8 \in Int
    BY DEF Low6
  <1> QED BY <1>1 DEF TwoBytes, ThreeBytes, FourBytes

LEMMA ByteIsInt == \A b \in Octets : b \in Int
  BY DEF Octets

\* The five cases of a step of string_width.
LEMMA StepCases ==
  ASSUME NEW value, NEW i, value[i] \in Int
  PROVE  /\ value[i] < 128 => WidthStep(value, i) = [code |-> value[i], step |-> 1]
         /\ value[i] \in 194 .. 223 /\ Follow(value, i, 1) =>
              WidthStep(value, i) = [code |-> TwoBytes(value[i], value[i + 1]), step |-> 1 + 1]
         /\ value[i] \in 224 .. 239 /\ Follow(value, i, 2) =>
              WidthStep(value, i)
                = [code |-> ThreeBytes(value[i], value[i + 1], value[i + 2]), step |-> 2 + 1]
         /\ value[i] \in 240 .. 244 /\ Follow(value, i, 3) =>
              WidthStep(value, i)
                = [code |-> FourBytes(value[i], value[i + 1], value[i + 2], value[i + 3]), step |-> 3 + 1]
         /\ /\ ~(value[i] < 128)
            /\ ~(value[i] \in 194 .. 223 /\ Follow(value, i, 1))
            /\ ~(value[i] \in 224 .. 239 /\ Follow(value, i, 2))
            /\ ~(value[i] \in 240 .. 244 /\ Follow(value, i, 3))
            => WidthStep(value, i) = [code |-> 63, step |-> 1]
  <1>2. ASSUME value[i] < 128 PROVE WidthStep(value, i) = [code |-> value[i], step |-> 1]
    BY <1>2, SMT DEF WidthStep
  <1>3. ASSUME value[i] \in 194 .. 223, Follow(value, i, 1)
        PROVE  WidthStep(value, i) = [code |-> TwoBytes(value[i], value[i + 1]), step |-> 1 + 1]
    BY <1>3, SMT DEF WidthStep
  <1>4. ASSUME value[i] \in 224 .. 239, Follow(value, i, 2)
        PROVE  WidthStep(value, i)
                 = [code |-> ThreeBytes(value[i], value[i + 1], value[i + 2]), step |-> 2 + 1]
    BY <1>4, SMT DEF WidthStep
  <1>5. ASSUME value[i] \in 240 .. 244, Follow(value, i, 3)
        PROVE  WidthStep(value, i)
                 = [code |-> FourBytes(value[i], value[i + 1], value[i + 2], value[i + 3]), step |-> 3 + 1]
    BY <1>5, SMT DEF WidthStep
  <1>6. ASSUME ~(value[i] < 128), ~(value[i] \in 194 .. 223 /\ Follow(value, i, 1)),
               ~(value[i] \in 224 .. 239 /\ Follow(value, i, 2)),
               ~(value[i] \in 240 .. 244 /\ Follow(value, i, 3))
        PROVE  WidthStep(value, i) = [code |-> 63, step |-> 1]
    BY <1>6, SMT DEF WidthStep
  <1> QED BY <1>2, <1>3, <1>4, <1>5, <1>6

\* Every step of string_width stays inside the string.
LEMMA StepInside ==
  ASSUME NEW value \in Seq(Octets), NEW i \in 1 .. Len(value)
  PROVE  /\ WidthStep(value, i).step \in 1 .. 4
         /\ i + WidthStep(value, i).step <= Len(value) + 1
         /\ WidthStep(value, i).code \in Int
  <1> DEFINE first == value[i]
  <1>1. first \in Int /\ Len(value) \in Nat /\ i \in Nat
    <2>1. first \in Octets /\ Len(value) \in Nat
      BY ElementOfSeq
    <2> QED BY <2>1, ByteIsInt
  <1>2. \A n \in 1 .. 3 : Follow(value, i, n) =>
          i + n <= Len(value) /\ \A k \in 1 .. n : value[i + k] \in Int
    <2> SUFFICES ASSUME NEW n \in 1 .. 3, Follow(value, i, n), NEW k \in 1 .. n
                 PROVE  i + n <= Len(value) /\ value[i + k] \in Int
      BY DEF Follow
    <2>1. i + n <= Len(value)
      BY DEF Follow
    <2>2. i + k \in 1 .. Len(value)
      BY <1>1, <2>1
    <2>3. value[i + k] \in Octets
      BY <2>2, ElementOfSeq
    <2> QED BY <2>1, <2>3, ByteIsInt
  <1>3. CASE first < 128
    <2>1. WidthStep(value, i) = [code |-> first, step |-> 1]
      BY <1>1, <1>3, StepCases
    <2> QED BY ONLY <1>1, <2>1
  <1>4. CASE first \in 194 .. 223 /\ Follow(value, i, 1)
    <2>1. WidthStep(value, i) = [code |-> TwoBytes(first, value[i + 1]), step |-> 1 + 1]
      BY <1>1, <1>4, StepCases
    <2>2. i + 1 <= Len(value) /\ value[i + 1] \in Int
      BY <1>2, <1>4
    <2>3. TwoBytes(first, value[i + 1]) \in Int
      BY <1>1, <2>2, CodeIsNumber
    <2> QED BY ONLY <1>1, <2>1, <2>2, <2>3
  <1>5. CASE first \in 224 .. 239 /\ Follow(value, i, 2)
    <2>1. WidthStep(value, i)
            = [code |-> ThreeBytes(first, value[i + 1], value[i + 2]), step |-> 2 + 1]
      BY <1>1, <1>5, StepCases
    <2>2. i + 2 <= Len(value) /\ value[i + 1] \in Int /\ value[i + 2] \in Int
      BY <1>2, <1>5
    <2>3. ThreeBytes(first, value[i + 1], value[i + 2]) \in Int
      BY <1>1, <2>2, CodeIsNumber
    <2> QED BY ONLY <1>1, <2>1, <2>2, <2>3
  <1>6. CASE first \in 240 .. 244 /\ Follow(value, i, 3)
    <2>1. WidthStep(value, i)
            = [code |-> FourBytes(first, value[i + 1], value[i + 2], value[i + 3]), step |-> 3 + 1]
      BY <1>1, <1>6, StepCases
    <2>2. /\ i + 3 <= Len(value) /\ value[i + 1] \in Int /\ value[i + 2] \in Int
          /\ value[i + 3] \in Int
      BY <1>2, <1>6
    <2>3. FourBytes(first, value[i + 1], value[i + 2], value[i + 3]) \in Int
      BY <1>1, <2>2, CodeIsNumber
    <2> QED BY ONLY <1>1, <2>1, <2>2, <2>3
  <1>7. CASE /\ ~(first < 128)
             /\ ~(first \in 194 .. 223 /\ Follow(value, i, 1))
             /\ ~(first \in 224 .. 239 /\ Follow(value, i, 2))
             /\ ~(first \in 240 .. 244 /\ Follow(value, i, 3))
    <2>1. WidthStep(value, i) = [code |-> 63, step |-> 1]
      BY <1>1, <1>7, StepCases
    <2> QED BY ONLY <1>1, <2>1
  <1> QED BY <1>3, <1>4, <1>5, <1>6, <1>7

\* The bytes decode_at takes behind the first one, and when it takes them.
Behind(value, index) == SubSeq(value, index + 2, index + Announced(value[index + 1]))
Whole(value, index) ==
  /\ Announced(value[index + 1]) > 1
  /\ index + Announced(value[index + 1]) <= Len(value)
  /\ \A k \in DOMAIN Behind(value, index) : Continues(Behind(value, index)[k])

\* The three cases of decode_at inside the string.
LEMMA DecodeCases ==
  ASSUME NEW value, NEW index, value[index + 1] \in Int, ~(index >= Len(value))
  PROVE  /\ value[index + 1] < 128 =>
              cn_term_string_decode_at(value, index)
                = [ok |-> TRUE, code |-> value[index + 1], next |-> index + 1]
         /\ value[index + 1] >= 128 /\ Whole(value, index) =>
              cn_term_string_decode_at(value, index)
                = [ok |-> TRUE, next |-> index + Announced(value[index + 1]),
                   code |-> Accumulate(HeadBits(value[index + 1]), Behind(value, index))]
         /\ value[index + 1] >= 128 /\ ~Whole(value, index) =>
              cn_term_string_decode_at(value, index)
                = [ok |-> TRUE, code |-> 63, next |-> index + 1]
  <1>1. ASSUME value[index + 1] < 128
        PROVE  cn_term_string_decode_at(value, index)
                 = [ok |-> TRUE, code |-> value[index + 1], next |-> index + 1]
    <2>1. ~(value[index + 1] >= 128)
      BY <1>1
    <2> QED BY <1>1, <2>1 DEF cn_term_string_decode_at
  <1>2. ASSUME value[index + 1] >= 128, Whole(value, index)
        PROVE  cn_term_string_decode_at(value, index)
                 = [ok |-> TRUE, next |-> index + Announced(value[index + 1]),
                    code |-> Accumulate(HeadBits(value[index + 1]), Behind(value, index))]
    <2>1. ~(value[index + 1] < 128)
      BY <1>2
    <2> QED BY <1>2, <2>1 DEF cn_term_string_decode_at, Whole, Behind, Accumulate
  <1>3. ASSUME value[index + 1] >= 128, ~Whole(value, index)
        PROVE  cn_term_string_decode_at(value, index)
                 = [ok |-> TRUE, code |-> 63, next |-> index + 1]
    <2>1. ~(value[index + 1] < 128)
      BY <1>3
    <2> QED BY <1>3, <2>1 DEF cn_term_string_decode_at, Whole, Behind
  <1> QED BY <1>1, <1>2, <1>3

\* Both loops look at the same bytes behind a first byte.
LEMMA WholeIsFollow ==
  ASSUME NEW value \in Seq(Octets), NEW index \in Nat, index < Len(value),
         NEW m \in 1 .. 3, Announced(value[index + 1]) = m + 1
  PROVE  /\ Whole(value, index) <=> Follow(value, index + 1, m)
         /\ Whole(value, index) =>
              /\ DOMAIN Behind(value, index) = 1 .. m
              /\ \A k \in 1 .. m : Behind(value, index)[k] = value[index + 1 + k]
              /\ \A k \in 1 .. m : value[index + 1 + k] \in Int
  <1>1. Len(value) \in Nat
    OBVIOUS
  <1>2. CASE ~(index + m + 1 <= Len(value))
    <2>1. ~(index + (m + 1) <= Len(value)) /\ ~((index + 1) + m <= Len(value))
      BY <1>1, <1>2
    <2> QED BY <2>1 DEF Whole, Follow
  <1>3. CASE index + m + 1 <= Len(value)
    <2>1. /\ index + (m + 1) <= Len(value) /\ (index + 1) + m <= Len(value) /\ m + 1 > 1
          /\ \A k \in 1 .. m : index + 1 + k \in 1 .. Len(value)
      BY <1>1, <1>3
    <2>2. \A k \in 1 .. m : value[index + 1 + k] \in Int
      <3>1. \A k \in 1 .. m : value[index + 1 + k] \in Octets
        BY <2>1, ElementOfSeq
      <3> QED BY <3>1, ByteIsInt
    <2>3. Behind(value, index) = SubSeq(value, index + 2, index + (m + 1))
      BY DEF Behind
    <2>4. /\ Len(Behind(value, index)) = m
          /\ Behind(value, index) \in Seq(Octets)
          /\ \A k \in 1 .. m : Behind(value, index)[k] = value[index + 1 + k]
      <3>1. \A k \in index + 2 .. index + (m + 1) : value[k] \in Octets
        <4>1. \A k \in index + 2 .. index + (m + 1) : k \in 1 .. Len(value)
          BY <1>1, <2>1
        <4> QED BY <4>1, ElementOfSeq
      <3>2. index + 2 \in Int /\ index + (m + 1) \in Int
        OBVIOUS
      <3>3. /\ SubSeq(value, index + 2, index + (m + 1)) \in Seq(Octets)
            /\ Len(SubSeq(value, index + 2, index + (m + 1)))
                 = IF index + 2 <= index + (m + 1) THEN index + (m + 1) - (index + 2) + 1 ELSE 0
            /\ \A k \in 1 .. index + (m + 1) - (index + 2) + 1 :
                 SubSeq(value, index + 2, index + (m + 1))[k] = value[index + 2 + k - 1]
        BY <3>1, <3>2, SubSeqProperties
      <3>4. index + (m + 1) - (index + 2) + 1 = m /\ index + 2 <= index + (m + 1)
        OBVIOUS
      <3>5. \A k \in 1 .. m : index + 2 + k - 1 = index + 1 + k
        OBVIOUS
      <3> QED BY <2>3, <3>3, <3>4, <3>5
    <2>5. DOMAIN Behind(value, index) = 1 .. m
      BY <2>4, LenProperties
    <2>6. Whole(value, index) <=> \A k \in 1 .. m : Continues(value[index + 1 + k])
      BY <2>1, <2>4, <2>5 DEF Whole
    <2>7. Follow(value, index + 1, m) <=> \A k \in 1 .. m : Continues(value[index + 1 + k])
      BY <2>1 DEF Follow
    <2> QED BY <2>2, <2>4, <2>5, <2>6, <2>7
  <1> QED BY <1>2, <1>3

\* What the first byte of a character of m + 1 bytes announces.
Leads(first, m) ==
  /\ Announced(first) = m + 1
  /\ first >= 128 /\ ~(first < 128)
  /\ m # 1 => first \notin 194 .. 223
  /\ m # 2 => first \notin 224 .. 239
  /\ m # 3 => first \notin 240 .. 244

LEMMA LeadTwo == \A first \in Int : first \in 194 .. 223 => Leads(first, 1)
  <1> SUFFICES ASSUME NEW first \in Int, first \in 194 .. 223 PROVE Leads(first, 1)
    OBVIOUS
  <1>1. Announced(first) = 1 + 1
    BY SMT DEF Announced
  <1> QED BY <1>1 DEF Leads

LEMMA LeadThree == \A first \in Int : first \in 224 .. 239 => Leads(first, 2)
  <1> SUFFICES ASSUME NEW first \in Int, first \in 224 .. 239 PROVE Leads(first, 2)
    OBVIOUS
  <1>1. Announced(first) = 2 + 1
    BY SMT DEF Announced
  <1> QED BY <1>1 DEF Leads

LEMMA LeadFour == \A first \in Int : first \in 240 .. 244 => Leads(first, 3)
  <1> SUFFICES ASSUME NEW first \in Int, first \in 240 .. 244 PROVE Leads(first, 3)
    OBVIOUS
  <1>1. Announced(first) = 3 + 1
    BY SMT DEF Announced
  <1> QED BY <1>1 DEF Leads

LEMMA LeadNone ==
  ASSUME NEW first \in Int
  PROVE  /\ first \notin 194 .. 223 /\ first \notin 224 .. 239 /\ first \notin 240 .. 244 => ~(Announced(first) > 1)
         /\ first < 128 \/ first >= 128
         /\ first >= 128 => ~(first < 128)
  <1>1. first \notin 194 .. 223 /\ first \notin 224 .. 239 /\ first \notin 240 .. 244 => Announced(first) = 1
    BY SMT DEF Announced
  <1> QED BY <1>1

\* When a step of the decoder is the step of string_width.
SameStep(value, index) ==
  cn_term_string_decode_at(value, index)
    = [ok |-> TRUE, code |-> WidthStep(value, index + 1).code,
       next |-> index + WidthStep(value, index + 1).step]

LEMMA SameStepFrom ==
  ASSUME NEW value, NEW index, NEW c, NEW s,
         WidthStep(value, index + 1) = [code |-> c, step |-> s],
         cn_term_string_decode_at(value, index) = [ok |-> TRUE, code |-> c, next |-> index + s]
  PROVE  SameStep(value, index)
  <1>1. WidthStep(value, index + 1).code = c /\ WidthStep(value, index + 1).step = s
    OBVIOUS
  <1> QED BY <1>1, Zenon DEF SameStep

LEMMA Horner ==
  ASSUME NEW a \in Int, NEW b \in Int, NEW c \in Int, NEW d \in Int
  PROVE  /\ (a * 64 + b) * 64 + c = a * 4096 + b * 64 + c
         /\ ((a * 64 + b) * 64 + c) * 64 + d = a * 262144 + b * 4096 + c * 64 + d
  OBVIOUS

\* The fold of the decoder, against the formulas of string_width.
LEMMA AccumulateTwo ==
  ASSUME NEW a \in Int, a \in 194 .. 223, NEW b \in Int,
         NEW tail, DOMAIN tail = 1 .. 1, tail[1] = b
  PROVE  Accumulate(HeadBits(a), tail) = TwoBytes(a, b)
  <1>1. HeadBits(a) = a % 32
    BY SMT DEF HeadBits
  <1>2. a % 32 \in Int /\ Low6(b) \in Int
    BY DEF Low6
  <1>3. Accumulate(a % 32, tail) = (a % 32) * 64 + Low6(b)
    <2>1. 1 \in 1 .. 3
      OBVIOUS
    <2> QED BY <2>1, AccumulateValue
  <1> QED BY <1>1, <1>3 DEF TwoBytes

LEMMA AccumulateThree ==
  ASSUME NEW a \in Int, a \in 224 .. 239, NEW b \in Int, NEW c \in Int,
         NEW tail, DOMAIN tail = 1 .. 2, tail[1] = b, tail[2] = c
  PROVE  Accumulate(HeadBits(a), tail) = ThreeBytes(a, b, c)
  <1>1. HeadBits(a) = a % 16
    BY SMT DEF HeadBits
  <1>2. a % 16 \in Int /\ Low6(b) \in Int /\ Low6(c) \in Int
    BY DEF Low6
  <1>3. Accumulate(a % 16, tail) = ((a % 16) * 64 + Low6(b)) * 64 + Low6(c)
    <2>1. 2 \in 1 .. 3
      OBVIOUS
    <2> QED BY <2>1, AccumulateValue
  <1>4. ((a % 16) * 64 + Low6(b)) * 64 + Low6(c)
          = (a % 16) * 4096 + Low6(b) * 64 + Low6(c)
    BY <1>2, Horner
  <1> QED BY <1>1, <1>3, <1>4 DEF ThreeBytes

LEMMA AccumulateFour ==
  ASSUME NEW a \in Int, a \in 240 .. 244, NEW b \in Int, NEW c \in Int, NEW d \in Int,
         NEW tail, DOMAIN tail = 1 .. 3, tail[1] = b, tail[2] = c, tail[3] = d
  PROVE  Accumulate(HeadBits(a), tail) = FourBytes(a, b, c, d)
  <1>1. HeadBits(a) = a % 8
    BY SMT DEF HeadBits
  <1>2. a % 8 \in Int /\ Low6(b) \in Int /\ Low6(c) \in Int /\ Low6(d) \in Int
    BY DEF Low6
  <1>3. Accumulate(a % 8, tail) = (((a % 8) * 64 + Low6(b)) * 64 + Low6(c)) * 64 + Low6(d)
    <2>1. 3 \in 1 .. 3
      OBVIOUS
    <2> QED BY <2>1, AccumulateValue
  <1>4. (((a % 8) * 64 + Low6(b)) * 64 + Low6(c)) * 64 + Low6(d)
          = (a % 8) * 262144 + Low6(b) * 4096 + Low6(c) * 64 + Low6(d)
    BY <1>2, Horner
  <1> QED BY <1>1, <1>3, <1>4 DEF FourBytes

\* The two loops take the same step: decode_at, behind index bytes, finds the
\* code string_width counts there and goes on behind the same byte.
LEMMA StepsAgree ==
  ASSUME NEW value \in Seq(Octets), NEW index \in Nat, index < Len(value)
  PROVE  SameStep(value, index)
  <1>1. index + 1 \in 1 .. Len(value) /\ Len(value) \in Nat /\ ~(index >= Len(value))
    OBVIOUS
  <1>2. value[index + 1] \in Int
    BY <1>1, ElementOfSeq, ByteIsInt
  <1>3. value[index + 1] < 128 \/ value[index + 1] >= 128
    BY <1>2, LeadNone
  <1>4. CASE value[index + 1] < 128
    <2>1. cn_term_string_decode_at(value, index)
            = [ok |-> TRUE, code |-> value[index + 1], next |-> index + 1]
      BY <1>1, <1>2, <1>4, DecodeCases
    <2>2. WidthStep(value, index + 1) = [code |-> value[index + 1], step |-> 1]
      BY <1>1, <1>2, <1>4, StepCases
    <2> QED BY <2>1, <2>2, SameStepFrom
  <1>5. CASE value[index + 1] \in 194 .. 223
    <2>1. /\ Announced(value[index + 1]) = 1 + 1
          /\ value[index + 1] >= 128 /\ ~(value[index + 1] < 128)
          /\ value[index + 1] \notin 224 .. 239
          /\ value[index + 1] \notin 240 .. 244
      <3>1. Leads(value[index + 1], 1)
        BY <1>2, <1>5, LeadTwo, Zenon
      <3> QED BY <3>1 DEF Leads
    <2>2. CASE Whole(value, index)
      <3>1. /\ DOMAIN Behind(value, index) = 1 .. 1
            /\ Behind(value, index)[1] = value[index + 1 + 1]
            /\ Follow(value, index + 1, 1)
            /\ value[index + 1 + 1] \in Int
        BY <2>1, <2>2, WholeIsFollow
      <3>2. Accumulate(HeadBits(value[index + 1]), Behind(value, index))
              = TwoBytes(value[index + 1], value[index + 1 + 1])
        BY ONLY <1>2, <1>5, <3>1, AccumulateTwo
      <3>3. WidthStep(value, index + 1)
              = [code |-> TwoBytes(value[index + 1], value[index + 1 + 1]),
                 step |-> 1 + 1]
        BY <1>2, <1>5, <3>1, StepCases
      <3>4. cn_term_string_decode_at(value, index)
              = [ok |-> TRUE, next |-> index + (1 + 1),
                 code |-> TwoBytes(value[index + 1], value[index + 1 + 1])]
        BY <1>1, <1>2, <2>1, <2>2, <3>2, DecodeCases
      <3> QED BY <3>3, <3>4, SameStepFrom
    <2>3. CASE ~Whole(value, index)
      <3>1. ~Follow(value, index + 1, 1)
        BY <2>1, <2>3, WholeIsFollow
      <3>2. WidthStep(value, index + 1) = [code |-> 63, step |-> 1]
        BY <1>2, <2>1, <3>1, StepCases
      <3>3. cn_term_string_decode_at(value, index)
              = [ok |-> TRUE, code |-> 63, next |-> index + 1]
        BY <1>1, <1>2, <2>1, <2>3, DecodeCases
      <3> QED BY <3>2, <3>3, SameStepFrom
    <2> QED BY <2>2, <2>3
  <1>6. CASE value[index + 1] \in 224 .. 239
    <2>1. /\ Announced(value[index + 1]) = 2 + 1
          /\ value[index + 1] >= 128 /\ ~(value[index + 1] < 128)
          /\ value[index + 1] \notin 194 .. 223
          /\ value[index + 1] \notin 240 .. 244
      <3>1. Leads(value[index + 1], 2)
        BY <1>2, <1>6, LeadThree, Zenon
      <3> QED BY <3>1 DEF Leads
    <2>2. CASE Whole(value, index)
      <3>1. /\ DOMAIN Behind(value, index) = 1 .. 2
            /\ Behind(value, index)[1] = value[index + 1 + 1]
            /\ Behind(value, index)[2] = value[index + 1 + 2]
            /\ Follow(value, index + 1, 2)
            /\ value[index + 1 + 1] \in Int
            /\ value[index + 1 + 2] \in Int
        BY <2>1, <2>2, WholeIsFollow
      <3>2. Accumulate(HeadBits(value[index + 1]), Behind(value, index))
              = ThreeBytes(value[index + 1], value[index + 1 + 1], value[index + 1 + 2])
        BY ONLY <1>2, <1>6, <3>1, AccumulateThree
      <3>3. WidthStep(value, index + 1)
              = [code |-> ThreeBytes(value[index + 1], value[index + 1 + 1], value[index + 1 + 2]),
                 step |-> 2 + 1]
        BY <1>2, <1>6, <3>1, StepCases
      <3>4. cn_term_string_decode_at(value, index)
              = [ok |-> TRUE, next |-> index + (2 + 1),
                 code |-> ThreeBytes(value[index + 1], value[index + 1 + 1], value[index + 1 + 2])]
        BY <1>1, <1>2, <2>1, <2>2, <3>2, DecodeCases
      <3> QED BY <3>3, <3>4, SameStepFrom
    <2>3. CASE ~Whole(value, index)
      <3>1. ~Follow(value, index + 1, 2)
        BY <2>1, <2>3, WholeIsFollow
      <3>2. WidthStep(value, index + 1) = [code |-> 63, step |-> 1]
        BY <1>2, <2>1, <3>1, StepCases
      <3>3. cn_term_string_decode_at(value, index)
              = [ok |-> TRUE, code |-> 63, next |-> index + 1]
        BY <1>1, <1>2, <2>1, <2>3, DecodeCases
      <3> QED BY <3>2, <3>3, SameStepFrom
    <2> QED BY <2>2, <2>3
  <1>7. CASE value[index + 1] \in 240 .. 244
    <2>1. /\ Announced(value[index + 1]) = 3 + 1
          /\ value[index + 1] >= 128 /\ ~(value[index + 1] < 128)
          /\ value[index + 1] \notin 194 .. 223
          /\ value[index + 1] \notin 224 .. 239
      <3>1. Leads(value[index + 1], 3)
        BY <1>2, <1>7, LeadFour, Zenon
      <3> QED BY <3>1 DEF Leads
    <2>2. CASE Whole(value, index)
      <3>1. /\ DOMAIN Behind(value, index) = 1 .. 3
            /\ Behind(value, index)[1] = value[index + 1 + 1]
            /\ Behind(value, index)[2] = value[index + 1 + 2]
            /\ Behind(value, index)[3] = value[index + 1 + 3]
            /\ Follow(value, index + 1, 3)
            /\ value[index + 1 + 1] \in Int
            /\ value[index + 1 + 2] \in Int
            /\ value[index + 1 + 3] \in Int
        BY <2>1, <2>2, WholeIsFollow
      <3>2. Accumulate(HeadBits(value[index + 1]), Behind(value, index))
              = FourBytes(value[index + 1], value[index + 1 + 1], value[index + 1 + 2], value[index + 1 + 3])
        <4> DEFINE t == Behind(value, index)
        <4>1. DOMAIN t = 1 .. 3 /\ t[1] \in Int /\ t[2] \in Int /\ t[3] \in Int
          BY <3>1
        <4> HIDE DEF t
        <4>2. Accumulate(HeadBits(value[index + 1]), t)
                = FourBytes(value[index + 1], t[1], t[2], t[3])
          BY ONLY <1>2, <1>7, <4>1, AccumulateFour
        <4> QED BY <3>1, <4>2 DEF t
      <3>3. WidthStep(value, index + 1)
              = [code |-> FourBytes(value[index + 1], value[index + 1 + 1], value[index + 1 + 2], value[index + 1 + 3]),
                 step |-> 3 + 1]
        BY <1>2, <1>7, <3>1, StepCases
      <3>4. cn_term_string_decode_at(value, index)
              = [ok |-> TRUE, next |-> index + (3 + 1),
                 code |-> FourBytes(value[index + 1], value[index + 1 + 1], value[index + 1 + 2], value[index + 1 + 3])]
        BY <1>1, <1>2, <2>1, <2>2, <3>2, DecodeCases
      <3> QED BY <3>3, <3>4, SameStepFrom
    <2>3. CASE ~Whole(value, index)
      <3>1. ~Follow(value, index + 1, 3)
        BY <2>1, <2>3, WholeIsFollow
      <3>2. WidthStep(value, index + 1) = [code |-> 63, step |-> 1]
        BY <1>2, <2>1, <3>1, StepCases
      <3>3. cn_term_string_decode_at(value, index)
              = [ok |-> TRUE, code |-> 63, next |-> index + 1]
        BY <1>1, <1>2, <2>1, <2>3, DecodeCases
      <3> QED BY <3>2, <3>3, SameStepFrom
    <2> QED BY <2>2, <2>3
  <1>8. CASE /\ value[index + 1] >= 128
             /\ value[index + 1] \notin 194 .. 223
             /\ value[index + 1] \notin 224 .. 239
             /\ value[index + 1] \notin 240 .. 244
    <2>1. ~Whole(value, index)
      BY <1>2, <1>8, LeadNone DEF Whole
    <2>2. ~(value[index + 1] < 128)
      BY <1>2, <1>8, LeadNone
    <2>3. WidthStep(value, index + 1) = [code |-> 63, step |-> 1]
      BY <1>2, <1>8, <2>2, StepCases
    <2>4. cn_term_string_decode_at(value, index) = [ok |-> TRUE, code |-> 63, next |-> index + 1]
      BY <1>1, <1>2, <1>8, <2>1, DecodeCases
    <2> QED BY <2>3, <2>4, SameStepFrom
  <1> QED BY <1>3, <1>4, <1>5, <1>6, <1>7, <1>8

\* One unfolding of the recursion of string_width, from the i-th byte on.
Rest(g, value, i) ==
  IF i > Len(value) THEN 0
  ELSE cn_term_codepoint_width(WidthStep(value, i).code) + g[i + WidthStep(value, i).step]

WidthEq(g, value) == g = [i \in 1 .. Len(value) + 4 |-> Rest(g, value, i)]

WidthFcn(value) == CHOOSE g : WidthEq(g, value)

LEMMA WidthIsRecursive ==
  ASSUME NEW value
  PROVE  cn_term_string_width(value) = WidthFcn(value)[1]
  BY DEF cn_term_string_width, WidthFcn, WidthEq, Rest

\* The recursion has a solution: it is built from the last byte to the first.
LEMMA WidthFcnExists ==
  ASSUME NEW value \in Seq(Octets)
  PROVE  \E g : WidthEq(g, value)
  <1> DEFINE n == Len(value)
             D == 1 .. n + 4
             Right(g, k) == \A i \in D : i + k > n => g[i] = Rest(g, value, i)
             P == {k \in Nat : k <= n => \E g : DOMAIN g = D /\ g = [i \in D |-> g[i]] /\ Right(g, k)}
  <1>1. n \in Nat
    OBVIOUS
  <1>2. 0 \in P
    <2> DEFINE g == [i \in D |-> 0]
    <2>1. \A i \in D : i + 0 > n => g[i] = Rest(g, value, i)
      BY <1>1 DEF Rest
    <2>2. DOMAIN g = D /\ g = [i \in D |-> g[i]]
      OBVIOUS
    <2> HIDE DEF g
    <2>3. \E h : DOMAIN h = D /\ h = [i \in D |-> h[i]] /\ Right(h, 0)
      BY <2>1, <2>2
    <2> QED BY <2>3
  <1>3. ASSUME NEW k \in Nat, k \in P PROVE k + 1 \in P
    <2> SUFFICES ASSUME k + 1 <= n
                 PROVE  \E g : DOMAIN g = D /\ g = [i \in D |-> g[i]] /\ Right(g, k + 1)
      OBVIOUS
    <2>1. PICK g : DOMAIN g = D /\ g = [i \in D |-> g[i]] /\ Right(g, k)
      BY <1>1, <1>3
    <2> DEFINE h == [i \in D |-> IF i + k > n THEN g[i] ELSE Rest(g, value, i)]
    <2>2. \A i \in D : i + k > n => h[i] = g[i]
      OBVIOUS
    <2>3. \A i \in D : i + (k + 1) > n => Rest(h, value, i) = Rest(g, value, i)
      <3> SUFFICES ASSUME NEW i \in D, i + (k + 1) > n, ~(i > n)
                   PROVE  Rest(h, value, i) = Rest(g, value, i)
        BY DEF Rest
      <3>1. i \in 1 .. Len(value)
        BY <1>1
      <3>2. WidthStep(value, i).step \in 1 .. 4
        BY <3>1, StepInside
      <3> DEFINE j == i + WidthStep(value, i).step
      <3>3. j \in D /\ j + k > n
        BY <1>1, <3>1, <3>2
      <3>4. h[j] = g[j]
        BY <2>2, <3>3
      <3> HIDE DEF h
      <3> QED BY <3>4 DEF Rest
    <2>4. \A i \in D : i + (k + 1) > n => h[i] = Rest(g, value, i)
      <3> SUFFICES ASSUME NEW i \in D, i + (k + 1) > n PROVE h[i] = Rest(g, value, i)
        OBVIOUS
      <3>1. CASE i + k > n
        BY <2>1, <2>2, <3>1
      <3>2. CASE ~(i + k > n)
        BY <3>2
      <3> QED BY <3>1, <3>2
    <2>5. DOMAIN h = D /\ h = [i \in D |-> h[i]]
      OBVIOUS
    <2> HIDE DEF h
    <2>6. Right(h, k + 1)
      BY <2>3, <2>4
    <2> QED BY <2>5, <2>6
  <1>4. n \in P
    <2> HIDE DEF P
    <2> QED BY <1>1, <1>2, <1>3, SetInduction
  <1>5. PICK g : DOMAIN g = D /\ g = [i \in D |-> g[i]] /\ Right(g, n)
    BY <1>1, <1>4
  <1>6. \A i \in D : g[i] = Rest(g, value, i)
    BY <1>1, <1>5
  <1>7. g = [i \in D |-> Rest(g, value, i)]
    BY <1>5, <1>6
  <1> QED BY <1>7 DEF WidthEq

\* What is left to count behind the last byte is nothing, and before a
\* character its width and what is left behind it.
LEMMA WidthLeft ==
  ASSUME NEW value \in Seq(Octets)
  PROVE  /\ cn_term_string_width(value) = WidthFcn(value)[1]
         /\ WidthFcn(value)[Len(value) + 1] = 0
         /\ \A i \in 1 .. Len(value) :
              WidthFcn(value)[i] = cn_term_codepoint_width(WidthStep(value, i).code)
                                     + WidthFcn(value)[i + WidthStep(value, i).step]
  <1>1. WidthEq(WidthFcn(value), value)
    BY WidthFcnExists DEF WidthFcn
  <1>2. Len(value) \in Nat
    OBVIOUS
  <1>3. \A i \in 1 .. Len(value) + 4 : WidthFcn(value)[i] = Rest(WidthFcn(value), value, i)
    BY <1>1 DEF WidthEq
  <1>4. Len(value) + 1 \in 1 .. Len(value) + 4 /\ Len(value) + 1 > Len(value)
    BY <1>2
  <1>5. \A i \in 1 .. Len(value) : i \in 1 .. Len(value) + 4 /\ ~(i > Len(value))
    BY <1>2
  <1> QED BY <1>3, <1>4, <1>5, WidthIsRecursive DEF Rest

\* Widths are numbers.
LEMMA WidthIsNumber == ASSUME NEW code \in Int PROVE cn_term_codepoint_width(code) \in 0 .. 2
  <1>1. code \in DOMAIN WcWidth => WcWidth[code] \in 0 .. 2
    BY WidthsAssumption, Zenon
  <1> QED BY <1>1, SMT DEF cn_term_codepoint_width

\* A code and its bytes: the bits of the code in groups of six.
LEMMA WriteOne == ASSUME NEW c \in Nat, c <= 127 PROVE cn_term_write_code(c) = <<c>>
  BY SMT DEF cn_term_write_code

LEMMA WriteTwo ==
  ASSUME NEW c \in Nat, c > 127, c <= 2047
  PROVE  cn_term_write_code(c) = <<192 + (c \div 64), 128 + ((c \div 1) % 64)>>
  BY SMT DEF cn_term_write_code

Bits2(c, a, l) ==
  /\ cn_term_write_code(c) = <<192 + a, 128 + l>>
  /\ c = a * 64 + l /\ a >= 2 /\ a <= 31 /\ l <= 63
Bits3(c, a, m, l) ==
  /\ cn_term_write_code(c) = <<224 + a, 128 + m, 128 + l>>
  /\ c = a * 4096 + m * 64 + l /\ a <= 15 /\ m <= 63 /\ l <= 63
Bits4(c, a, h, m, l) ==
  /\ cn_term_write_code(c) = <<240 + a, 128 + h, 128 + m, 128 + l>>
  /\ c = a * 262144 + h * 4096 + m * 64 + l /\ a <= 4 /\ h <= 63 /\ m <= 63 /\ l <= 63

LEMMA BitsTwo ==
  ASSUME NEW c \in Nat, c > 127, c <= 2047
  PROVE  \E a \in Nat, l \in Nat : Bits2(c, a, l)
  <1> DEFINE a == c \div 64
             l == c % 64
  <1>1. a \in Nat /\ l \in Nat /\ a >= 2 /\ a <= 31 /\ l <= 63 /\ c = a * 64 + l /\ c \div 1 = c
    BY SMT
  <1>2. cn_term_write_code(c) = <<192 + a, 128 + l>>
    BY <1>1, WriteTwo, SMT
  <1> HIDE DEF a, l
  <1>3. Bits2(c, a, l)
    BY <1>1, <1>2, SMT DEF Bits2
  <1> QED BY <1>1, <1>3

LEMMA BitsThree ==
  ASSUME NEW c \in Nat, c > 2047, c <= 65535
  PROVE  \E a \in Nat, m \in Nat, l \in Nat : Bits3(c, a, m, l)
  <1> DEFINE a == c \div 4096
             w == c \div 64
             m == w % 64
             l == c % 64
  <1>1. a \in Nat /\ m \in Nat /\ l \in Nat /\ a <= 15 /\ m <= 63 /\ l <= 63 /\ w \in Int /\ c \div 1 = c
    BY SMT
  <1>2. w = a * 64 + m /\ c = w * 64 + l
    BY SMT
  <1>3. cn_term_write_code(c) = <<224 + a, 128 + m, 128 + l>>
    BY <1>1, WriteThree, SMT
  <1> HIDE DEF a, w, m, l
  <1>4. c = a * 4096 + m * 64 + l
    BY <1>1, <1>2, SMT
  <1>5. Bits3(c, a, m, l)
    BY <1>1, <1>3, <1>4, SMT DEF Bits3
  <1> QED BY <1>1, <1>5

LEMMA BitsFour ==
  ASSUME NEW c \in Nat, c > 65535, c <= 1114111
  PROVE  \E a \in Nat, h \in Nat, m \in Nat, l \in Nat : Bits4(c, a, h, m, l)
  <1> DEFINE a == c \div 262144
             v == c \div 4096
             w == c \div 64
             h == v % 64
             m == w % 64
             l == c % 64
  <1>1. /\ a \in Nat /\ h \in Nat /\ m \in Nat /\ l \in Nat
        /\ a <= 4 /\ h <= 63 /\ m <= 63 /\ l <= 63
        /\ v \in Int /\ w \in Int /\ c \div 1 = c
    BY SMT
  <1>2. v = a * 64 + h /\ w = v * 64 + m /\ c = w * 64 + l
    BY SMT
  <1>3. cn_term_write_code(c) = <<240 + a, 128 + h, 128 + m, 128 + l>>
    BY <1>1, WriteFour, SMT
  <1> HIDE DEF a, v, w, h, m, l
  <1>4. c = a * 262144 + h * 4096 + m * 64 + l
    BY <1>1, <1>2, SMT
  <1>5. Bits4(c, a, h, m, l)
    BY <1>1, <1>3, <1>4, SMT DEF Bits4
  <1> QED BY <1>1, <1>5

\* The first byte keeps its low bits apart from its mark, every other byte too.
LEMMA LowSix == ASSUME NEW l \in Nat, l <= 63
                PROVE  Low6(128 + l) = l /\ Continues(128 + l) /\ 128 + l \in Octets
  <1>1. (128 + l) % 64 = l
    BY SMT
  <1> QED BY <1>1, SMT DEF Low6, Continues, Octets

LEMMA ReadTwo ==
  ASSUME NEW a \in Nat, a >= 2, a <= 31, NEW l \in Nat, l <= 63
  PROVE  TwoBytes(192 + a, 128 + l) = a * 64 + l
  <1>1. (192 + a) % 32 = a
    BY SMT
  <1> QED BY <1>1, LowSix, SMT DEF TwoBytes

LEMMA ReadThree ==
  ASSUME NEW a \in Nat, a <= 15, NEW m \in Nat, m <= 63, NEW l \in Nat, l <= 63
  PROVE  ThreeBytes(224 + a, 128 + m, 128 + l) = a * 4096 + m * 64 + l
  <1>1. (224 + a) % 16 = a
    BY SMT
  <1>2. Low6(128 + m) = m /\ Low6(128 + l) = l
    BY LowSix
  <1> QED BY <1>1, <1>2, SMT DEF ThreeBytes

LEMMA FourParts ==
  ASSUME NEW p \in Int, NEW q \in Int, NEW r \in Int, NEW s \in Int,
         NEW a \in Int, NEW h \in Int, NEW m \in Int, NEW l \in Int,
         p % 8 = a, Low6(q) = h, Low6(r) = m, Low6(s) = l
  PROVE  FourBytes(p, q, r, s) = a * 262144 + h * 4096 + m * 64 + l
  BY SMT DEF FourBytes

LEMMA ReadFour ==
  ASSUME NEW a \in Nat, a <= 4, NEW h \in Nat, h <= 63, NEW m \in Nat, m <= 63, NEW l \in Nat, l <= 63
  PROVE  FourBytes(240 + a, 128 + h, 128 + m, 128 + l) = a * 262144 + h * 4096 + m * 64 + l
  <1>1. (240 + a) % 8 = a
    BY SMT
  <1>2. Low6(128 + h) = h /\ Low6(128 + m) = m /\ Low6(128 + l) = l
    BY LowSix
  <1>3. 240 + a \in Int /\ 128 + h \in Int /\ 128 + m \in Int /\ 128 + l \in Int
    BY SMT
  <1> QED BY <1>1, <1>2, <1>3, FourParts, SMT

\* The bytes e stand in the string behind its first index bytes.
Holds(value, index, e) ==
  /\ index + Len(e) <= Len(value)
  /\ \A k \in 1 .. Len(e) : value[index + k] = e[k]

\* What string_width finds at the bytes of a code is the code.
LEMMA ReadsTwo ==
  ASSUME NEW value, NEW i \in Nat, i + 1 <= Len(value), NEW c, NEW a \in Nat, NEW l \in Nat,
         Bits2(c, a, l), value[i] = 192 + a, value[i + 1] = 128 + l
  PROVE  WidthStep(value, i) = [code |-> c, step |-> 1 + 1]
  <1>1. a >= 2 /\ a <= 31 /\ l <= 63 /\ c = a * 64 + l
    BY SMT DEF Bits2
  <1>2. value[i] \in Int /\ value[i] \in 194 .. 223
    BY <1>1, SMT
  <1>3. Follow(value, i, 1)
    <2>1. Continues(128 + l)
      BY <1>1, LowSix
    <2>2. \A k \in 1 .. 1 : value[i + k] = 128 + l
      BY SMT
    <2> QED BY <2>1, <2>2 DEF Follow
  <1>4. WidthStep(value, i) = [code |-> TwoBytes(value[i], value[i + 1]), step |-> 1 + 1]
    BY <1>2, <1>3, StepCases
  <1>5. TwoBytes(192 + a, 128 + l) = c
    BY <1>1, ReadTwo, SMT
  <1> QED BY <1>4, <1>5

LEMMA ReadsThree ==
  ASSUME NEW value, NEW i \in Nat, i + 2 <= Len(value), NEW c,
         NEW a \in Nat, NEW m \in Nat, NEW l \in Nat,
         Bits3(c, a, m, l), value[i] = 224 + a, value[i + 1] = 128 + m, value[i + 2] = 128 + l
  PROVE  WidthStep(value, i) = [code |-> c, step |-> 2 + 1]
  <1>1. a <= 15 /\ m <= 63 /\ l <= 63 /\ c = a * 4096 + m * 64 + l
    BY SMT DEF Bits3
  <1>2. value[i] \in Int /\ value[i] \in 224 .. 239
    BY <1>1, SMT
  <1>3. Follow(value, i, 2)
    <2>1. Continues(128 + m) /\ Continues(128 + l)
      BY <1>1, LowSix
    <2>2. \A k \in 1 .. 2 : value[i + k] = 128 + m \/ value[i + k] = 128 + l
      BY SMT
    <2> QED BY <2>1, <2>2 DEF Follow
  <1>4. WidthStep(value, i)
          = [code |-> ThreeBytes(value[i], value[i + 1], value[i + 2]), step |-> 2 + 1]
    BY <1>2, <1>3, StepCases
  <1>5. ThreeBytes(224 + a, 128 + m, 128 + l) = c
    BY <1>1, ReadThree, SMT
  <1> QED BY <1>4, <1>5

LEMMA ReadsFour ==
  ASSUME NEW value, NEW i \in Nat, i + 3 <= Len(value), NEW c,
         NEW a \in Nat, NEW h \in Nat, NEW m \in Nat, NEW l \in Nat,
         Bits4(c, a, h, m, l), value[i] = 240 + a, value[i + 1] = 128 + h,
         value[i + 2] = 128 + m, value[i + 3] = 128 + l
  PROVE  WidthStep(value, i) = [code |-> c, step |-> 3 + 1]
  <1>1. a <= 4 /\ h <= 63 /\ m <= 63 /\ l <= 63 /\ c = a * 262144 + h * 4096 + m * 64 + l
    BY SMT DEF Bits4
  <1>2. value[i] \in Int /\ value[i] \in 240 .. 244
    BY <1>1, SMT
  <1>3. Follow(value, i, 3)
    <2>1. Continues(128 + h) /\ Continues(128 + m) /\ Continues(128 + l)
      BY <1>1, LowSix
    <2>2. \A k \in 1 .. 3 : \/ value[i + k] = 128 + h \/ value[i + k] = 128 + m
                            \/ value[i + k] = 128 + l
      BY SMT
    <2> QED BY <2>1, <2>2 DEF Follow
  <1>4. WidthStep(value, i)
          = [code |-> FourBytes(value[i], value[i + 1], value[i + 2], value[i + 3]), step |-> 3 + 1]
    BY <1>2, <1>3, StepCases
  <1>5. FourBytes(240 + a, 128 + h, 128 + m, 128 + l) = c
    BY <1>1, ReadFour, SMT
  <1> QED BY <1>4, <1>5

LEMMA ReadsBack ==
  ASSUME NEW value \in Seq(Octets), NEW index \in Nat,
         NEW c \in Nat, c >= 1, c <= 1114111, Holds(value, index, cn_term_write_code(c))
  PROVE  WidthStep(value, index + 1) = [code |-> c, step |-> Len(cn_term_write_code(c))]
  <1> DEFINE e == cn_term_write_code(c)
  <1>1. index + 1 \in Nat /\ Len(value) \in Nat
    OBVIOUS
  <1>2. /\ index + Len(e) <= Len(value)
        /\ \A k \in 1 .. Len(e) : value[index + k] = e[k]
    BY DEF Holds
  <1>3. CASE c <= 127
    <2>1. e = <<c>>
      BY <1>3, WriteOne
    <2>2. Len(e) = 1 /\ e[1] = c
      BY <2>1
    <2>3. value[index + 1] = c
      BY <1>2, <2>2
    <2>4. value[index + 1] \in Int /\ value[index + 1] < 128
      BY <1>3, <2>3
    <2>5. WidthStep(value, index + 1) = [code |-> value[index + 1], step |-> 1]
      BY <2>4, StepCases
    <2> QED BY <2>2, <2>3, <2>5
  <1>4. CASE c > 127 /\ c <= 2047
    <2>1. PICK a \in Nat, l \in Nat : Bits2(c, a, l)
      BY <1>4, BitsTwo
    <2>2. e = <<192 + a, 128 + l>>
      BY <2>1 DEF Bits2
    <2>3. Len(e) = 2 /\ e[1] = 192 + a /\ e[2] = 128 + l
      BY <2>2
    <2>4. value[index + 1] = 192 + a /\ value[index + 2] = 128 + l /\ index + 2 <= Len(value)
      BY <1>2, <2>3
    <2>5. index + 2 = index + 1 + 1
      OBVIOUS
    <2>6. WidthStep(value, index + 1) = [code |-> c, step |-> 1 + 1]
      BY <1>1, <2>1, <2>4, <2>5, ReadsTwo
    <2> QED BY <2>3, <2>6
  <1>5. CASE c > 2047 /\ c <= 65535
    <2>1. PICK a \in Nat, m \in Nat, l \in Nat : Bits3(c, a, m, l)
      BY <1>5, BitsThree, SMT
    <2>2. e = <<224 + a, 128 + m, 128 + l>>
      BY <2>1, SMT DEF Bits3
    <2>3. Len(e) = 3 /\ e[1] = 224 + a /\ e[2] = 128 + m /\ e[3] = 128 + l
      BY <2>2
    <2>4. /\ value[index + 1] = 224 + a /\ value[index + 2] = 128 + m
          /\ value[index + 3] = 128 + l /\ index + 3 <= Len(value)
      BY <1>2, <2>3
    <2>5. index + 2 = index + 1 + 1 /\ index + 3 = index + 1 + 2
      OBVIOUS
    <2>6. WidthStep(value, index + 1) = [code |-> c, step |-> 2 + 1]
      BY <1>1, <2>1, <2>4, <2>5, ReadsThree
    <2> QED BY <2>3, <2>6
  <1>6. CASE c > 65535
    <2>1. PICK a \in Nat, h \in Nat, m \in Nat, l \in Nat : Bits4(c, a, h, m, l)
      BY <1>6, BitsFour, SMT
    <2>2. e = <<240 + a, 128 + h, 128 + m, 128 + l>>
      BY <2>1, SMT DEF Bits4
    <2>3. Len(e) = 4 /\ e[1] = 240 + a /\ e[2] = 128 + h /\ e[3] = 128 + m /\ e[4] = 128 + l
      BY <2>2
    <2>4. /\ value[index + 1] = 240 + a /\ value[index + 2] = 128 + h
          /\ value[index + 3] = 128 + m /\ value[index + 4] = 128 + l
          /\ index + 4 <= Len(value)
      BY <1>2, <2>3
    <2>5. index + 2 = index + 1 + 1 /\ index + 3 = index + 1 + 2 /\ index + 4 = index + 1 + 3
      OBVIOUS
    <2>6. WidthStep(value, index + 1) = [code |-> c, step |-> 3 + 1]
      BY <1>1, <2>1, <2>4, <2>5, ReadsFour
    <2> QED BY <2>3, <2>6
  <1> QED BY <1>3, <1>4, <1>5, <1>6, SMT

\* What is written is one byte or more.
LEMMA WrittenBytes ==
  ASSUME NEW c \in Nat, c >= 1, c <= 1114111
  PROVE  /\ cn_term_write_code(c) \in Seq(Octets)
         /\ Len(cn_term_write_code(c)) \in Nat \ {0}
  <1>1. CASE c <= 127
    <2>1. c \in Octets
      BY <1>1, SMT DEF Octets
    <2>2. cn_term_write_code(c) = <<c>>
      BY <1>1, WriteOne
    <2> QED BY ONLY <2>1, <2>2
  <1>2. CASE c > 127 /\ c <= 2047
    <2>1. PICK a \in Nat, l \in Nat : Bits2(c, a, l)
      BY <1>2, BitsTwo
    <2>2. cn_term_write_code(c) = <<192 + a, 128 + l>>
      BY <2>1 DEF Bits2
    <2>3. 192 + a \in Octets /\ 128 + l \in Octets
      BY <2>1, SMT DEF Bits2, Octets
    <2> QED BY ONLY <2>2, <2>3
  <1>3. CASE c > 2047 /\ c <= 65535
    <2>1. PICK a \in Nat, m \in Nat, l \in Nat : Bits3(c, a, m, l)
      BY <1>3, BitsThree, SMT
    <2>2. cn_term_write_code(c) = <<224 + a, 128 + m, 128 + l>>
      BY <2>1, SMT DEF Bits3
    <2>3. 224 + a \in Octets /\ 128 + m \in Octets /\ 128 + l \in Octets
      BY <2>1, SMT DEF Bits3, Octets
    <2> QED BY ONLY <2>2, <2>3
  <1>4. CASE c > 65535
    <2>1. PICK a \in Nat, h \in Nat, m \in Nat, l \in Nat : Bits4(c, a, h, m, l)
      BY <1>4, BitsFour, SMT
    <2>2. cn_term_write_code(c) = <<240 + a, 128 + h, 128 + m, 128 + l>>
      BY <2>1, SMT DEF Bits4
    <2>3. 240 + a \in Octets /\ 128 + h \in Octets /\ 128 + m \in Octets /\ 128 + l \in Octets
      BY <2>1, SMT DEF Bits4, Octets
    <2> QED BY ONLY <2>2, <2>3
  <1> QED BY <1>1, <1>2, <1>3, <1>4, SMT

(* The concatenation of a sequence of strings.                                *)

Joined(g, s, i) == IF i = 1 THEN s[i] ELSE g[i - 1] \o s[i]
FlatEq(g, s) == g = [i \in 1 .. Len(s) |-> Joined(g, s, i)]
FlatFcn(s) == CHOOSE g : FlatEq(g, s)

LEMMA FlattenIsRecursive ==
  ASSUME NEW s, Len(s) # 0
  PROVE  FlattenSeq(s) = FlatFcn(s)[Len(s)]
  BY DEF FlattenSeq, FlatFcn, FlatEq, Joined

LEMMA FlatFcnExists ==
  ASSUME NEW s, Len(s) \in Nat
  PROVE  \E g : FlatEq(g, s)
  <1> DEFINE n == Len(s)
             Right(g, k) == \A i \in 1 .. k : g[i] = Joined(g, s, i)
             P == {k \in Nat : k <= n => \E g : g = [i \in 1 .. n |-> g[i]] /\ Right(g, k)}
  <1>1. 0 \in P
    <2> DEFINE g == [i \in 1 .. n |-> 0]
    <2>1. g = [i \in 1 .. n |-> g[i]] /\ Right(g, 0)
      OBVIOUS
    <2> HIDE DEF g
    <2>2. \E h : h = [i \in 1 .. n |-> h[i]] /\ Right(h, 0)
      BY <2>1
    <2> QED BY <2>2
  <1>2. ASSUME NEW k \in Nat, k \in P PROVE k + 1 \in P
    <2> SUFFICES ASSUME k + 1 <= n
                 PROVE  \E g : g = [i \in 1 .. n |-> g[i]] /\ Right(g, k + 1)
      OBVIOUS
    <2>1. PICK g : g = [i \in 1 .. n |-> g[i]] /\ Right(g, k)
      BY <1>2
    <2> DEFINE h == [i \in 1 .. n |-> IF i = k + 1 THEN Joined(g, s, i) ELSE g[i]]
    <2>2. h = [i \in 1 .. n |-> h[i]]
      OBVIOUS
    <2>3. \A i \in 1 .. k : h[i] = g[i]
      OBVIOUS
    <2>4. h[k + 1] = Joined(g, s, k + 1)
      OBVIOUS
    <2> HIDE DEF h
    <2>5. \A i \in 1 .. k + 1 : Joined(h, s, i) = Joined(g, s, i)
      <3> SUFFICES ASSUME NEW i \in 1 .. k + 1, i # 1 PROVE h[i - 1] = g[i - 1]
        BY DEF Joined
      <3> QED BY <2>3
    <2>6. ASSUME NEW i \in 1 .. k PROVE h[i] = Joined(h, s, i)
      <3>1. i \in 1 .. k + 1
        OBVIOUS
      <3>2. g[i] = Joined(g, s, i) /\ h[i] = g[i]
        BY <2>1, <2>3
      <3>3. Joined(h, s, i) = Joined(g, s, i)
        BY <2>5, <3>1
      <3> QED BY <3>2, <3>3
    <2>7. h[k + 1] = Joined(h, s, k + 1)
      BY <2>4, <2>5
    <2>8. Right(h, k + 1)
      BY <2>6, <2>7
    <2> QED BY <2>2, <2>8
  <1>3. n \in P
    <2> HIDE DEF P
    <2> QED BY <1>1, <1>2, SetInduction
  <1>4. PICK g : g = [i \in 1 .. n |-> g[i]] /\ Right(g, n)
    BY <1>3
  <1>5. g = [i \in 1 .. n |-> Joined(g, s, i)]
    BY <1>4
  <1> QED BY <1>5 DEF FlatEq

\* The parts of a concatenation stand in it one behind the other.
LEMMA FlatParts ==
  ASSUME NEW s \in Seq(Seq(Octets)), Len(s) # 0
  PROVE  /\ FlatFcn(s)[1] = s[1]
         /\ \A k \in 2 .. Len(s) : FlatFcn(s)[k] = FlatFcn(s)[k - 1] \o s[k]
         /\ \A k \in 1 .. Len(s) : FlatFcn(s)[k] \in Seq(Octets) /\ s[k] \in Seq(Octets)
  <1> DEFINE n == Len(s)
             f == FlatFcn(s)
             P == {k \in Nat : k + 1 <= n => f[k + 1] \in Seq(Octets)}
  <1>1. n \in Nat /\ n >= 1
    OBVIOUS
  <1>2. \A k \in 1 .. n : f[k] = Joined(f, s, k)
    <2>1. FlatEq(f, s)
      BY <1>1, FlatFcnExists DEF FlatFcn
    <2> HIDE DEF f
    <2> QED BY <2>1 DEF FlatEq
  <1> HIDE DEF f
  <1>3. f[1] = s[1] /\ \A k \in 2 .. n : f[k] = f[k - 1] \o s[k]
    <2>1. 1 \in 1 .. n /\ \A k \in 2 .. n : k \in 1 .. n /\ k # 1
      BY <1>1
    <2> QED BY <1>2, <2>1 DEF Joined
  <1>4. \A k \in 1 .. n : s[k] \in Seq(Octets)
    BY ElementOfSeq
  <1>5. 0 \in P
    BY <1>1, <1>3, <1>4
  <1>6. ASSUME NEW k \in Nat, k \in P PROVE k + 1 \in P
    <2> SUFFICES ASSUME k + 1 + 1 <= n PROVE f[k + 1 + 1] \in Seq(Octets)
      OBVIOUS
    <2>1. f[k + 1] \in Seq(Octets)
      BY <1>1, <1>6
    <2>2. k + 1 + 1 \in 2 .. n /\ k + 1 + 1 - 1 = k + 1 /\ k + 1 + 1 \in 1 .. n
      BY <1>1
    <2>3. f[k + 1 + 1] = f[k + 1] \o s[k + 1 + 1] /\ s[k + 1 + 1] \in Seq(Octets)
      <3> DEFINE j == k + 1 + 1
      <3>1. f[j] = f[j - 1] \o s[j] /\ s[j] \in Seq(Octets)
        <4> HIDE DEF j
        <4>1. j \in 2 .. n /\ j \in 1 .. n
          BY <2>2 DEF j
        <4> QED BY <1>3, <1>4, <4>1
      <3> QED BY <2>2, <3>1
    <2> QED BY <2>1, <2>3, ConcatProperties
  <1>7. \A k \in Nat : k \in P
    <2> HIDE DEF P
    <2> QED BY <1>5, <1>6, SetInduction
  <1>8. ASSUME NEW k \in 1 .. n PROVE f[k] \in Seq(Octets)
    <2>1. k - 1 \in Nat /\ k - 1 + 1 <= n /\ k - 1 + 1 = k
      BY <1>1
    <2>2. k - 1 \in P
      BY <1>7, <2>1
    <2> QED BY <2>1, <2>2
  <1> QED BY <1>3, <1>4, <1>8 DEF f

Pieces(codes) == [i \in DOMAIN codes |-> cn_term_write_code(codes[i])]

\* How many bytes the first k of the codes take.
Before(codes, k) == IF k = 0 THEN 0 ELSE Len(FlatFcn(Pieces(codes))[k])

LEMMA CodesAreCodes ==
  ASSUME NEW c \in Codes
  PROVE  c \in Nat /\ c >= 1 /\ c <= 1114111
  BY TextAssumption, SMT

LEMMA PiecesAreBytes ==
  ASSUME NEW codes \in Seq(Codes)
  PROVE  /\ Pieces(codes) \in Seq(Seq(Octets)) /\ Len(Pieces(codes)) = Len(codes)
         /\ \A i \in 1 .. Len(codes) :
              /\ Pieces(codes)[i] = cn_term_write_code(codes[i])
              /\ Len(Pieces(codes)[i]) \in Nat \ {0}
              /\ Pieces(codes)[i] \in Seq(Octets)
  <1>1. \A c \in Codes : /\ cn_term_write_code(c) \in Seq(Octets)
                         /\ Len(cn_term_write_code(c)) \in Nat \ {0}
    BY CodesAreCodes, WrittenBytes, SMT
  <1>2. \A i \in 1 .. Len(codes) : codes[i] \in Codes
    BY ElementOfSeq
  <1>3. DOMAIN codes = 1 .. Len(codes) /\ Len(codes) \in Nat
    BY LenProperties
  <1>4. \A i \in 1 .. Len(codes) : cn_term_write_code(codes[i]) \in Seq(Octets)
                                    /\ Len(cn_term_write_code(codes[i])) \in Nat \ {0}
    BY <1>1, <1>2
  <1>5. Pieces(codes) = [i \in 1 .. Len(codes) |-> cn_term_write_code(codes[i])]
    BY <1>3 DEF Pieces
  <1>6. Pieces(codes) \in Seq(Seq(Octets)) /\ Len(Pieces(codes)) = Len(codes)
    BY <1>3, <1>4, <1>5, IsASeq, LenProperties
  <1> QED BY <1>4, <1>5, <1>6

LEMMA FlatCodes ==
  ASSUME NEW codes \in Seq(Codes), Len(codes) # 0,
         NEW n, n = Len(codes), NEW s, s = Pieces(codes), NEW f, f = FlatFcn(s)
  PROVE  /\ n \in Nat /\ n >= 1 /\ Len(s) = n /\ f[1] = s[1]
         /\ \A i \in 2 .. n : f[i] = f[i - 1] \o s[i]
         /\ \A i \in 1 .. n : f[i] \in Seq(Octets) /\ s[i] \in Seq(Octets)
  <1>1. s \in Seq(Seq(Octets)) /\ Len(s) = n /\ n \in Nat /\ n >= 1
    BY PiecesAreBytes
  <1> QED BY <1>1, FlatParts

\* The lengths and the bytes of a concatenation.
LEMMA ConcatBytes ==
  ASSUME NEW p \in Seq(Octets), NEW q \in Seq(Octets)
  PROVE  /\ Len(p) \in Nat /\ Len(q) \in Nat /\ Len(p \o q) = Len(p) + Len(q)
         /\ \A j \in 1 .. Len(p) : (p \o q)[j] = p[j]
         /\ \A j \in 1 .. Len(q) : (p \o q)[Len(p) + j] = q[j]
  <1>1. Len(p) \in Nat /\ Len(q) \in Nat /\ Len(p \o q) = Len(p) + Len(q)
    BY ConcatProperties, LenProperties
  <1>2. ASSUME NEW j \in 1 .. Len(p) PROVE (p \o q)[j] = p[j]
    <2>1. j \in 1 .. Len(p) + Len(q) /\ j <= Len(p)
      BY <1>1
    <2> QED BY <2>1, ConcatProperties
  <1>3. ASSUME NEW j \in 1 .. Len(q) PROVE (p \o q)[Len(p) + j] = q[j]
    <2>1. /\ Len(p) + j \in 1 .. Len(p) + Len(q) /\ ~(Len(p) + j <= Len(p))
          /\ Len(p) + j - Len(p) = j
      BY <1>1
    <2> QED BY <2>1, ConcatProperties
  <1> QED BY <1>1, <1>2, <1>3

LEMMA JoinedBytes ==
  ASSUME NEW p \in Seq(Octets), NEW q \in Seq(Octets), NEW r, r = p \o q
  PROVE  /\ Len(p) \in Nat /\ Len(q) \in Nat /\ Len(r) = Len(p) + Len(q)
         /\ \A j \in 1 .. Len(p) : r[j] = p[j]
         /\ \A j \in 1 .. Len(q) : r[Len(p) + j] = q[j]
  BY ConcatBytes

LEMMA BeforeSteps ==
  ASSUME NEW codes \in Seq(Codes), Len(codes) # 0
  PROVE  /\ Encoded(codes) = FlatFcn(Pieces(codes))[Len(codes)]
         /\ Encoded(codes) \in Seq(Octets)
         /\ Before(codes, 0) = 0 /\ Before(codes, Len(codes)) = Len(Encoded(codes))
         /\ \A k \in 0 .. Len(codes) - 1 :
              /\ Before(codes, k) \in Nat
              /\ Before(codes, k + 1) = Before(codes, k) + Len(Pieces(codes)[k + 1])
  <1> DEFINE s == Pieces(codes)
             f == FlatFcn(s)
             n == Len(codes)
  <1>1. s \in Seq(Seq(Octets)) /\ Len(s) = n /\ n \in Nat /\ n >= 1
    BY PiecesAreBytes
  <1>2. /\ f[1] = s[1]
        /\ \A k \in 2 .. n : f[k] = f[k - 1] \o s[k]
        /\ \A k \in 1 .. n : f[k] \in Seq(Octets) /\ s[k] \in Seq(Octets)
    BY <1>1, FlatParts
  <1>3. Encoded(codes) = f[n]
    BY <1>1, FlattenIsRecursive DEF Encoded, Pieces
  <1>4. Before(codes, 0) = 0 /\ \A k \in 1 .. n : Before(codes, k) = Len(f[k])
    BY <1>1 DEF Before
  <1> HIDE DEF f, s
  <1>5. ASSUME NEW k \in 0 .. n - 1
        PROVE  /\ Before(codes, k) \in Nat
               /\ Before(codes, k + 1) = Before(codes, k) + Len(s[k + 1])
    <2>1. CASE k = 0
      <3>1. 1 \in 1 .. n
        BY <1>1
      <3>2. Before(codes, 1) = Len(s[1]) /\ s[1] \in Seq(Octets)
        BY <1>2, <1>4, <3>1
      <3>3. Len(s[1]) \in Nat
        BY <3>2
      <3> QED BY <1>4, <2>1, <3>2, <3>3
    <2>2. CASE k > 0
      <3>1. k \in 1 .. n /\ k + 1 \in 2 .. n /\ k + 1 \in 1 .. n /\ k + 1 - 1 = k
        BY <1>1, <2>2
      <3>2. f[k + 1] = f[k] \o s[k + 1]
        <4> DEFINE j == k + 1
        <4>1. j \in 2 .. n /\ j - 1 = k
          BY <3>1
        <4> HIDE DEF j
        <4>2. f[j] = f[j - 1] \o s[j]
          BY <1>2, <4>1
        <4> QED BY <4>1, <4>2 DEF j
      <3>3. f[k] \in Seq(Octets) /\ s[k + 1] \in Seq(Octets)
        BY <1>2, <3>1
      <3>4. Len(f[k + 1]) = Len(f[k]) + Len(s[k + 1]) /\ Len(f[k]) \in Nat
        BY <3>2, <3>3, ConcatProperties, LenProperties
      <3>5. Before(codes, k) = Len(f[k]) /\ Before(codes, k + 1) = Len(f[k + 1])
        BY <1>4, <3>1
      <3> QED BY <3>4, <3>5
    <2> QED BY <2>1, <2>2
  <1>6. n \in 1 .. n
    BY <1>1
  <1> QED BY <1>2, <1>3, <1>4, <1>5, <1>6 DEF f, s

\* The bytes of the first k codes stay where they are when more are written.
LEMMA PartStays ==
  ASSUME NEW codes \in Seq(Codes), Len(codes) # 0, NEW k \in 1 .. Len(codes),
         NEW m \in Nat, k + m <= Len(codes)
  PROVE  LET f == FlatFcn(Pieces(codes)) IN
         /\ Len(f[k]) <= Len(f[k + m])
         /\ \A j \in 1 .. Len(f[k]) : f[k + m][j] = f[k][j]
  <1> DEFINE s == Pieces(codes)
             f == FlatFcn(s)
             n == Len(codes)
             Same(i) == Len(f[k]) <= Len(f[i]) /\ \A j \in 1 .. Len(f[k]) : f[i][j] = f[k][j]
             P == {i \in Nat : k + i <= n => Same(k + i)}
  <1>1. /\ n \in Nat /\ n >= 1 /\ Len(s) = n /\ f[1] = s[1]
        /\ \A i \in 2 .. n : f[i] = f[i - 1] \o s[i]
        /\ \A i \in 1 .. n : f[i] \in Seq(Octets) /\ s[i] \in Seq(Octets)
    BY FlatCodes
  <1> HIDE DEF f, s
  <1>2. Len(f[k]) \in Nat
    BY <1>1
  <1>3. 0 \in P
    BY <1>1, <1>2
  <1>4. ASSUME NEW i \in Nat, i \in P PROVE i + 1 \in P
    <2> SUFFICES ASSUME k + (i + 1) <= n PROVE Same(k + (i + 1))
      OBVIOUS
    <2> DEFINE b == k + i
               a == k + (i + 1)
    <2>1. b \in 1 .. n /\ a \in 1 .. n /\ a \in 2 .. n /\ a - 1 = b
      BY <1>1
    <2>2. Same(b)
      BY <1>1, <1>4
    <2> HIDE DEF a, b
    <2>3. f[a] = f[b] \o s[a] /\ f[b] \in Seq(Octets) /\ s[a] \in Seq(Octets)
      BY <1>1, <2>1
    <2>4. /\ Len(f[a]) = Len(f[b]) + Len(s[a]) /\ Len(f[b]) \in Nat /\ Len(s[a]) \in Nat
          /\ \A j \in 1 .. Len(f[b]) : f[a][j] = f[b][j]
      <3> DEFINE p == f[b]
                 q == s[a]
                 r == f[a]
      <3>1. p \in Seq(Octets) /\ q \in Seq(Octets) /\ r = p \o q
        BY <2>3
      <3> HIDE DEF p, q, r
      <3>2. /\ Len(p) \in Nat /\ Len(q) \in Nat /\ Len(r) = Len(p) + Len(q)
            /\ \A j \in 1 .. Len(p) : r[j] = p[j]
        BY <3>1, JoinedBytes
      <3> QED BY <3>2 DEF p, q, r
    <2>5. Same(a)
      <3>1. Len(f[k]) <= Len(f[a])
        <4> DEFINE x == Len(f[k])
                   y == Len(f[b])
                   z == Len(s[a])
                   w == Len(f[a])
        <4>1. x \in Nat /\ y \in Nat /\ z \in Nat /\ x <= y /\ w = y + z
          BY <1>2, <2>2, <2>4
        <4> HIDE DEF x, y, z, w
        <4>2. x <= w
          BY <4>1
        <4> QED BY <4>2 DEF x, w
      <3>2. ASSUME NEW j \in 1 .. Len(f[k]) PROVE f[a][j] = f[k][j]
        <4>1. j \in 1 .. Len(f[b])
          BY <1>2, <2>2, <2>4
        <4> QED BY <2>2, <2>4, <4>1
      <3> QED BY <3>1, <3>2
    <2> QED BY <2>5 DEF a
  <1>5. m \in P
    <2> HIDE DEF P
    <2> QED BY <1>3, <1>4, SetInduction
  <1>6. Same(k + m)
    BY <1>5
  <1> QED BY <1>6 DEF f, s

\* In the string of codes the k+1-th stands behind the bytes of the first k.
LEMMA CodeStands ==
  ASSUME NEW codes \in Seq(Codes), Len(codes) # 0, NEW k \in 0 .. Len(codes) - 1
  PROVE  Holds(Encoded(codes), Before(codes, k), Pieces(codes)[k + 1])
  <1> DEFINE s == Pieces(codes)
             f == FlatFcn(s)
             n == Len(codes)
             text_ == Encoded(codes)
             b == Before(codes, k)
             a == k + 1
  <1>1. /\ n \in Nat /\ n >= 1 /\ Len(s) = n /\ f[1] = s[1]
        /\ \A i \in 2 .. n : f[i] = f[i - 1] \o s[i]
        /\ \A i \in 1 .. n : f[i] \in Seq(Octets) /\ s[i] \in Seq(Octets)
    BY FlatCodes
  <1>2. text_ = f[n] /\ b \in Nat
    BY BeforeSteps
  <1>3. a \in 1 .. n /\ a \in Nat /\ n - a \in Nat /\ a + (n - a) = n
    BY <1>1
  <1>4. Len(f[a]) <= Len(f[n]) /\ \A j \in 1 .. Len(f[a]) : f[n][j] = f[a][j]
    <2> DEFINE m == n - a
    <2>1. a \in 1 .. n /\ m \in Nat /\ a + m <= n /\ a + m = n
      BY <1>3
    <2> HIDE DEF a, m, f, s
    <2>2. /\ Len(FlatFcn(Pieces(codes))[a]) <= Len(FlatFcn(Pieces(codes))[a + m])
          /\ \A j \in 1 .. Len(FlatFcn(Pieces(codes))[a]) :
               FlatFcn(Pieces(codes))[a + m][j] = FlatFcn(Pieces(codes))[a][j]
      BY <2>1, PartStays
    <2> QED BY <2>1, <2>2 DEF f, s
  <1>5. Len(f[a]) = b + Len(s[a]) /\ Len(s[a]) \in Nat
        /\ \A j \in 1 .. Len(s[a]) : f[a][b + j] = s[a][j]
    <2>1. CASE k = 0
      <3>1. b = 0 /\ f[a] = s[a] /\ s[a] \in Seq(Octets)
        BY <1>1, <2>1 DEF Before
      <3> HIDE DEF f, s, b
      <3> QED BY <3>1
    <2>2. CASE k > 0
      <3>1. a \in 2 .. n /\ a - 1 = k /\ k \in 1 .. n
        BY <1>1, <2>2
      <3>2. b = Len(f[k])
        BY <3>1 DEF Before
      <3> HIDE DEF f, s, b, a
      <3>3. f[a] = f[k] \o s[a] /\ f[k] \in Seq(Octets) /\ s[a] \in Seq(Octets)
        BY <1>1, <1>3, <3>1
      <3>4. /\ Len(f[a]) = Len(f[k]) + Len(s[a]) /\ Len(f[k]) \in Nat /\ Len(s[a]) \in Nat
            /\ \A j \in 1 .. Len(s[a]) : f[a][Len(f[k]) + j] = s[a][j]
        <4> DEFINE p == f[k]
                   q == s[a]
                   r == f[a]
        <4>1. p \in Seq(Octets) /\ q \in Seq(Octets) /\ r = p \o q
          BY <3>3
        <4> HIDE DEF p, q, r
        <4>2. /\ Len(p) \in Nat /\ Len(q) \in Nat /\ Len(r) = Len(p) + Len(q)
              /\ \A j \in 1 .. Len(q) : r[Len(p) + j] = q[j]
          BY <4>1, JoinedBytes
        <4> QED BY <4>2 DEF p, q, r
      <3> QED BY <3>2, <3>4
    <2> QED BY <2>1, <2>2
  <1> HIDE DEF f, s, b, a, text_
  <1>6. b + Len(s[a]) <= Len(text_)
    BY <1>2, <1>4, <1>5
  <1>7. ASSUME NEW j \in 1 .. Len(s[a]) PROVE text_[b + j] = s[a][j]
    <2>1. b + j \in 1 .. Len(f[a])
      BY <1>2, <1>5
    <2> QED BY <1>2, <1>4, <1>5, <2>1
  <1>8. Holds(text_, b, s[a])
    BY <1>6, <1>7 DEF Holds
  <1> QED BY <1>8 DEF text_, b, s, a

\* What is left of the width is a number everywhere.
LEMMA RestIsNumber ==
  ASSUME NEW value \in Seq(Octets), NEW i \in 1 .. Len(value) + 1
  PROVE  WidthFcn(value)[i] \in Int
  <1> DEFINE n == Len(value)
             f == WidthFcn(value)
             P == {k \in Nat : \A j \in 1 .. n + 1 : j + k > n => f[j] \in Int}
  <1>1. n \in Nat /\ f[n + 1] = 0
    BY WidthLeft
  <1>2. \A j \in 1 .. n : /\ f[j] = cn_term_codepoint_width(WidthStep(value, j).code)
                                     + f[j + WidthStep(value, j).step]
                          /\ WidthStep(value, j).step \in 1 .. 4
                          /\ j + WidthStep(value, j).step <= n + 1
                          /\ cn_term_codepoint_width(WidthStep(value, j).code) \in Int
    <2>1. TAKE j \in 1 .. n
    <2>2. WidthStep(value, j).code \in Int
      BY <2>1, StepInside
    <2>3. cn_term_codepoint_width(WidthStep(value, j).code) \in 0 .. 2
      BY <2>2, WidthIsNumber
    <2> QED BY <2>1, <2>3, StepInside, WidthLeft
  <1> HIDE DEF f
  <1>3. 0 \in P
    <2>1. \A j \in 1 .. n + 1 : j + 0 > n => j = n + 1
      BY <1>1
    <2> QED BY <1>1, <2>1
  <1>4. ASSUME NEW k \in Nat, k \in P PROVE k + 1 \in P
    <2> SUFFICES ASSUME NEW j \in 1 .. n + 1, j + (k + 1) > n PROVE f[j] \in Int
      BY <1>4
    <2>1. CASE j = n + 1
      BY <1>1, <2>1
    <2>2. CASE j # n + 1
      <3> DEFINE s == WidthStep(value, j).step
                 w == cn_term_codepoint_width(WidthStep(value, j).code)
      <3>1. j \in 1 .. n
        BY <1>1, <2>2
      <3>2. f[j] = w + f[j + s] /\ s \in 1 .. 4 /\ j + s <= n + 1 /\ w \in Int
        BY <1>2, <3>1
      <3> HIDE DEF s, w
      <3>3. j + s \in 1 .. n + 1 /\ (j + s) + k > n
        BY <1>1, <3>1, <3>2
      <3>4. f[j + s] \in Int
        BY <1>4, <3>3
      <3> QED BY <3>2, <3>4
    <2> QED BY <2>1, <2>2
  <1>5. n \in P
    <2> HIDE DEF P
    <2> QED BY <1>1, <1>3, <1>4, SetInduction
  <1>6. i + n > n
    BY <1>1
  <1> QED BY <1>5, <1>6 DEF f

\* The walk has seen the codes of the bytes behind it, and their columns and
\* the columns that are left make up the width of the string.
WalkKept ==
  /\ text \in Seq(Octets) /\ offset \in Nat /\ offset <= Len(text)
  /\ columns \in Int
  /\ columns + WidthFcn(text)[offset + 1] = cn_term_string_width(text)
  /\ walked \in Seq(Int) /\ meant \in Seq(Codes)
  /\ meant # <<>> =>
       /\ text = Encoded(meant)
       /\ Len(walked) <= Len(meant) /\ offset = Before(meant, Len(walked))
       /\ \A j \in 1 .. Len(walked) : walked[j] = meant[j]

LEMMA WalkKeptAgrees == WalkKept => WalkAgrees
  <1> SUFFICES ASSUME WalkKept PROVE WalkAgrees
    OBVIOUS
  <1>1. text \in Seq(Octets) /\ offset <= Len(text) /\ columns \in Int
        /\ columns + WidthFcn(text)[offset + 1] = cn_term_string_width(text)
    BY DEF WalkKept
  <1>2. offset = Len(text) => columns = cn_term_string_width(text)
    <2>1. WidthFcn(text)[Len(text) + 1] = 0
      BY <1>1, WidthLeft
    <2> QED BY <1>1, <2>1
  <1>3. ASSUME meant # <<>> PROVE IsPrefix(walked, meant)
    <2>1. /\ walked \in Seq(Int) /\ meant \in Seq(Codes) /\ Len(walked) <= Len(meant)
          /\ \A j \in 1 .. Len(walked) : walked[j] = meant[j]
      BY <1>3 DEF WalkKept
    <2>2. SubSeq(walked, 1, Len(walked)) = SubSeq(meant, 1, Len(walked))
      BY <2>1
    <2> QED BY <2>1, <2>2 DEF IsPrefix
  <1> QED BY <1>1, <1>2, <1>3 DEF WalkAgrees

LEMMA BoundedIsSeq ==
  ASSUME NEW S, NEW n \in Nat, NEW s \in BoundedSeq(S, n)
  PROVE  s \in Seq(S)
  BY DEF BoundedSeq, SeqOf

LEMMA WalkStarts == Init => WalkKept
  <1> SUFFICES ASSUME Init PROVE WalkKept
    OBVIOUS
  <1>1. /\ meant \in BoundedSeq(Codes, TextLength)
        /\ text \in IF meant # <<>> THEN {Encoded(meant)} ELSE BoundedSeq(OddBytes, OddLength)
        /\ offset = 0 /\ walked = <<>> /\ columns = 0
    BY DEF Init, TextInit
  <1>2. meant \in Seq(Codes)
    BY <1>1, BoundedIsSeq, TextAssumption
  <1>3. text \in Seq(Octets) /\ (meant # <<>> => text = Encoded(meant) /\ Len(meant) # 0)
    <2>1. CASE meant = <<>>
      <3>1. text \in Seq(OddBytes)
        BY <1>1, <2>1, BoundedIsSeq, TextAssumption
      <3>2. OddBytes \subseteq Octets
        BY TextAssumption, SMT DEF Octets
      <3> QED BY <2>1, <3>1, <3>2
    <2>2. CASE meant # <<>>
      <3>1. Len(meant) # 0 /\ text = Encoded(meant)
        BY <1>1, <1>2, <2>2, EmptySeq
      <3> QED BY <1>2, <3>1, BeforeSteps
    <2> QED BY <2>1, <2>2
  <1>4. WidthFcn(text)[0 + 1] \in Int /\ cn_term_string_width(text) = WidthFcn(text)[0 + 1]
    <2>1. 1 \in 1 .. Len(text) + 1 /\ 0 + 1 = 1
      BY <1>3
    <2> QED BY <1>3, <2>1, RestIsNumber, WidthLeft
  <1>5. walked \in Seq(Int) /\ Len(walked) = 0
    BY <1>1
  <1>6. Before(meant, 0) = 0
    BY DEF Before
  <1> QED BY <1>1, <1>2, <1>3, <1>4, <1>5, <1>6 DEF WalkKept

\* One step of the walk.
LEMMA WalkStep == WalkKept /\ Walk => WalkKept'
  <1> SUFFICES ASSUME WalkKept, Walk PROVE WalkKept'
    OBVIOUS
  <1> DEFINE code == WidthStep(text, offset + 1).code
             step == WidthStep(text, offset + 1).step
  <1>1. text \in Seq(Octets) /\ offset \in Nat /\ offset <= Len(text) /\ Len(text) \in Nat
    BY DEF WalkKept
  <1>2. offset < Len(text)
    <2>1. cn_term_string_decode_at(text, offset).ok
      BY DEF Walk
    <2>2. offset >= Len(text) => cn_term_string_decode_at(text, offset) = NoCode
      BY DEF cn_term_string_decode_at
    <2>3. ~NoCode.ok
      BY DEF NoCode
    <2> QED BY <1>1, <2>1, <2>2, <2>3
  <1>3. cn_term_string_decode_at(text, offset) = [ok |-> TRUE, code |-> code, next |-> offset + step]
    BY <1>1, <1>2, StepsAgree DEF SameStep
  <1>4. /\ walked' = Append(walked, code) /\ columns' = columns + cn_term_codepoint_width(code)
        /\ offset' = offset + step /\ text' = text /\ meant' = meant
    <2> HIDE DEF code, step
    <2> QED BY <1>3 DEF Walk, cn_term_decode_codepoint, cn_term_next_codepoint_offset
  <1>5. /\ step \in 1 .. 4 /\ offset + 1 + step <= Len(text) + 1 /\ code \in Int
        /\ offset + 1 \in 1 .. Len(text)
    <2>1. offset + 1 \in 1 .. Len(text)
      BY <1>1, <1>2
    <2> QED BY <1>1, <2>1, StepInside
  <1>6. /\ WidthFcn(text)[offset + 1]
             = cn_term_codepoint_width(code) + WidthFcn(text)[offset + 1 + step]
        /\ cn_term_codepoint_width(code) \in Int
        /\ WidthFcn(text)[offset + 1 + step] \in Int
    <2>1. offset + 1 + step \in 1 .. Len(text) + 1
      BY <1>1, <1>5
    <2>2. cn_term_codepoint_width(code) \in 0 .. 2
      BY <1>5, WidthIsNumber
    <2> QED BY <1>1, <1>5, <2>1, <2>2, WidthLeft, RestIsNumber
  <1> HIDE DEF code, step
  <1>7. text' \in Seq(Octets) /\ offset' \in Nat /\ offset' <= Len(text')
    BY <1>1, <1>4, <1>5
  <1>8. /\ columns' \in Int
        /\ columns' + WidthFcn(text')[offset' + 1] = cn_term_string_width(text')
    <2> DEFINE w == cn_term_codepoint_width(code)
               r == WidthFcn(text)[offset + 1 + step]
               all == cn_term_string_width(text)
    <2>1. columns \in Int /\ columns + WidthFcn(text)[offset + 1] = all
      BY DEF WalkKept
    <2>2. WidthFcn(text)[offset + 1] = w + r /\ w \in Int /\ r \in Int /\ columns' = columns + w
      BY <1>4, <1>6
    <2>3. WidthFcn(text')[offset' + 1] = r /\ cn_term_string_width(text') = all
      <3>1. offset' + 1 = offset + 1 + step
        BY <1>1, <1>4, <1>5
      <3> QED BY <1>4, <3>1
    <2> HIDE DEF w, r, all
    <2>4. columns + (w + r) = all
      BY <2>1, <2>2
    <2>5. columns' + r = all /\ columns' \in Int
      BY <2>1, <2>2, <2>4
    <2> QED BY <2>3, <2>5
  <1>9. walked' \in Seq(Int) /\ meant' \in Seq(Codes)
    BY <1>4, <1>5 DEF WalkKept
  <1>10. ASSUME meant' # <<>>
         PROVE  /\ text' = Encoded(meant')
                /\ Len(walked') <= Len(meant') /\ offset' = Before(meant', Len(walked'))
                /\ \A j \in 1 .. Len(walked') : walked'[j] = meant'[j]
    <2> DEFINE k == Len(walked)
               n == Len(meant)
    <2>1. /\ meant \in Seq(Codes) /\ n \in Nat /\ n # 0 /\ text = Encoded(meant)
          /\ k <= n /\ offset = Before(meant, k) /\ walked \in Seq(Int) /\ k \in Nat
          /\ \A j \in 1 .. k : walked[j] = meant[j]
      BY <1>4, <1>10, EmptySeq DEF WalkKept
    <2>2. k \in 0 .. n - 1
      <3>1. k # n
        BY <1>2, <2>1, BeforeSteps
      <3> QED BY <2>1, <3>1
    <2>3. k + 1 \in 1 .. n
      BY <2>1, <2>2
    <2>4. Holds(text, offset, Pieces(meant)[k + 1]) /\ Before(meant, k + 1) = offset + Len(Pieces(meant)[k + 1])
      BY <2>1, <2>2, CodeStands, BeforeSteps
    <2>5. Pieces(meant)[k + 1] = cn_term_write_code(meant[k + 1])
      BY <2>1, <2>3, PiecesAreBytes
    <2>6. meant[k + 1] \in Codes
      BY <2>1, <2>3, ElementOfSeq
    <2>7. WidthStep(text, offset + 1)
            = [code |-> meant[k + 1], step |-> Len(cn_term_write_code(meant[k + 1]))]
      <3> DEFINE c == meant[k + 1]
      <3>1. c \in Nat /\ c >= 1 /\ c <= 1114111
        BY <2>6, CodesAreCodes
      <3>2. Holds(text, offset, cn_term_write_code(c))
        BY <2>4, <2>5
      <3> HIDE DEF c
      <3>3. WidthStep(text, offset + 1) = [code |-> c, step |-> Len(cn_term_write_code(c))]
        BY <1>1, <3>1, <3>2, ReadsBack
      <3> QED BY <3>3 DEF c
    <2>8. code = meant[k + 1] /\ step = Len(Pieces(meant)[k + 1])
      BY <2>5, <2>7 DEF code, step
    <2>9. Len(walked') = k + 1 /\ \A j \in 1 .. k + 1 : walked'[j] = IF j = k + 1 THEN code ELSE walked[j]
      <3>1. walked' = Append(walked, code) /\ walked \in Seq(Int) /\ code \in Int
        BY <1>4, <1>5, <2>1
      <3> QED BY <3>1, AppendProperties
    <2>10. \A j \in 1 .. k + 1 : walked'[j] = meant[j]
      <3> SUFFICES ASSUME NEW j \in 1 .. k + 1 PROVE walked'[j] = meant[j]
        OBVIOUS
      <3>1. j # k + 1 => j \in 1 .. k
        BY <2>1
      <3> QED BY <2>1, <2>8, <2>9, <3>1
    <2> HIDE DEF k
    <2>11. offset' = Before(meant, k + 1)
      BY <1>4, <2>4, <2>8
    <2>12. k + 1 <= Len(meant)
      BY <2>3
    <2> QED BY <1>4, <2>1, <2>9, <2>10, <2>11, <2>12
  <1> QED BY <1>7, <1>8, <1>9, <1>10 DEF WalkKept

\* A walk over a string of any bytes stays inside it and has seen, at its end,
\* exactly the columns of cn_term_string_width; over text of any code points
\* it sees the codes that cn_term_write_code wrote, in their order (term.c,
\* cn_term_string_decode_at against cn_term_string_width).
THEOREM WalksAgree == Spec => []WalkAgrees
  <1>1. Init => WalkKept
    BY WalkStarts
  <1>2. WalkKept /\ [Next]_vars => WalkKept'
    <2> SUFFICES ASSUME WalkKept, [Next]_vars PROVE WalkKept'
      OBVIOUS
    <2>1. CASE UNCHANGED textVars
      <3>1. UNCHANGED <<text, meant, offset, walked, columns>>
        BY <2>1 DEF textVars
      <3> QED BY <3>1 DEF WalkKept
    <2>2. CASE Walk
      BY <2>2, WalkStep
    <2>3. UNCHANGED textVars \/ Walk
      BY DEF Next, InputStep, ModeStep, TextStep, ScreenStep, vars
    <2> QED BY <2>1, <2>2, <2>3
  <1> QED BY <1>1, <1>2, WalkKeptAgrees, PTL DEF Spec
=============================================================================
