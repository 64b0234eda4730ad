------------------------------ MODULE TermScreen -------------------------------
(***************************************************************************)
(* Cell buffers of std.term and the renderer that brings the terminal from *)
(* the front buffer to the back buffer with as little output as it can     *)
(* (src/src/backend/stdlib/term.c).  The program fills the back buffer and *)
(* calls render_diff; the renderer trusts the front buffer to say what the *)
(* terminal shows, writes the cells that differ, and copies them to the    *)
(* front.  The terminal itself is external: a grid with a cursor and a     *)
(* style, in which a wide glyph takes two columns and writing on one half  *)
(* of it erases the other.                                                 *)
(***************************************************************************)
EXTENDS TermText

CONSTANTS
    Rows, Cols,    \* size of the terminal
    Cells,         \* the cells the program draws
    Fills,         \* the cells it clears and resizes with
    Clips,         \* the clips it renders
    Dims,          \* sizes of buffers, <<height, width>>
    Garbage        \* cells that malloc may leave in a new buffer

ASSUME ScreenAssumption ==
    /\ Rows \in Nat \ {0} /\ Cols \in Nat \ {0}
    /\ Dims \subseteq (0 .. Rows) \X (0 .. Cols)

VARIABLES
    back, front,   \* the two buffers, or Null
    screen,        \* what the terminal shows
    \* history variables
    frame,         \* what the last rendering was to show; Null once the
                   \* program touched the front buffer or the terminal
    misled         \* the renderer got what it cannot render

screenVars == <<back, front, screen, frame, misled>>

---------------------------------------------------------------------------
(* Cells and buffers. *)

Null == [h |-> 0, w |-> 0, cells |-> <<>>]
Area(h, w) == (0 .. h - 1) \X (0 .. w - 1)

make_cell(code, style, wide) == [code |-> code, style |-> style, wide |-> wide]
Continuation(style) == make_cell(-1, style, FALSE)
Blank == make_cell(32, "plain", FALSE)

\* The renderer starts with a style no cell should have; a program can ask for
\* it all the same.
NoStyle == "fg -2, bg -2, attrs -1"

\* cn_term_buffer_index
InBuffer(b, r, c) == r \in 0 .. b.h - 1 /\ c \in 0 .. b.w - 1

---------------------------------------------------------------------------
(* The terminal. *)

Glyph(code, style, half) == [code |-> code, style |-> style, half |-> half]
BlankGlyph == Glyph(32, "plain", 0)

\* Writing at column c erases the other half of a wide glyph it cuts.
Erase(s, r, c) ==
    [p \in DOMAIN s |->
        IF \/ p = <<r, c + 1>> /\ s[<<r, c>>].half = 1
           \/ p = <<r, c - 1>> /\ s[<<r, c>>].half = 2
        THEN BlankGlyph ELSE s[p]]

\* cn_term_write_code writes a question mark for what is no code.
cn_term_written(code) == IF code \in 0 .. 1114111 THEN code ELSE 63

\* A glyph that does not fit in the row goes to the start of the next one;
\* in the last row there is none, and it is lost.
Put(term, code) ==
    LET shown == cn_term_written(code)
        w == cn_term_codepoint_width(shown)
        fits == term.c + w <= Cols
        r == IF fits THEN term.r ELSE term.r + 1
        c == IF fits THEN term.c ELSE 0
    IN IF w = 0 \/ r >= Rows \/ w > Cols THEN term
       ELSE LET once == Erase(term.screen, r, c)
                twice == IF w = 2 THEN Erase(once, r, c + 1) ELSE once
                one == [twice EXCEPT ![<<r, c>>] = Glyph(shown, term.style, IF w = 2 THEN 1 ELSE 0)]
            IN [term EXCEPT !.r = r, !.c = c + w,
                  !.screen = IF w = 2 THEN [one EXCEPT ![<<r, c + 1>>] = Glyph(shown, term.style, 2)]
                             ELSE one]

---------------------------------------------------------------------------
(* When the renderer can be held to its promise. *)

\* A frame the terminal can show cell by cell: every wide code is marked wide
\* and followed by its continuation, nothing else is, no code is invisible and
\* no cell has the renderer's own style mark.
WellFormed(h, w, cells) ==
    \A p \in Area(h, w) :
      LET cell == cells[p]
          width == cn_term_codepoint_width(cell.code)
          left == <<p[1], p[2] - 1>>
          right == <<p[1], p[2] + 1>>
      IN /\ cell.style # NoStyle
         /\ cell.wide <=> width = 2
         /\ IF cell.code = -1 THEN p[2] > 0 /\ cells[left].wide ELSE width > 0
         /\ cell.wide => right \in Area(h, w) /\ cells[right] = Continuation(cell.style)

Shows(s, h, w, cells) ==
    \A p \in Area(h, w) :
      LET cell == cells[p] IN
      IF cell.code = -1
      THEN s[p] = Glyph(cells[<<p[1], p[2] - 1>>].code, cell.style, 2)
      ELSE s[p] = Glyph(cell.code, cell.style, IF cell.wide THEN 1 ELSE 0)

\* The front buffer describes the terminal, as the renderer takes for granted.
Agree ==
    /\ WellFormed(front.h, front.w, front.cells)
    /\ Shows(screen, front.h, front.w, front.cells)

---------------------------------------------------------------------------
ScreenInit ==
    /\ back = Null /\ front = Null /\ frame = Null
    /\ screen = [p \in Area(Rows, Cols) |-> BlankGlyph]
    /\ misled = FALSE

\* The buffers, by role: the calls take either.
Replace(which, b) ==
    /\ IF which = "back" THEN back' = b /\ UNCHANGED <<front, frame>>
                          ELSE front' = b /\ frame' = Null /\ UNCHANGED back
    /\ UNCHANGED <<screen, misled>>

Buffer(which) == IF which = "back" THEN back ELSE front

\* The cells of a new buffer are what malloc returned.
cn_term_buffer_new(which, d) ==
    /\ Buffer(which) = Null /\ d[1] > 0 /\ d[2] > 0
    /\ \E junk \in [Area(d[1], d[2]) -> Garbage] :
         Replace(which, [h |-> d[1], w |-> d[2], cells |-> junk])

cn_term_buffer_free(which) ==
    /\ Buffer(which) # Null
    /\ Replace(which, Null)

cn_term_buffer_clear(which, fill) ==
    /\ Buffer(which) # Null
    /\ Replace(which, [Buffer(which) EXCEPT !.cells = [p \in DOMAIN @ |-> fill]])

\* The new array is filled and the common part copied; when malloc fails
\* nothing changes.
cn_term_buffer_resize(which, d, fill) ==
    LET b == Buffer(which) IN
    /\ b # Null /\ d[1] > 0 /\ d[2] > 0 /\ d # <<b.h, b.w>>
    /\ Replace(which, [h |-> d[1], w |-> d[2],
                       cells |-> [p \in Area(d[1], d[2]) |->
                                     IF InBuffer(b, p[1], p[2]) THEN b.cells[p] ELSE fill]])

\* The program draws in the back buffer only.
cn_term_buffer_set(r, c, value) ==
    LET norm == [value EXCEPT !.wide = @ \/ cn_term_codepoint_width(value.code) > 1] IN
    /\ InBuffer(back, r, c)
    /\ norm.wide => InBuffer(back, r, c + 1)
    /\ Replace("back", [back EXCEPT !.cells =
         [p \in DOMAIN @ |-> CASE p = <<r, c>> -> norm
                               [] p = <<r, c + 1>> /\ norm.wide -> Continuation(norm.style)
                               [] OTHER -> @[p]]])

cn_term_clear ==
    /\ screen' = [p \in DOMAIN screen |-> BlankGlyph]
    /\ frame' = Null
    /\ UNCHANGED <<back, front, misled>>

---------------------------------------------------------------------------
(* render_diff_clip: the cells of the clip in reading order. *)

cn_term_cells_equal(x, y) == x = y

\* What the escape sequences do to the terminal; a style stands for its
\* colours and attributes, and is set from a reset.
cn_term_move_cursor(term, p) == [term EXCEPT !.r = p[1], !.c = p[2]]
cn_term_set_style(term, style) == [term EXCEPT !.style = style]

\* Moves the cursor only from row to row.
RenderCell_in_row(st, p) ==
    LET cell == back.cells[p]
        at == IF st.cursor[1] = p[1] THEN st.term ELSE cn_term_move_cursor(st.term, p)
        width == cn_term_codepoint_width(cell.code)
    IN CASE cn_term_cells_equal(cell, st.cells[p]) -> st
         [] ~cn_term_cells_equal(cell, st.cells[p]) /\ cell.code = -1 ->
              [st EXCEPT !.cells[p] = cell]
         [] OTHER -> [cells  |-> [st.cells EXCEPT ![p] = cell],
                      cursor |-> <<p[1], p[2] + (IF width > 0 THEN width ELSE 1)>>,
                      style  |-> cell.style,
                      term   |-> Put(cn_term_set_style(at, cell.style), cell.code)]

RenderCell(st, p) ==
    LET cell == back.cells[p]
        at == IF st.cursor = p THEN st.term ELSE cn_term_move_cursor(st.term, p)
        styled == IF st.style = cell.style THEN at ELSE cn_term_set_style(at, cell.style)
        width == cn_term_codepoint_width(cell.code)
    IN CASE cn_term_cells_equal(cell, st.cells[p]) -> st
         [] ~cn_term_cells_equal(cell, st.cells[p]) /\ cell.code = -1 ->
              [st EXCEPT !.cells[p] = cell]
         [] OTHER -> [cells  |-> [st.cells EXCEPT ![p] = cell],
                      cursor |-> <<p[1], p[2] + (IF width > 0 THEN width ELSE 1)>>,
                      style  |-> cell.style,
                      term   |-> Put(styled, cell.code)]

ReadingOrder(rows, cols) ==
    [i \in 1 .. Len(rows) * Len(cols) |->
        <<rows[((i - 1) \div Len(cols)) + 1], cols[((i - 1) % Len(cols)) + 1]>>]

\* Start and end of the clip, cut to the buffer.
Clamp(from, length, limit) ==
    LET start == IF from < 0 THEN 0 ELSE from
        end == IF limit < from + length THEN limit ELSE from + length
    IN [i \in 1 .. (IF end > start THEN end - start ELSE 0) |-> start + i - 1]

cn_term_render_diff_clip(clip) ==
    LET rows == Clamp(clip.row, clip.height, back.h)
        cols == Clamp(clip.column, clip.width, back.w)
        inside == Range(rows) \X Range(cols)
        start == [cells |-> front.cells, cursor |-> <<-1, -1>>, style |-> NoStyle,
                  term |-> [screen |-> screen, r |-> 0, c |-> 0, style |-> "plain"]]
        end == FoldLeft(RenderCell, start, ReadingOrder(rows, cols))
        asked == [p \in DOMAIN front.cells |-> IF p \in inside THEN back.cells[p]
                                               ELSE front.cells[p]]
    IN /\ back # Null /\ front # Null
       /\ <<back.h, back.w>> = <<front.h, front.w>>
       /\ front' = [front EXCEPT !.cells = end.cells]
       /\ screen' = end.term.screen
       /\ frame' = [front EXCEPT !.cells = asked]
       /\ misled' = ~(Agree /\ WellFormed(back.h, back.w, asked))
       /\ UNCHANGED back

cn_term_render_diff ==
    cn_term_render_diff_clip([row |-> 0, column |-> 0, height |-> back.h, width |-> back.w])

\* Where the renderer was misled nothing more is promised, and the model goes
\* no further.
ScreenNext ==
  /\ ~misled
  /\ \/ \E which \in {"back", "front"} :
          \/ \E d \in Dims : cn_term_buffer_new(which, d)
          \/ cn_term_buffer_free(which)
          \/ \E fill \in Fills :
               \/ cn_term_buffer_clear(which, fill)
               \/ \E d \in Dims : cn_term_buffer_resize(which, d, fill)
     \/ \E p \in Area(Rows, Cols), cell \in Cells : cn_term_buffer_set(p[1], p[2], cell)
     \/ cn_term_clear
     \/ \E clip \in Clips : cn_term_render_diff_clip(clip)
     \/ cn_term_render_diff

---------------------------------------------------------------------------
\* However the program draws, clears, resizes and renders: when the front
\* buffer described the terminal at the first rendering after the program last
\* touched either, and every frame since was well formed, then the terminal
\* shows the frame last rendered, cell by cell with wide glyphs and styles,
\* and the front buffer still describes it.
ScreenShowsFrame ==
    ~misled /\ frame # Null =>
        front = frame /\ Shows(screen, frame.h, frame.w, frame.cells)
================================================================================
