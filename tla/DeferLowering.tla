--------------------------- MODULE DeferLowering ---------------------------
(***************************************************************************)
(* Function bodies from the checker to the printed code: scopes, zones,     *)
(* the proofs that a result is ok, and how `defer`, `try`, `zone` and      *)
(* `return` become straight code.                                          *)
(*                                                                         *)
(* The type checker accepts a function body (sema/typecheck.c), lowering   *)
(* copies the cleanup of every enclosing scope in front of each exit       *)
(* (ir/lower.c), the optimiser cuts what follows a return (ir/optimize.c), *)
(* and the LLVM printer gives each name the innermost binding at the place *)
(* it is printed (backend/llvm_text.c).  The machine below runs the        *)
(* printed code with every call and every other condition left open, and   *)
(* logs what it does.                                                      *)
(* `Run` is the language's own reading of the same body: statements in the *)
(* order they are written, the deferred ones when their scope is left.     *)
(*                                                                         *)
(* A statement is [k |-> kind, n |-> name, c |-> condition, b |-> block,   *)
(* e |-> else part]; a deferred statement is the only element of its b,    *)
(* and e holds no block or one.  "use" is an expression statement or an    *)
(* assignment of a plain value.  Expressions are reduced to the one name   *)
(* they read, together with the memory behind it.  Of results, "result" is *)
(* `let mut n:result T = f();`, "set" is `n = f();`, "setok" `n = ok v;`,  *)
(* "value" reads n.value, and "bool" is `let n:bool = c;`.  A place in the *)
(* body, a sequence of numbers, names the statement there, and so the      *)
(* binding or zone it makes; the names lowering generates, unique in a     *)
(* function, are such places.                                              *)
(***************************************************************************)
EXTENDS Naturals, Sequences, SequencesExt, TLC

CONSTANTS
    Programs,    \* function bodies: sequences of statements
    MaxChoices   \* how many conditions are decided before a run is left alone

NoName == "none"
Nowhere == << >>
NoNames == << >>
NewScope(zone) == [names |-> NoNames, zone |-> zone]

\* A condition: r.ok, a bool name, !c, c == literal, c != literal, c && d,
\* c || d, or any other expression, which the checker learns nothing from.
Condition(op, n, lit, parts) == [op |-> op, n |-> n, lit |-> lit, parts |-> parts]
Open == Condition("open", NoName, TRUE, << >>)

RECURSIVE NamesIn(_)
NamesIn(c) == ({c.n} \ {NoName}) \union UNION {NamesIn(c.parts[i]) : i \in DOMAIN c.parts}

-----------------------------------------------------------------------------
(* The type checker: which bodies reach lowering.  A scope maps names to    *)
(* their bindings and keeps the set of results known to be ok in it.        *)

InScope(scopes, n) == \E i \in DOMAIN scopes : n \in DOMAIN scopes[i].names
Lookup(scopes, n) ==
    scopes[SelectInSeq(scopes, LAMBDA s : n \in DOMAIN s.names)].names[n]
Define(scopes, n, value) == [scopes EXCEPT ![1].names = (n :> value) @@ @]

CheckScope(zone, guards) == [names |-> NoNames, zone |-> zone, result_guards |-> guards]

\* What a truth value says of results: a binding is ok, or a formula over that.
Proof(op, binding, left, right) == [op |-> op, binding |-> binding, left |-> left, right |-> right]
NoProof == [op |-> "none"]
Leaf(binding) == Proof("leaf", binding, NoProof, NoProof)
Negated(proof) == Proof("not", Nowhere, proof, NoProof)

\* at: where it was declared; zone: the depth of its value, 0 outside all zones.
Binding(type, at, zone) == [type |-> type, at |-> at, zone |-> zone, result_guard_proof |-> NoProof]

cn_scope_result_is_ok(scopes, n) ==
    \E i \in DOMAIN scopes : Lookup(scopes, n).at \in scopes[i].result_guards

cn_scope_mark_result_ok(scopes, bindings) ==
    [scopes EXCEPT ![1].result_guards = @ \union bindings]

RECURSIVE cn_result_proof_depends_on_binding(_, _)
cn_result_proof_depends_on_binding(proof, binding) ==
    CASE proof.op = "none" -> FALSE
      [] proof.op = "leaf" -> proof.binding = binding
      [] OTHER -> \/ cn_result_proof_depends_on_binding(proof.left, binding)
                  \/ cn_result_proof_depends_on_binding(proof.right, binding)

\* A plausible slip: names that stand for an earlier r.ok are left alone.
AliasesSurvive(scopes, binding) ==
    [i \in DOMAIN scopes |-> [scopes[i] EXCEPT !.result_guards = @ \ {binding}]]

\* Forget what is known of a result, here and in every scope around.
cn_scope_invalidate_result_proofs(scopes, binding) ==
    [i \in DOMAIN scopes |->
        [scopes[i] EXCEPT
            !.result_guards = @ \ {binding},
            !.names = [n \in DOMAIN @ |->
                IF cn_result_proof_depends_on_binding(@[n].result_guard_proof, binding)
                THEN [@[n] EXCEPT !.result_guard_proof = NoProof] ELSE @[n]]]]

RECURSIVE cn_build_result_proof(_, _)
cn_build_result_proof(scopes, c) ==
    LET part(i) == cn_build_result_proof(scopes, c.parts[i])
        flipped == (c.op = "==") # c.lit
    IN CASE c.op = "ok" -> Leaf(Lookup(scopes, c.n).at)
         [] c.op = "name" -> Lookup(scopes, c.n).result_guard_proof
         [] c.op = "not" -> IF part(1) = NoProof THEN NoProof ELSE Negated(part(1))
         [] c.op \in {"==", "!="} ->
              IF part(1) # NoProof /\ flipped THEN Negated(part(1)) ELSE part(1)
         [] c.op \in {"&&", "||"} ->
              IF part(1) = NoProof /\ part(2) = NoProof THEN NoProof
              ELSE Proof(c.op, Nowhere, part(1), part(2))
         [] OTHER -> NoProof

\* The results that must be ok when what the proof is about is true, or false.
RECURSIVE cn_mark_result_ok_proof_for_branch(_, _)
cn_mark_result_ok_proof_for_branch(proof, truth) ==
    LET both == cn_mark_result_ok_proof_for_branch(proof.left, truth) \union
                cn_mark_result_ok_proof_for_branch(proof.right, truth)
    IN CASE proof.op = "leaf" -> IF truth THEN {proof.binding} ELSE {}
         [] proof.op = "not" -> cn_mark_result_ok_proof_for_branch(proof.left, ~truth)
         [] proof.op = "&&" -> IF truth THEN both ELSE {}
         [] proof.op = "||" -> IF truth THEN {} ELSE both
         [] OTHER -> {}

cn_mark_result_ok_proofs_for_branch(scopes, c, truth) ==
    cn_mark_result_ok_proof_for_branch(cn_build_result_proof(scopes, c), truth)

\* A plausible slip: a while body that returns counts as a return.
RECURSIVE WhileGuarantees(_)
WhileGuarantees(block) ==
    \E i \in DOMAIN block :
        LET s == block[i]
        IN \/ s.k = "return"
           \/ /\ s.k = "if" /\ s.e # << >>
              /\ WhileGuarantees(s.b)
              /\ WhileGuarantees(s.e[1])
           \/ s.k \in {"loop", "while"} /\ WhileGuarantees(s.b)

RECURSIVE cn_block_guarantees_return(_)
cn_block_guarantees_return(block) ==
    \E i \in DOMAIN block :
        LET s == block[i]
        IN \/ s.k = "return"
           \/ /\ s.k = "if" /\ s.e # << >>
              /\ cn_block_guarantees_return(s.b)
              /\ cn_block_guarantees_return(s.e[1])
           \/ s.k = "loop" /\ cn_block_guarantees_return(s.b)

\* An error was reported; checking goes on, but the body is refused.
Rejected == << >>
Declaring == {"alloc", "zalloc", "try", "result", "bool"}

\* Declare the name of a let or try in the scope it stands in.
cn_scope_define(scopes, s, at) ==
    LET plain(type, zone) == Define(scopes, s.n, Binding(type, at, zone))
    IN CASE s.k = "alloc" -> plain("ptr", 0)
         [] s.k = "zalloc" -> plain("ptr", scopes[1].zone)
         [] s.k = "try" -> plain("int", 0)
         [] s.k = "result" -> plain("result", 0)
         [] s.k = "bool" ->
              Define(scopes, s.n,
                  [Binding("bool", at, 0) EXCEPT
                      !.result_guard_proof = cn_build_result_proof(plain("bool", 0), s.c)])

IsResult(scopes, n) == InScope(scopes, n) /\ Lookup(scopes, n).type = "result"

\* r.value wants a named result that is known to be ok.
cn_check_field_access(scopes, n) == IsResult(scopes, n) /\ cn_scope_result_is_ok(scopes, n)

\* The statement alone, with the names it reads in scope.
Permitted(s, scopes, returns) ==
    LET fresh == s.n \notin DOMAIN scopes[1].names
    IN CASE s.k \in {"alloc", "result", "bool"} -> fresh
         [] s.k = "zalloc" -> fresh /\ scopes[1].zone > 0
         [] s.k = "try" -> fresh /\ returns
         [] s.k = "use" -> InScope(scopes, s.n)
         [] s.k \in {"set", "setok"} -> IsResult(scopes, s.n)
         [] s.k = "value" -> cn_check_field_access(scopes, s.n)
         [] s.k = "free" ->
              /\ InScope(scopes, s.n)
              /\ Lookup(scopes, s.n).type = "ptr" /\ Lookup(scopes, s.n).zone = 0
         [] s.k = "return" -> s.n # NoName => returns /\ InScope(scopes, s.n)
         [] OTHER -> TRUE

RECURSIVE cn_check_statement(_, _, _, _), cn_check_block(_, _, _, _, _)

\* The scopes after a statement of scopes[1], or Rejected.
cn_check_statement(s, at, scopes, returns) ==
    LET zone == scopes[1].zone
        inside(block, j, outer, scope) ==
            LET left == cn_check_block(block, 1, Append(at, j), <<scope>> \o outer, returns)
            IN IF left = Rejected THEN Rejected ELSE Tail(left)
        \* cn_check_block_with_guard
        guarded(block, j, outer, truth) ==
            inside(block, j, outer,
                CheckScope(zone, cn_mark_result_ok_proofs_for_branch(outer, s.c, truth)))
        then == guarded(s.b, 1, scopes, TRUE)
        both == IF s.e = << >> \/ then = Rejected THEN then ELSE guarded(s.e[1], 2, then, FALSE)
        learned(truth) == cn_mark_result_ok_proofs_for_branch(both, s.c, truth)
        assigned == cn_scope_invalidate_result_proofs(scopes, Lookup(scopes, s.n).at)
        ranged == <<[CheckScope(zone, {}) EXCEPT !.names = s.n :> Binding("int", at, 0)]>> \o scopes
    IN IF \/ ~Permitted(s, scopes, returns)
          \/ \E n \in NamesIn(s.c) : ~InScope(scopes, n) THEN Rejected
       ELSE CASE s.k \in Declaring -> cn_scope_define(scopes, s, at)
         [] s.k = "set" -> assigned
         [] s.k = "setok" -> cn_scope_mark_result_ok(assigned, {Lookup(scopes, s.n).at})
         [] s.k = "defer" -> cn_check_statement(s.b[1], at, scopes, returns)
         [] s.k = "zone" -> inside(s.b, 1, scopes, CheckScope(zone + 1, {}))
         [] s.k = "loop" -> inside(s.b, 1, scopes, CheckScope(zone, {}))
         [] s.k = "while" -> then
         [] s.k = "for" ->
              LET left == inside(s.b, 1, ranged, CheckScope(zone, {}))
              IN IF left = Rejected THEN Rejected ELSE Tail(left)
         [] s.k = "if" ->
              IF both = Rejected THEN Rejected
              ELSE cn_scope_mark_result_ok(both,
                     (IF s.e # << >> /\ cn_block_guarantees_return(s.e[1]) THEN learned(TRUE) ELSE {})
                     \union
                     (IF cn_block_guarantees_return(s.b) THEN learned(FALSE) ELSE {}))
         [] OTHER -> scopes

cn_check_block(block, i, path, scopes, returns) ==
    IF scopes = Rejected \/ i > Len(block) THEN scopes
    ELSE cn_check_block(block, i + 1, path,
             cn_check_statement(block[i], Append(path, i), scopes, returns), returns)

\* A function that returns a value must be seen to return on every path.
cn_check_function(body, returns) ==
    /\ cn_check_block(body, 1, Nowhere, <<CheckScope(0, {})>>, returns) # Rejected
    /\ returns => cn_block_guarantees_return(body)

-----------------------------------------------------------------------------
(* Lowering.  A scope maps names to the place of their binding and carries  *)
(* the zone it belongs to; scopes and defer frames are listed innermost     *)
(* first, the entries of a frame in the order they will run.                *)

cn_ir_scope_lookup(scopes, n) == IF n = NoName THEN Nowhere ELSE Lookup(scopes, n)

\* A plausible slip: the first zone of the function.
OutermostZone(scopes) ==
    LET zoned == SelectLastInSeq(scopes, LAMBDA s : s.zone # Nowhere)
    IN IF zoned = 0 THEN Nowhere ELSE scopes[zoned].zone

cn_ir_scope_current_zone_name(scopes) ==
    LET zoned == SelectInSeq(scopes, LAMBDA s : s.zone # Nowhere)
    IN IF zoned = 0 THEN Nowhere ELSE scopes[zoned].zone

\* One flat scope with the binding each name has now.
cn_ir_capture_scope(scopes) ==
    <<[names |-> FoldRight(LAMBDA s, seen : s.names @@ seen, scopes, NoNames),
       zone |-> cn_ir_scope_current_zone_name(scopes)]>>

Ir(op, id, n, to) ==
    [op |-> op, id |-> id, n |-> n, to |-> to, c |-> Open, b |-> << >>, e |-> << >>]

cn_ir_make_zone_release_stmt(zone) == Ir("release", zone, NoName, zone)

\* Statements without a block of their own.
cn_ir_lower_simple(s, at, scopes) ==
    [Ir(s.k, at, s.n,
        CASE s.k \in {"alloc", "result", "bool"} -> at
          [] s.k = "zalloc" -> cn_ir_scope_current_zone_name(scopes)
          [] OTHER -> cn_ir_scope_lookup(scopes, s.n)) EXCEPT !.c = s.c]

\* The entries of one frame, last deferred first.
cn_ir_emit_local_deferred_entries(frame) ==
    [i \in DOMAIN frame |->
        IF frame[i].zone # Nowhere
        THEN cn_ir_make_zone_release_stmt(frame[i].zone)
        ELSE cn_ir_lower_simple(frame[i].statement, frame[i].at, frame[i].captured_scope)]

\* A plausible slip: an early exit cleans up only the block it stands in.
InnermostOnly(frames) == cn_ir_emit_local_deferred_entries(frames[1])

\* Of all frames, from the innermost out.
cn_ir_emit_deferred_entries(frames) ==
    FlattenSeq([i \in DOMAIN frames |-> cn_ir_emit_local_deferred_entries(frames[i])])

\* let temp = init; if !temp.ok { cleanup; return err; } let name = temp.value
cn_ir_lower_try_statement(s, at, frames) ==
    << Ir("try", at, NoName, Nowhere),
       [Ir("if", at, NoName, Nowhere) EXCEPT
           !.b = Append(cn_ir_emit_deferred_entries(frames),
                        Ir("return", at, NoName, Nowhere))],
       Ir("let", at, s.n, Nowhere) >>

ReleaseEntry(zone) ==
    [zone |-> zone, at |-> zone, statement |-> Nowhere, captured_scope |-> Nowhere]
StatementEntry(s, at, scopes) ==
    [zone |-> Nowhere, at |-> at, statement |-> s, captured_scope |-> cn_ir_capture_scope(scopes)]

\* What a statement leaves in the scope it stands in.
cn_ir_scope_define(scopes, s, at) ==
    IF s.k \in Declaring THEN Define(scopes, s.n, at) ELSE scopes

RECURSIVE cn_ir_lower_block(_, _, _, _, _, _), cn_ir_lower_statement(_, _, _, _)

\* The statements of block from the i-th on; frame holds its own entries.
cn_ir_lower_block(block, i, path, scopes, frame, frames) ==
    IF i > Len(block) THEN cn_ir_emit_local_deferred_entries(frame)
    ELSE
    LET s == block[i]
        at == Append(path, i)
        all == <<frame>> \o frames
        after(more) ==
            cn_ir_lower_block(block, i + 1, path, cn_ir_scope_define(scopes, s, at),
                              more \o frame, frames)
    IN CASE s.k = "defer" -> after(<<StatementEntry(s.b[1], at, scopes)>>)
         [] s.k = "try" -> cn_ir_lower_try_statement(s, at, all) \o after(<< >>)
         [] s.k = "return" ->
              Append(cn_ir_emit_deferred_entries(all), cn_ir_lower_simple(s, at, scopes))
         [] OTHER -> <<cn_ir_lower_statement(s, at, scopes, all)>> \o after(<< >>)

cn_ir_lower_statement(s, at, scopes, frames) ==
    LET part(block, j, outer, parents) ==
            cn_ir_lower_block(block, 1, Append(at, j),
                <<NewScope(outer[1].zone)>> \o outer, << >>, parents)
        zoned == <<NewScope(at)>> \o scopes
        ranged == Define(<<NewScope(Nowhere)>> \o scopes, s.n, at)
        stmt(body) == [Ir(s.k, at, s.n, Nowhere) EXCEPT !.b = body, !.c = s.c]
    IN CASE s.k = "zone" ->
              stmt(Append(part(s.b, 1, zoned, <<<<ReleaseEntry(at)>>>> \o frames),
                          cn_ir_make_zone_release_stmt(at)))
         [] s.k = "if" ->
              [stmt(part(s.b, 1, scopes, frames)) EXCEPT
                  !.e = [j \in DOMAIN s.e |-> part(s.e[j], 2, scopes, frames)]]
         [] s.k \in {"while", "loop"} -> stmt(part(s.b, 1, scopes, frames))
         [] s.k = "for" -> stmt(part(s.b, 1, ranged, frames))
         [] OTHER -> cn_ir_lower_simple(s, at, scopes)

cn_ir_lower_function(body) ==
    cn_ir_lower_block(body, 1, Nowhere, <<NewScope(Nowhere)>>, << >>, << >>)

\* Nothing is kept after the first return of a block.
RECURSIVE cn_ir_optimize_block(_)
cn_ir_optimize_block(code) ==
    LET first == SelectInSeq(code, LAMBDA s : s.op = "return")
        kept == IF first = 0 THEN code ELSE SubSeq(code, 1, first)
    IN [i \in DOMAIN kept |->
            [kept[i] EXCEPT !.b = cn_ir_optimize_block(@),
                            !.e = [j \in DOMAIN @ |-> cn_ir_optimize_block(@[j])]]]

-----------------------------------------------------------------------------
(* What a statement does to memory.  heap maps the place of an allocation or *)
(* of a zone to the zone it came from and whether it still stands; a result  *)
(* is live while it holds a value, a bool while it is true.  An event is     *)
(* late when what it works on has been given back or holds no value.         *)

Block(zone) == [zone |-> zone, live |-> TRUE]
Late(heap, on) == on \in DOMAIN heap /\ ~heap[on].live

Event(heap, what, id, on) == [what |-> what, id |-> id, on |-> on, late |-> Late(heap, on)]

\* truth: what the call or the condition of the statement came to.
Effect(heap, what, id, on, truth) ==
    CASE what = "alloc" -> (id :> Block(Nowhere)) @@ heap
      [] what = "zalloc" -> (id :> Block(on)) @@ heap
      [] what = "zone" -> (id :> Block(id)) @@ heap
      [] what \in {"result", "bool", "set", "setok"} ->
           (on :> [Block(Nowhere) EXCEPT !.live = truth]) @@ heap
      [] what = "release" ->
           [a \in DOMAIN heap |->
               [heap[a] EXCEPT !.live = @ /\ heap[a].zone # id]]
      [] what = "free" ->
           [a \in DOMAIN heap |-> [heap[a] EXCEPT !.live = @ /\ a # on]]
      [] OTHER -> heap

-----------------------------------------------------------------------------
(* The printed code at work.                                                *)

VARIABLES
    prog,      \* the body that was compiled
    returns,   \* does the function return a value?
    stack,     \* the blocks being run, innermost first: code left, scopes
    heap,
    trace,     \* the events so far
    choices,   \* the conditions decided so far
    pc         \* "run", "returned", or "unreachable": past the end of a value function

vars == <<prog, returns, stack, heap, trace, choices, pc>>

\* The innermost scope that has the name, at the place where it is printed.
cn_llvm_scope_lookup(scopes, n) ==
    LET found == SelectInSeq(scopes, LAMBDA s : n \in DOMAIN s)
    IN IF found = 0 THEN Nowhere ELSE scopes[found][n]

cn_llvm_emit_function(code) == <<[code |-> code, scopes |-> <<NoNames>>]>>

\* A body that passes the checker is lowered, optimised and printed.
Init ==
    /\ prog \in Programs
    /\ returns \in BOOLEAN
    /\ cn_check_function(prog, returns)
    /\ stack = cn_llvm_emit_function(cn_ir_optimize_block(cn_ir_lower_function(prog)))
    /\ heap = << >>
    /\ trace = << >>
    /\ choices = << >>
    /\ pc = "run"

Top == stack[1]
Stmt == Top.code[1]
At(ops) == pc = "run" /\ Top.code # << >> /\ Stmt.op \in ops
Enters(code, scopes) == <<[code |-> code, scopes |-> scopes]>>
\* The block goes on after its statement; names are added to its scope.
Advanced(names) ==
    [stack EXCEPT ![1].code = Tail(@), ![1].scopes[1] = names @@ @]

Log(what, id, on, truth) ==
    /\ trace' = Append(trace, Event(heap, what, id, on))
    /\ heap' = Effect(heap, what, id, on, truth)

\* What a condition comes to when its open parts are all of one truth.
RECURSIVE Truth(_, _)
Truth(c, open) ==
    LET held == heap[cn_llvm_scope_lookup(Top.scopes, c.n)].live
    IN CASE c.op = "open" -> open
         [] c.op \in {"ok", "name"} -> held
         [] c.op = "not" -> ~Truth(c.parts[1], open)
         [] c.op = "==" -> Truth(c.parts[1], open) = c.lit
         [] c.op = "!=" -> Truth(c.parts[1], open) # c.lit
         [] c.op = "&&" -> Truth(c.parts[1], open) /\ Truth(c.parts[2], open)
         [] c.op = "||" -> Truth(c.parts[1], open) \/ Truth(c.parts[2], open)
Truths(c) == {Truth(c, open) : open \in BOOLEAN}

\* let: evaluate, store in a new slot, define the name.
EmitLet ==
    /\ At({"alloc", "zalloc", "try", "let"})
    /\ Log(Stmt.op, Stmt.id, Stmt.to, TRUE)
    /\ stack' = Advanced(IF Stmt.n = NoName THEN NoNames ELSE Stmt.n :> Stmt.id)
    /\ UNCHANGED <<prog, returns, choices, pc>>

\* let of a result or of a bool, and the assignment of a call: the outcome is
\* open, or the truth of the condition.
EmitResult ==
    /\ At({"result", "bool", "set"})
    /\ Len(choices) < MaxChoices
    /\ \E truth \in IF Stmt.op = "bool" THEN Truths(Stmt.c) ELSE BOOLEAN :
         /\ choices' = Append(choices, truth)
         /\ Log(Stmt.op, Stmt.id,
                IF Stmt.op = "set" THEN cn_llvm_scope_lookup(Top.scopes, Stmt.n) ELSE Stmt.id,
                truth)
    /\ stack' = Advanced(IF Stmt.op = "set" THEN NoNames ELSE Stmt.n :> Stmt.id)
    /\ UNCHANGED <<prog, returns, pc>>

\* An expression statement, a free, a read of .value or r = ok v.
EmitExpr ==
    /\ At({"use", "free", "value", "setok"})
    /\ Log(Stmt.op, Stmt.id, cn_llvm_scope_lookup(Top.scopes, Stmt.n), TRUE)
    /\ stack' = Advanced(NoNames)
    /\ UNCHANGED <<prog, returns, choices, pc>>

\* call cn_zone_enter, then the body in a scope of its own
EmitZone ==
    /\ At({"zone"})
    /\ Log("zone", Stmt.id, Stmt.id, TRUE)
    /\ stack' = Enters(Stmt.b, <<NoNames, NoNames>> \o Top.scopes) \o Advanced(NoNames)
    /\ UNCHANGED <<prog, returns, choices, pc>>

\* call __zone_release
EmitRelease ==
    /\ At({"release"})
    /\ Log("release", Stmt.id, Stmt.id, TRUE)
    /\ stack' = Advanced(NoNames)
    /\ UNCHANGED <<prog, returns, choices, pc>>

\* A plausible slip: the branches share the scope around them.
IfSharesScope ==
    /\ At({"if"})
    /\ Len(choices) < MaxChoices
    /\ \E taken \in Truths(Stmt.c) :
         /\ choices' = Append(choices, taken)
         /\ stack' = (IF taken THEN Enters(Stmt.b, Top.scopes)
                      ELSE IF Stmt.e # << >> THEN Enters(Stmt.e[1], Top.scopes)
                      ELSE << >>) \o Advanced(NoNames)
    /\ UNCHANGED <<prog, returns, heap, trace, pc>>

EmitIf ==
    /\ At({"if"})
    /\ Len(choices) < MaxChoices
    /\ \E taken \in Truths(Stmt.c) :
         /\ choices' = Append(choices, taken)
         /\ stack' = (IF taken THEN Enters(Stmt.b, <<NoNames>> \o Top.scopes)
                      ELSE IF Stmt.e # << >> THEN Enters(Stmt.e[1], <<NoNames>> \o Top.scopes)
                      ELSE << >>) \o Advanced(NoNames)
    /\ UNCHANGED <<prog, returns, heap, trace, pc>>

\* while and for test before each turn, and come back here after it.
EmitLoopTest ==
    /\ At({"while", "for"})
    /\ Len(choices) < MaxChoices
    /\ \E again \in Truths(Stmt.c) :
         /\ choices' = Append(choices, again)
         /\ stack' = IF again
                     THEN Enters(Stmt.b,
                            <<NoNames, IF Stmt.n = NoName THEN NoNames ELSE Stmt.n :> Stmt.id>>
                            \o Top.scopes) \o stack
                     ELSE Advanced(NoNames)
    /\ UNCHANGED <<prog, returns, heap, trace, pc>>

\* loop has no test; a turn is counted as a condition decided.
EmitLoop ==
    /\ At({"loop"})
    /\ Len(choices) < MaxChoices
    /\ choices' = Append(choices, TRUE)
    /\ stack' = Enters(Stmt.b, <<NoNames>> \o Top.scopes) \o stack
    /\ UNCHANGED <<prog, returns, heap, trace, pc>>

\* ret: the value is evaluated here.
EmitReturn ==
    /\ At({"return"})
    /\ Log("return", Stmt.id, cn_llvm_scope_lookup(Top.scopes, Stmt.n), TRUE)
    /\ stack' = << >>
    /\ pc' = "returned"
    /\ UNCHANGED <<prog, returns, choices>>

EndBlock ==
    /\ pc = "run" /\ Top.code = << >> /\ Len(stack) > 1
    /\ stack' = Tail(stack)
    /\ UNCHANGED <<prog, returns, heap, trace, choices, pc>>

\* Past the last statement: ret void, or unreachable.
EndFunction ==
    /\ pc = "run" /\ Top.code = << >> /\ Len(stack) = 1
    /\ pc' = IF returns THEN "unreachable" ELSE "returned"
    /\ stack' = << >>
    /\ UNCHANGED <<prog, returns, heap, trace, choices>>

Next ==
    \/ EmitLet \/ EmitResult \/ EmitExpr \/ EmitZone \/ EmitRelease
    \/ EmitIf \/ EmitLoopTest \/ EmitLoop \/ EmitReturn
    \/ EndBlock \/ EndFunction

Spec == Init /\ [][Next]_vars

-----------------------------------------------------------------------------
(* The body as it reads: what runs when.  r carries the events, the memory, *)
(* the conditions still to be used, and how the last statement ended:       *)
(* "next", "return", or "stop" when the conditions have run out.            *)

Told(r, what, id, on, truth) ==
    [r EXCEPT !.trace = Append(@, Event(r.heap, what, id, on)),
              !.heap = Effect(@, what, id, on, truth)]
Logged(r, what, id, on) == Told(r, what, id, on, TRUE)
Decided(r) == [r EXCEPT !.left = Tail(@)]

\* A statement without a block; calls and conditions take the next outcome.
Performed(r, what, id, on) ==
    IF what \notin {"result", "bool", "set"} THEN Logged(r, what, id, on)
    ELSE IF r.left = << >> THEN [r EXCEPT !.how = "stop"]
    ELSE Told(Decided(r), what, id, on, r.left[1])

\* The deferred statements of a scope, when control leaves it.
Leave(r, deferred) ==
    IF r.how = "stop" THEN r
    ELSE FoldLeft(LAMBDA q, d : Logged(q, d.what, d.id, d.on), r, deferred)

RECURSIVE Run(_, _, _, _, _, _, _), RunLoop(_, _, _, _, _)

\* The statements of block from the i-th on, in the scope env of a zone.
Run(block, i, path, env, zone, deferred, r) ==
    IF r.how # "next" THEN Leave(r, deferred)
    ELSE IF i > Len(block) THEN Leave(r, deferred)
    ELSE
    LET s == block[i]
        at == Append(path, i)
        on == IF s.n \in DOMAIN env THEN env[s.n] ELSE Nowhere
        then(more, names, q) ==
            Run(block, i + 1, path, names @@ env, zone, more \o deferred, q)
        inside(b, j, names, z, q) ==
            Run(b, 1, Append(at, j), names @@ env, z, << >>, q)
    IN CASE s.k = "defer" ->
              then(<<[what |-> s.b[1].k, id |-> at, on |-> env[s.b[1].n]]>>, NoNames, r)
         [] s.k = "alloc" -> then(<< >>, s.n :> at, Logged(r, "alloc", at, at))
         [] s.k = "zalloc" -> then(<< >>, s.n :> at, Logged(r, "zalloc", at, zone))
         [] s.k \in {"result", "bool"} -> then(<< >>, s.n :> at, Performed(r, s.k, at, at))
         [] s.k \in {"use", "free", "value", "set", "setok"} ->
              then(<< >>, NoNames, Performed(r, s.k, at, on))
         [] s.k = "return" ->
              Leave([Logged(r, "return", at, on) EXCEPT !.how = "return"], deferred)
         [] s.k = "zone" ->
              LET q == inside(s.b, 1, NoNames, at, Logged(r, "zone", at, at))
              IN then(<< >>, NoNames, IF q.how = "stop" THEN q ELSE Logged(q, "release", at, at))
         [] s.k \in {"while", "loop"} ->
              then(<< >>, NoNames, RunLoop(s.b, at, env, zone, r))
         [] s.k = "for" -> then(<< >>, NoNames, RunLoop(s.b, at, (s.n :> at) @@ env, zone, r))
         [] s.k = "try" ->
              LET q == Logged(r, "try", at, Nowhere)
              IN IF q.left = << >> THEN [q EXCEPT !.how = "stop"]
                 ELSE IF q.left[1]
                 THEN Leave([Logged(Decided(q), "return", at, Nowhere) EXCEPT !.how = "return"], deferred)
                 ELSE then(<< >>, s.n :> at, Logged(Decided(q), "let", at, Nowhere))
         [] s.k = "if" ->
              IF r.left = << >> THEN [r EXCEPT !.how = "stop"]
              ELSE then(<< >>, NoNames,
                     IF r.left[1] THEN inside(s.b, 1, NoNames, zone, Decided(r))
                     ELSE IF s.e # << >> THEN inside(s.e[1], 2, NoNames, zone, Decided(r))
                     ELSE Decided(r))

RunLoop(block, at, env, zone, r) ==
    IF r.how # "next" THEN r
    ELSE IF r.left = << >> THEN [r EXCEPT !.how = "stop"]
    ELSE IF ~r.left[1] THEN Decided(r)
    ELSE RunLoop(block, at, env, zone,
                 Run(block, 1, Append(at, 1), env, zone, << >>, Decided(r)))

AsWritten ==
    Run(prog, 1, Nowhere, NoNames, Nowhere, << >>,
        [trace |-> << >>, heap |-> << >>, left |-> choices, how |-> "next"])

\* No name is declared again inside the scope of the same name.
RECURSIVE Shadows(_, _)
Shadows(block, names) ==
    \E i \in DOMAIN block :
        LET s == block[i]
            known == names \union {block[j].n : j \in {j \in 1..(i - 1) :
                                       block[j].k \in Declaring}}
        IN \/ s.k \in Declaring \union {"for"} /\ s.n \in known
           \/ s.k # "defer" /\ Shadows(s.b, known \union (IF s.k = "for" THEN {s.n} ELSE {}))
           \/ \E j \in DOMAIN s.e : Shadows(s.e[j], known)

\* The names of a block's statements of some kinds, at any depth.
RECURSIVE Named(_, _), OkNames(_), TracksPaths(_)
Named(block, kinds) ==
    UNION { (IF block[i].k \in kinds THEN {block[i].n} ELSE {})
            \union Named(block[i].b, kinds)
            \union UNION {Named(block[i].e[j], kinds) : j \in DOMAIN block[i].e} :
            i \in DOMAIN block }
Assigned(block) == Named(block, {"set", "setok"})

\* The results a condition tests by name.
OkNames(c) ==
    (IF c.op = "ok" THEN {c.n} ELSE {}) \union UNION {OkNames(c.parts[i]) : i \in DOMAIN c.parts}

\* The body has none of the three shapes in which the order of the text is not
\* the order of execution: a result assigned in the body of a loop that does not
\* test it with `while r.ok`; a result assigned in one branch of an if that tests
\* it while the other branch returns; and a result whose name is assigned or
\* declared again in what follows a deferred read of its value.
TracksPaths(block) ==
    \A i \in DOMAIN block :
        LET s == block[i]
            tested == IF s.k = "while" /\ s.c.op = "ok" THEN {s.c.n} ELSE {}
            returnsFrom(b) == cn_block_guarantees_return(b)
        IN /\ s.k = "defer" /\ s.b[1].k = "value" =>
                s.b[1].n \notin Named(SubSeq(block, i + 1, Len(block)),
                                    Declaring \union {"set", "setok"})
           /\ s.k \in {"while", "loop", "for"} => Assigned(s.b) \subseteq tested
           /\ s.k = "if" /\ s.e # << >> =>
                /\ returnsFrom(s.e[1]) => Assigned(s.b) \intersect OkNames(s.c) = {}
                /\ returnsFrom(s.b) => Assigned(s.e[1]) \intersect OkNames(s.c) = {}
           /\ TracksPaths(s.b)
           /\ \A j \in DOMAIN s.e : TracksPaths(s.e[j])

-----------------------------------------------------------------------------
(* Properties.                                                              *)

\* Every event comes from a statement of the body, the blocks being run are
\* nested, and the stack is empty exactly when the function has ended.
TypeOK ==
    /\ pc \in {"run", "returned", "unreachable"}
    /\ (stack = << >>) = (pc # "run")
    /\ Len(choices) <= MaxChoices
    /\ \A i \in 1..(Len(stack) - 1) : Len(stack[i].scopes) > Len(stack[i + 1].scopes)
    /\ \A i \in DOMAIN trace : trace[i].id # Nowhere

Ran(events) == SelectSeq(events, LAMBDA e : e.what # "return")
WhatAndWhere(events) == [i \in DOMAIN events |-> <<events[i].what, events[i].id>>]
Agrees(mine, theirs) ==
    /\ IsPrefix(mine, theirs)
    /\ pc # "run" => mine = theirs

\* The compiled function runs the statements of the body in the order the
\* language gives them: each deferred statement and each zone's release once for
\* every time its scope is left, innermost first and last deferred first, on
\* the way out through the end of a block, a return or a failed try, and never
\* at the end of a block nested in the scope.
ExitOrder == Agrees(WhatAndWhere(Ran(trace)), WhatAndWhere(Ran(AsWritten.trace)))

\* Where no name is declared twice, a statement that was copied to an exit
\* works on the binding its text names, and on memory that is as alive there as
\* it is when the body is read as written (the value of a return aside).
SameBindings == ~Shadows(prog, {}) => Agrees(Ran(trace), Ran(AsWritten.trace))

\* A function the checker takes to return on every path never runs past its end.
FunctionsReturn == pc # "unreachable"

ReadsAreOk == \A i \in DOMAIN trace : trace[i].what = "value" => ~trace[i].late

\* What the checker takes for proved holds when the code runs: wherever a body
\* without the shapes of TracksPaths reads r.value, r is ok on every path that
\* leads there, whatever was assigned in between, in branches, in zones and in
\* loops that test r, and whichever alias or formula the proof came from.
ValuesAreProved == TracksPaths(prog) => ReadsAreOk

\* No body that passes the checker reads the value of a result that is not ok:
\* an assignment leaves no stale proof behind.
NoStaleProof == ReadsAreOk

\* Cleanup happens when the scope is left, so the value a return hands out is
\* read from memory that the cleanup of that same exit has not yet given back.
ReturnBeforeCleanup ==
    pc = "returned" =>
        \A i \in DOMAIN trace, j \in DOMAIN AsWritten.trace :
            /\ trace[i].what = "return" /\ AsWritten.trace[j].what = "return"
            => trace[i].late = AsWritten.trace[j].late

=============================================================================
