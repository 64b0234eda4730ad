------------------------------- MODULE Build -------------------------------
(***************************************************************************)
(* The compiler as a command: cli/main.c runs one command per process, the *)
(* front end gives up at its first stage with errors, and for obj and      *)
(* build backend/toolchain.c writes temporary files and runs clang on      *)
(* them, in up to three stages.  Every call on the file system and every   *)
(* process may fail.                                                       *)
(*                                                                         *)
(* main ignores the results of the stages; the bag of diagnostics alone    *)
(* decides what is done next, what is printed and what the exit status is. *)
(* Which parts of the runtime a program needs is decided twice, by a scan  *)
(* in the emitter and by one in the driver, both over the typed IR.        *)
(***************************************************************************)
EXTENDS Naturals, Integers, Sequences, FiniteSets, SequencesExt

CONSTANTS
  MaxCommands,   \* bound: commands run one after the other
  MaxNest        \* bound: blocks, and expressions, around a call

ASSUME BuildAssumption == MaxCommands \in Nat /\ MaxNest \in Nat

VARIABLES
  job,       \* the command in progress, or None
  count,     \* commands begun
  errors,    \* the bag of diagnostics holds an error
  temp,      \* the contents of the temporary files of each command
  out,       \* the contents of the output path, which the commands share
  before,    \* what was there when the command began
  faulted,   \* a file operation or a process of this command failed
  last       \* the last command and its exit status

vars == <<job, count, errors, temp, out, before, faulted, last>>

None == <<>>
Gone == <<>>
Empty == <<"empty">>
Roles == {"ir", "object", "source", "runtime"}

-----------------------------------------------------------------------------
(* The IR, and the two scans for calls of a built-in module *)

ExprSlots ==
  {"unary.operand", "binary.left", "binary.right", "if_expr.condition", "if_expr.then", "if_expr.else",
   "call.argument", "array_literal.item", "slice_from_array.base", "index.base", "index.index",
   "slice_view.base", "slice_view.start", "slice_view.end", "field.base", "struct_literal.field",
   "ok.value", "addr.target", "deref.target"}
BlockSlots == {"zone.body", "if.then", "if.else", "while.body", "loop.body", "for.body"}
StmtSlots ==
  {"let.initializer", "assign.target", "assign.value", "return.value", "expr.value", "if.condition",
   "while.condition", "for.start", "for.end", "free.value"}

\* Where a call may stand: the way down to it from a constant or a function.
InConst(e) == <<"const">> \o e
InFunction(b, s, e) == <<"function">> \o b \o <<s>> \o e
CallSites ==
  {InConst(e) : e \in SeqOf(ExprSlots, MaxNest)}
    \cup {InFunction(b, s, e) :
            b \in SeqOf(BlockSlots, MaxNest), s \in StmtSlots, e \in SeqOf(ExprSlots, MaxNest)}

\* The children each scan descends into.
cn_llvm_program_uses_builtin_module ==
  {"const", "function",
   "unary.operand", "binary.left", "binary.right", "if_expr.condition", "if_expr.then", "if_expr.else",
   "call.argument", "array_literal.item", "slice_from_array.base", "index.base", "index.index",
   "slice_view.base", "slice_view.start", "slice_view.end", "field.base", "struct_literal.field",
   "ok.value", "addr.target", "deref.target"}
  \cup {"let.initializer", "assign.target", "assign.value", "return.value", "expr.value", "zone.body",
        "if.condition", "if.then", "if.else", "while.condition", "while.body", "loop.body",
        "for.start", "for.end", "for.body", "free.value"}

backend_expr_slots ==
  {"unary.operand", "binary.left", "binary.right", "if_expr.condition", "if_expr.then", "if_expr.else",
   "call.argument", "array_literal.item", "slice_from_array.base", "index.base", "index.index",
   "slice_view.base", "slice_view.start", "slice_view.end", "field.base", "struct_literal.field",
   "ok.value", "addr.target", "deref.target"}

\* Mutant: the statement switch has no case for assignment.
backend_stmt_slots_no_assign ==
  {"let.initializer", "return.value", "expr.value", "zone.body",
   "if.condition", "if.then", "if.else", "while.condition", "while.body", "loop.body",
   "for.start", "for.end", "for.body", "free.value"}
backend_stmt_slots ==
  {"let.initializer", "assign.target", "assign.value", "return.value", "expr.value", "zone.body",
   "if.condition", "if.then", "if.else", "while.condition", "while.body", "loop.body",
   "for.start", "for.end", "for.body", "free.value"}

cn_backend_program_uses_builtin_module ==
  {"const", "function"} \cup backend_expr_slots \cup backend_stmt_slots

Finds(slots, site) == Range(site) \subseteq slots

\* A program: the stage that rejects it, whether it has a main function, the
\* built-in module it calls, and what the two scans make of the call.
Program(rejects, hasMain, module, site) ==
  [rejects |-> rejects, main |-> hasMain, module |-> module,
   declares |-> module # "none" /\ Finds(cn_llvm_program_uses_builtin_module, site),
   uses |-> module # "none" /\ Finds(cn_backend_program_uses_builtin_module, site)]

Programs ==
  {Program(rejects, hasMain, module, site) :
     rejects \in {"nothing", "load", "sema", "lower", "emit"}, hasMain \in BOOLEAN,
     module \in {"none", "std.math", "std.ipc", "std.x11"}, site \in CallSites}

use_ipc(p) == p.uses /\ p.module = "std.ipc"
use_x11(p) == p.uses /\ p.module = "std.x11"

\* What the compiler and clang make of a program.  The runtime object goes
\* into the binary of a program that uses std.ipc, -lX11 into the other.
Ir(id) == <<"ir", id>>
Object(id) == <<"object", id>>
Binary(id, with) == <<"binary", id, with>>
RuntimeSource == <<"runtime.c">>
RuntimeObject == <<"runtime.o">>
Needs(p) == {p.module} \cap {"std.ipc", "std.x11"}

-----------------------------------------------------------------------------
Init ==
  /\ job = None /\ count = 0 /\ errors = FALSE
  /\ temp = [f \in (1..MaxCommands) \X Roles |-> Gone]
  /\ out = Gone /\ before = Gone
  /\ faulted = FALSE /\ last = None

File(role) == <<count, role>>
Prog == job.prog
At(pc) == job # None /\ job.pc = pc
Goto(pc) == job' = [job EXCEPT !.pc = pc]
Fail == errors' = TRUE
Put(t, role, contents) == [t EXCEPT ![File(role)] = contents]
cn_backend_delete_file(t, role) == Put(t, role, Gone)
Deleted(roles) == temp' = [f \in DOMAIN temp |-> IF f \in {File(r) : r \in roles} THEN Gone ELSE temp[f]]

-----------------------------------------------------------------------------
(* cli/main.c *)

Commands == {"check", "ir", "llvm-ir", "obj", "build"}

main(command, p) ==
  /\ job = None /\ count < MaxCommands
  /\ count' = count + 1
  /\ job' = [what |-> command, prog |-> p, id |-> count + 1, pc |-> "load", program |-> FALSE, ok |-> FALSE]
  /\ errors' = FALSE /\ faulted' = FALSE /\ before' = out
  /\ UNCHANGED <<temp, out, last>>

\* The front end, one stage after the other; a stage with errors is the last
\* that runs.
cn_load_checked_project ==
  /\ At("load")
  /\ errors' = (Prog.rejects \in {"load", "sema"})
  /\ Goto(IF job.what = "check" THEN "finish" ELSE "lower")
  /\ UNCHANGED <<count, temp, out, before, faulted, last>>

Lower ==
  /\ At("lower")
  /\ errors' = (errors \/ Prog.rejects = "lower")
  /\ job' = [job EXCEPT !.program = ~errors', !.pc = "emit"]
  /\ UNCHANGED <<count, temp, out, before, faulted, last>>

\* ir and llvm-ir print; only the emitter of LLVM text can object.
cn_run_llvm_ir ==
  /\ At("emit") /\ job.what \in {"ir", "llvm-ir"}
  /\ errors' = (errors \/ (job.what = "llvm-ir" /\ job.program /\ Prog.rejects = "emit"))
  /\ Goto("finish")
  /\ UNCHANGED <<count, temp, out, before, faulted, last>>

cn_run_build ==
  /\ At("emit") /\ job.what \in {"obj", "build"}
  /\ Goto(IF job.program /\ ~errors THEN "write_ir" ELSE "finish")
  /\ UNCHANGED <<count, errors, temp, out, before, faulted, last>>

cn_finish_command ==
  /\ At("finish")
  /\ last' = <<job.what, Prog, job.id, IF errors THEN 1 ELSE 0>>
  /\ job' = None
  /\ UNCHANGED <<count, errors, temp, out, before, faulted>>

-----------------------------------------------------------------------------
(* backend/toolchain.c *)

\* outcome: what goes wrong with the file.  The emitter reports its own
\* errors, and is asked before the result of the writes is looked at.
cn_backend_write_ir_file(outcome) ==
  /\ At("write_ir")
  /\ faulted' = (faulted \/ outcome # "written")
  /\ IF outcome = "written" /\ Prog.rejects # "emit"
     THEN /\ temp' = Put(temp, "ir", Ir(job.id))
          /\ Goto(IF job.what = "obj" THEN "compile_ir" ELSE "create_object")
          /\ UNCHANGED errors
     ELSE /\ temp' = IF outcome = "no file" THEN temp
                     ELSE cn_backend_delete_file(Put(temp, "ir", Empty), "ir")
          /\ Fail /\ Goto("finish")
  /\ UNCHANGED <<count, out, before, last>>

\* mkstemp makes an empty file; when it cannot, the files made before go.
CreateTemp(pc, role, made, next, ok) ==
  /\ At(pc)
  /\ faulted' = (faulted \/ ~ok)
  /\ IF ok THEN temp' = Put(temp, role, Empty) /\ Goto(next) /\ UNCHANGED errors
     ELSE Deleted(made) /\ Fail /\ Goto("finish")
  /\ UNCHANGED <<count, out, before, last>>

CreateObject(ok) ==
  CreateTemp("create_object", "object", {"ir"}, IF use_ipc(Prog) THEN "create_source" ELSE "compile_ir", ok)
CreateRuntimeSource(ok) ==
  CreateTemp("create_source", "source", {"ir", "object"}, "create_runtime", ok)
\* Mutant: the path of the file made last is forgotten.
CreateRuntimeObject_forgets(ok) ==
  CreateTemp("create_runtime", "runtime", {"ir", "object"}, "compile_ir", ok)
CreateRuntimeObject(ok) ==
  CreateTemp("create_runtime", "runtime", {"ir", "object", "source"}, "compile_ir", ok)

\* What a process may end with: fork or waitpid fails, exit status 0 or 1,
\* execvp cannot run the program or does not find it, a signal.
cn_backend_run_command == {-1, 0, 1, 126, 127, 128}

\* clang-18, and plain clang when there is no clang-18.
cn_backend_run_clang_stage(status18, status) ==
  IF status18 = 127 THEN status = 0 ELSE status18 = 0

\* The statuses a stage may see: clang exits with 0 only when its input is
\* in order, and status is looked at only after 127.
Statuses(valid) ==
  {s \in cn_backend_run_command \X cn_backend_run_command :
     (~valid => 0 \notin Range(s)) /\ (s[1] # 127 => s[2] = -1)}

Faults(valid, good) == faulted' = (faulted \/ (valid /\ ~good))

\* The object goes to the output path for obj, to a temporary file for build.
\* A clang that fails removes its output or never gets to it.
cn_backend_compile_ir_to_object(s, left) ==
  LET valid == /\ temp[File("ir")] = Ir(job.id)
               /\ Prog.module \in {"none", "std.math"} \cup (IF Prog.declares THEN {Prog.module} ELSE {})
      good == cn_backend_run_clang_stage(s[1], s[2])
      made == IF good THEN Object(job.id) ELSE Gone
  IN  /\ At("compile_ir") /\ s \in Statuses(valid) /\ Faults(valid, good)
      /\ IF good THEN ~left /\ UNCHANGED errors ELSE Fail
      /\ IF job.what = "obj"
         THEN out' = (IF left THEN out ELSE made) /\ UNCHANGED temp
         ELSE temp' = (IF left THEN temp ELSE Put(temp, "object", made)) /\ UNCHANGED out
      /\ job' = [job EXCEPT !.ok = good,
                   !.pc = IF job.what = "build" /\ good
                          THEN IF use_ipc(Prog) THEN "write_source" ELSE "link"
                          ELSE "cleanup"]
  /\ UNCHANGED <<count, before, last>>

\* The source that could not be written is deleted here and once more with
\* the others.
cn_backend_write_text_file(ok) ==
  /\ At("write_source")
  /\ faulted' = (faulted \/ ~ok)
  /\ IF ok THEN temp' = Put(temp, "source", RuntimeSource) /\ Goto("compile_source") /\ UNCHANGED errors
     ELSE /\ temp' = cn_backend_delete_file(temp, "source")
          /\ Fail /\ job' = [job EXCEPT !.ok = FALSE, !.pc = "cleanup"]
  /\ UNCHANGED <<count, out, before, last>>

cn_backend_compile_c_to_object(s, left) ==
  LET valid == temp[File("source")] = RuntimeSource
      good == cn_backend_run_clang_stage(s[1], s[2])
  IN  /\ At("compile_source") /\ s \in Statuses(valid) /\ Faults(valid, good)
      /\ IF good THEN ~left /\ UNCHANGED errors ELSE Fail
      /\ temp' = IF left THEN temp ELSE Put(temp, "runtime", IF good THEN RuntimeObject ELSE Gone)
      /\ job' = [job EXCEPT !.ok = good, !.pc = IF good THEN "link" ELSE "cleanup"]
  /\ UNCHANGED <<count, out, before, last>>

\* What is linked with the object.
LinkedWith ==
  (IF use_ipc(Prog) /\ temp[File("runtime")] = RuntimeObject THEN {"std.ipc"} ELSE {})
    \cup (IF use_x11(Prog) THEN {"std.x11"} ELSE {})

cn_backend_link_object_to_binary(s, left) ==
  LET valid == Prog.main /\ temp[File("object")] = Object(job.id) /\ Needs(Prog) \subseteq LinkedWith
      good == cn_backend_run_clang_stage(s[1], s[2])
  IN  /\ At("link") /\ s \in Statuses(valid) /\ Faults(valid, good)
      /\ IF good THEN ~left /\ UNCHANGED errors ELSE Fail
      /\ out' = IF left THEN out ELSE IF good THEN Binary(job.id, LinkedWith) ELSE Gone
      /\ job' = [job EXCEPT !.ok = good, !.pc = "cleanup"]
  /\ UNCHANGED <<count, temp, before, last>>

\* The end of cn_backend_emit_object and of cn_backend_build_binary, which
\* deletes the files it has made.
cn_backend_emit_object ==
  /\ At("cleanup") /\ job.what = "obj"
  /\ Deleted({"ir"})
  /\ Goto("finish")
  /\ UNCHANGED <<count, errors, out, before, faulted, last>>

cn_backend_build_binary ==
  /\ At("cleanup") /\ job.what = "build"
  /\ Deleted(IF use_ipc(Prog) THEN Roles ELSE {"ir", "object"})
  /\ Goto("finish")
  /\ UNCHANGED <<count, errors, out, before, faulted, last>>

-----------------------------------------------------------------------------
Next ==
  \/ \E command \in Commands, p \in Programs : main(command, p)
  \/ cn_load_checked_project
  \/ Lower
  \/ cn_run_llvm_ir
  \/ cn_run_build
  \/ \E outcome \in {"no file", "not opened", "not flushed", "written"} : cn_backend_write_ir_file(outcome)
  \/ \E ok \in BOOLEAN : CreateObject(ok)
  \/ \E ok \in BOOLEAN : CreateRuntimeSource(ok)
  \/ \E ok \in BOOLEAN : CreateRuntimeObject(ok)
  \/ \E s \in cn_backend_run_command \X cn_backend_run_command, left \in BOOLEAN :
       cn_backend_compile_ir_to_object(s, left)
  \/ \E ok \in BOOLEAN : cn_backend_write_text_file(ok)
  \/ \E s \in cn_backend_run_command \X cn_backend_run_command, left \in BOOLEAN :
       cn_backend_compile_c_to_object(s, left)
  \/ \E s \in cn_backend_run_command \X cn_backend_run_command, left \in BOOLEAN :
       cn_backend_link_object_to_binary(s, left)
  \/ cn_backend_emit_object
  \/ cn_backend_build_binary
  \/ cn_finish_command

Spec == Init /\ [][Next]_vars

-----------------------------------------------------------------------------
\* A command that has ended left no temporary file behind, whichever of its
\* file operations and processes failed: toolchain.c, every return of
\* cn_backend_build_binary, cn_backend_emit_object and cn_backend_write_ir_file.
TempsRemoved ==
  \A f \in DOMAIN temp : (job = None \/ f[1] < count) => temp[f] = Gone

\* The exit status tells what is at the output path.  0 after obj or build:
\* the object or binary of this very program, linked with all it calls.
\* Other than 0: the program was rejected, has no main function, or something
\* outside the compiler failed.  A program the compiler rejected leaves the
\* output of an earlier build as it was.
ExitTellsWhatWasBuilt ==
  job = None /\ last # None =>
    LET what == last[1]
        p == last[2]
        id == last[3]
        status == last[4]
    IN  /\ status = 0 =>
             /\ what = "obj" => out = Object(id)
             /\ what = "build" => \E with \in SUBSET {"std.ipc", "std.x11"} :
                                    out = Binary(id, with) /\ Needs(p) \subseteq with
             /\ what \notin {"obj", "build"} => out = before
        /\ status # 0 =>
             \/ p.rejects # "nothing" \/ faulted
             \/ what = "build" /\ ~p.main
        /\ p.rejects # "nothing" => out = before
=============================================================================
