---------------------------- MODULE BuildProofs ----------------------------
(***************************************************************************)
(* What holds of Build for any number of commands and any depth of nesting *)
(* around a call: temporary files are gone when a command has ended, and   *)
(* its exit status tells what is at the output path.                       *)
(***************************************************************************)
EXTENDS Build, TLAPS

-----------------------------------------------------------------------------
(* The inductive invariant *)

Pcs ==
  {"load", "lower", "emit", "write_ir", "create_object", "create_source", "create_runtime",
   "compile_ir", "write_source", "compile_source", "link", "cleanup", "finish"}

Jobs ==
  [what : Commands, prog : Programs, id : Nat, pc : Pcs, program : BOOLEAN, ok : BOOLEAN]

\* The temporary files a build makes in all.
BuildFiles(p) == IF use_ipc(p) THEN Roles ELSE {"ir", "object"}

\* The temporary files a command may have at each point.
Made(j) ==
  CASE j.pc \in {"load", "lower", "emit", "write_ir", "finish"} -> {}
    [] j.pc = "create_object" -> {"ir"}
    [] j.pc = "create_source" -> {"ir", "object"}
    [] j.pc = "create_runtime" -> {"ir", "object", "source"}
    [] OTHER -> IF j.what = "obj" THEN {"ir"} ELSE BuildFiles(j.prog)

\* Where each kind of command, and each kind of program, can be.
PcFits(j) ==
  /\ j.pc \in {"write_ir", "compile_ir", "cleanup"} => j.what \in {"obj", "build"}
  /\ j.pc \in {"create_object", "create_source", "create_runtime", "write_source", "compile_source", "link"} =>
       j.what = "build"
  /\ j.pc \in {"create_source", "create_runtime", "write_source", "compile_source"} => use_ipc(j.prog)

Shape ==
  /\ count \in 0..MaxCommands
  /\ job \in {None} \cup Jobs
  /\ DOMAIN temp = (1..MaxCommands) \X Roles
  /\ job # None => count \in 1..MaxCommands /\ PcFits(job)

\* Only the command in progress has files, and only those of its stage.
OnlyOwnFiles ==
  \A n \in 1..MaxCommands, r \in Roles :
    temp[<<n, r>>] # Gone => job # None /\ n = count /\ r \in Made(job)

TInv == Shape /\ OnlyOwnFiles

-----------------------------------------------------------------------------
(* Records are not None, and fields after EXCEPT *)

LEMMA JobIsSome == \A j \in Jobs : j # None
  <1>1. SUFFICES ASSUME NEW j \in Jobs, j = None PROVE FALSE
    OBVIOUS
  <1>2. "pc" \in DOMAIN j
    BY DEF Jobs
  <1>3. DOMAIN j = {}
    BY <1>1 DEF None
  <1> QED BY <1>2, <1>3

LEMMA GotoKeeps ==
  ASSUME job \in Jobs, NEW pc \in Pcs, job' = [job EXCEPT !.pc = pc]
  PROVE  /\ job' \in Jobs /\ job' # None
         /\ job'.pc = pc /\ job'.what = job.what /\ job'.prog = job.prog /\ job'.id = job.id
         /\ job'.program = job.program
  BY JobIsSome DEF Jobs

LEMMA GotoOkKeeps ==
  ASSUME job \in Jobs, NEW pc \in Pcs, NEW ok \in BOOLEAN, job' = [job EXCEPT !.ok = ok, !.pc = pc]
  PROVE  /\ job' \in Jobs /\ job' # None
         /\ job'.pc = pc /\ job'.what = job.what /\ job'.prog = job.prog /\ job'.id = job.id
         /\ job'.program = job.program
  BY JobIsSome DEF Jobs

LEMMA InitTemps == Init => TInv
  BY BuildAssumption DEF Init, TInv, Shape, OnlyOwnFiles, None

\* Putting a file in its place, and deleting some.
LEMMA PutAt ==
  ASSUME Shape, job # None, NEW r \in Roles, NEW c
  PROVE  /\ DOMAIN Put(temp, r, c) = DOMAIN temp
         /\ \A n \in 1..MaxCommands, q \in Roles :
              Put(temp, r, c)[<<n, q>>] = IF n = count /\ q = r THEN c ELSE temp[<<n, q>>]
  BY DEF Put, File, Shape

LEMMA DeletedAt ==
  ASSUME Shape, NEW rs, Deleted(rs)
  PROVE  /\ DOMAIN temp' = DOMAIN temp
         /\ \A n \in 1..MaxCommands, q \in Roles :
              temp'[<<n, q>>] = IF n = count /\ q \in rs THEN Gone ELSE temp[<<n, q>>]
  BY DEF Deleted, File, Shape

\* A step of the command in progress that ends at a job j and touches only
\* files of that command.
LEMMA StepTemps ==
  ASSUME TInv, job # None, count' = count, job' \in Jobs, PcFits(job'),
         DOMAIN temp' = DOMAIN temp,
         \A n \in 1..MaxCommands, q \in Roles :
           temp'[<<n, q>>] # Gone => IF n = count THEN q \in Made(job') ELSE temp[<<n, q>>] # Gone
  PROVE  TInv'
  <1>1. Shape'
    BY DEF TInv, Shape
  <1>2. job' # None
    BY JobIsSome
  <1>3. OnlyOwnFiles'
    BY <1>2 DEF TInv, OnlyOwnFiles
  <1> QED BY <1>1, <1>3 DEF TInv

LEMMA MainTemps ==
  ASSUME TInv, NEW command \in Commands, NEW p \in Programs, main(command, p)
  PROVE  TInv'
  <1>1. job = None /\ count < MaxCommands /\ count' = count + 1 /\ temp' = temp
    BY DEF main
  <1>2. job' \in Jobs /\ job'.pc = "load"
    BY DEF main, Jobs, Pcs, TInv, Shape
  <1>3. Shape'
    <2>1. PcFits(job')
      BY <1>2 DEF PcFits
    <2>2. count' \in 1..MaxCommands
      BY <1>1, BuildAssumption DEF TInv, Shape
    <2> QED BY <1>1, <1>2, <2>1, <2>2 DEF TInv, Shape
  <1>4. OnlyOwnFiles'
    BY <1>1 DEF TInv, OnlyOwnFiles
  <1> QED BY <1>3, <1>4 DEF TInv

\* The front end has no files.
LEMMA FrontEndTemps ==
  ASSUME TInv, cn_load_checked_project \/ Lower \/ cn_run_llvm_ir \/ cn_run_build
  PROVE  TInv'
  <1>1. job # None /\ job \in Jobs /\ job.pc \in {"load", "lower", "emit"}
    BY DEF TInv, Shape, cn_load_checked_project, Lower, cn_run_llvm_ir, cn_run_build, At
  <1>2. /\ job' \in Jobs /\ job'.pc \in {"lower", "emit", "write_ir", "finish"}
        /\ job'.pc = "write_ir" => job'.what \in {"obj", "build"}
    <2>1. CASE cn_load_checked_project
      BY <2>1, <1>1, GotoKeeps DEF cn_load_checked_project, Goto, Jobs, Pcs
    <2>2. CASE Lower
      BY <2>2, <1>1 DEF Lower, Jobs, Pcs
    <2>3. CASE cn_run_llvm_ir
      BY <2>3, <1>1, GotoKeeps DEF cn_run_llvm_ir, Goto, Jobs, Pcs
    <2>4. CASE cn_run_build
      BY <2>4, <1>1, GotoKeeps DEF cn_run_build, Goto, Jobs, Pcs
    <2> QED BY <2>1, <2>2, <2>3, <2>4
  <1>3. count' = count /\ temp' = temp
    BY DEF cn_load_checked_project, Lower, cn_run_llvm_ir, cn_run_build
  <1>4. Made(job) = {}
    BY <1>1 DEF Made
  <1>5. PcFits(job')
    BY <1>2 DEF PcFits
  <1>6. \A n \in 1..MaxCommands, q \in Roles : temp[<<n, q>>] = Gone
    BY <1>4 DEF TInv, OnlyOwnFiles
  <1> QED BY <1>1, <1>2, <1>3, <1>5, <1>6, StepTemps

LEMMA FinishTemps ==
  ASSUME TInv, cn_finish_command
  PROVE  TInv'
  <1>1. job # None /\ job.pc = "finish" /\ job' = None /\ count' = count /\ temp' = temp
    BY DEF cn_finish_command, At
  <1>2. Made(job) = {}
    BY <1>1 DEF Made
  <1> QED BY <1>1, <1>2 DEF TInv, Shape, OnlyOwnFiles
-----------------------------------------------------------------------------
(* The stages of the toolchain *)

LEMMA WriteIrTemps ==
  ASSUME TInv, NEW outcome, cn_backend_write_ir_file(outcome)
  PROVE  TInv'
  <1>1. job # None /\ job \in Jobs /\ job.pc = "write_ir" /\ Shape /\ count' = count
    BY DEF TInv, Shape, cn_backend_write_ir_file, At
  <1>2. job.what \in {"obj", "build"}
    BY <1>1 DEF Shape, PcFits
  <1>3. \A n \in 1..MaxCommands, q \in Roles : temp[<<n, q>>] = Gone
    BY <1>1 DEF TInv, OnlyOwnFiles, Made
  <1>4. CASE outcome = "written" /\ Prog.rejects # "emit"
    <2>1. /\ job' \in Jobs /\ job'.what = job.what /\ job'.prog = job.prog
          /\ job'.pc = IF job.what = "obj" THEN "compile_ir" ELSE "create_object"
      BY <1>1, <1>4, GotoKeeps DEF cn_backend_write_ir_file, Goto, Pcs
    <2>2. temp' = Put(temp, "ir", Ir(job.id))
      BY <1>4 DEF cn_backend_write_ir_file
    <2>3. PcFits(job') /\ "ir" \in Made(job')
      BY <1>2, <2>1 DEF PcFits, Made
    <2>4. "ir" \in Roles
      BY DEF Roles
    <2>5. /\ DOMAIN temp' = DOMAIN temp
          /\ \A n \in 1..MaxCommands, q \in Roles :
               temp'[<<n, q>>] = IF n = count /\ q = "ir" THEN Ir(job.id) ELSE temp[<<n, q>>]
      BY <1>1, <2>2, <2>4, PutAt
    <2> QED BY <1>1, <1>3, <2>1, <2>3, <2>5, StepTemps
  <1>5. CASE ~(outcome = "written" /\ Prog.rejects # "emit")
    <2>1. job' \in Jobs /\ job'.pc = "finish"
      BY <1>1, <1>5, GotoKeeps DEF cn_backend_write_ir_file, Goto, Pcs
    <2>2. temp' = temp \/ temp' = Put(Put(temp, "ir", Empty), "ir", Gone)
      BY <1>5 DEF cn_backend_write_ir_file, cn_backend_delete_file
    <2>3. /\ DOMAIN temp' = DOMAIN temp
          /\ \A n \in 1..MaxCommands, q \in Roles : temp'[<<n, q>>] = Gone
      BY <1>1, <1>3, <2>2 DEF Put, File, Shape
    <2>4. PcFits(job')
      BY <2>1 DEF PcFits
    <2> QED BY <1>1, <2>1, <2>3, <2>4, StepTemps
  <1> QED BY <1>4, <1>5

\* mkstemp: made is what was there before, and next is reached with the new
\* file as well.
LEMMA CreateTemps ==
  ASSUME TInv, NEW pc, NEW role \in Roles, NEW made, NEW next \in Pcs, NEW ok \in BOOLEAN,
         CreateTemp(pc, role, made, next, ok),
         At(pc) => /\ Made(job) \subseteq made
                   /\ \A j \in Jobs : j.pc = next /\ j.what = job.what /\ j.prog = job.prog =>
                        PcFits(j) /\ made \cup {role} \subseteq Made(j)
  PROVE  TInv'
  <1>1. job # None /\ job \in Jobs /\ At(pc) /\ Shape /\ count' = count
    BY DEF TInv, Shape, CreateTemp, At
  <1>2. \A n \in 1..MaxCommands, q \in Roles : temp[<<n, q>>] # Gone => n = count /\ q \in made
    BY <1>1 DEF TInv, OnlyOwnFiles
  <1>3. CASE ok
    <2>1. job' \in Jobs /\ job'.what = job.what /\ job'.prog = job.prog /\ job'.pc = next
      BY <1>1, <1>3, GotoKeeps DEF CreateTemp, Goto
    <2>2. PcFits(job') /\ made \cup {role} \subseteq Made(job')
      BY <1>1, <2>1
    <2>3. temp' = Put(temp, role, Empty)
      BY <1>3 DEF CreateTemp
    <2>4. /\ DOMAIN temp' = DOMAIN temp
          /\ \A n \in 1..MaxCommands, q \in Roles :
               temp'[<<n, q>>] = IF n = count /\ q = role THEN Empty ELSE temp[<<n, q>>]
      BY <1>1, <2>3, PutAt
    <2> QED BY <1>1, <1>2, <2>1, <2>2, <2>4, StepTemps
  <1>4. CASE ~ok
    <2>1. job' \in Jobs /\ job'.pc = "finish"
      BY <1>1, <1>4, GotoKeeps DEF CreateTemp, Goto, Pcs
    <2>2. Deleted(made)
      BY <1>4 DEF CreateTemp
    <2>3. /\ DOMAIN temp' = DOMAIN temp
          /\ \A n \in 1..MaxCommands, q \in Roles :
               temp'[<<n, q>>] = IF n = count /\ q \in made THEN Gone ELSE temp[<<n, q>>]
      BY <1>1, <2>2, DeletedAt
    <2>4. PcFits(job')
      BY <2>1 DEF PcFits
    <2> QED BY <1>1, <1>2, <2>1, <2>3, <2>4, StepTemps
  <1> QED BY <1>3, <1>4

\* The three files of a build beside the IR.
LEMMA CreatesTemps ==
  ASSUME TInv, NEW ok \in BOOLEAN, CreateObject(ok) \/ CreateRuntimeSource(ok) \/ CreateRuntimeObject(ok)
  PROVE  TInv'
  <1>1. job # None /\ job.pc \in {"create_object", "create_source", "create_runtime"} =>
          /\ job.what = "build"
          /\ job.pc # "create_object" => use_ipc(job.prog)
    BY DEF TInv, Shape, PcFits
  <1>2. CASE CreateObject(ok)
    <2>1. At("create_object") => Made(job) \subseteq {"ir"}
      BY DEF At, Made
    <2>2. ASSUME NEW j \in Jobs, At("create_object"), j.what = job.what, j.prog = job.prog,
                 j.pc = IF use_ipc(Prog) THEN "create_source" ELSE "compile_ir"
          PROVE  PcFits(j) /\ {"ir"} \cup {"object"} \subseteq Made(j)
      BY <1>1, <2>2 DEF At, Made, PcFits, BuildFiles, Prog
    <2>3. PICK next \in Pcs : next = IF use_ipc(Prog) THEN "create_source" ELSE "compile_ir"
      BY DEF Pcs
    <2>4. "object" \in Roles
      BY DEF Roles
    <2>5. CreateTemp("create_object", "object", {"ir"}, next, ok)
      BY <1>2, <2>3 DEF CreateObject
    <2> QED BY <2>1, <2>2, <2>3, <2>4, <2>5, CreateTemps
  <1>3. CASE CreateRuntimeSource(ok)
    <2>1. At("create_source") => Made(job) \subseteq {"ir", "object"}
      BY DEF At, Made
    <2>2. ASSUME NEW j \in Jobs, At("create_source"), j.what = job.what, j.prog = job.prog, j.pc = "create_runtime"
          PROVE  PcFits(j) /\ {"ir", "object"} \cup {"source"} \subseteq Made(j)
      BY <1>1, <2>2 DEF At, Made, PcFits
    <2>3. "source" \in Roles /\ "create_runtime" \in Pcs
      BY DEF Roles, Pcs
    <2> QED BY <1>3, <2>1, <2>2, <2>3, CreateTemps DEF CreateRuntimeSource
  <1>4. CASE CreateRuntimeObject(ok)
    <2>1. At("create_runtime") => Made(job) \subseteq {"ir", "object", "source"}
      BY DEF At, Made
    <2>2. ASSUME NEW j \in Jobs, At("create_runtime"), j.what = job.what, j.prog = job.prog, j.pc = "compile_ir"
          PROVE  PcFits(j) /\ {"ir", "object", "source"} \cup {"runtime"} \subseteq Made(j)
      BY <1>1, <2>2 DEF At, Made, PcFits, BuildFiles, Roles
    <2>3. "runtime" \in Roles /\ "compile_ir" \in Pcs
      BY DEF Roles, Pcs
    <2> QED BY <1>4, <2>1, <2>2, <2>3, CreateTemps DEF CreateRuntimeObject
  <1> QED BY <1>2, <1>3, <1>4
\* A clang stage keeps what there is, touches only a file of the command, and
\* goes on among the last stages.
LEMMA StageTemps ==
  ASSUME TInv, job # None, job \in Jobs, count' = count,
         job.pc \in {"compile_ir", "write_source", "compile_source", "link"},
         NEW pc \in {"write_source", "compile_source", "link", "cleanup"}, NEW ok \in BOOLEAN,
         job' = [job EXCEPT !.ok = ok, !.pc = pc] \/ job' = [job EXCEPT !.pc = pc],
         pc # "cleanup" => job.what = "build",
         pc \in {"write_source", "compile_source"} => use_ipc(job.prog),
         NEW role \in Roles, role \in Made(job), NEW c,
         temp' = temp \/ temp' = Put(temp, role, c)
  PROVE  TInv'
  <1>1. job' \in Jobs /\ job'.what = job.what /\ job'.prog = job.prog /\ job'.pc = pc
    BY GotoKeeps, GotoOkKeeps DEF Pcs
  <1>2. PcFits(job')
    BY <1>1 DEF PcFits, TInv, Shape
  <1>3. Made(job') = Made(job)
    BY <1>1 DEF Made
  <1>4. Shape
    BY DEF TInv
  <1>5. DOMAIN temp' = DOMAIN temp /\ \A n \in 1..MaxCommands, q \in Roles :
          temp'[<<n, q>>] = temp[<<n, q>>] \/ (n = count /\ q = role)
    BY <1>4, PutAt
  <1>6. \A n \in 1..MaxCommands, q \in Roles : temp[<<n, q>>] # Gone => n = count /\ q \in Made(job)
    BY DEF TInv, OnlyOwnFiles
  <1> QED BY <1>1, <1>2, <1>3, <1>5, <1>6, StepTemps

LEMMA ClangTemps ==
  ASSUME TInv,
         \/ \E s \in cn_backend_run_command \X cn_backend_run_command, left \in BOOLEAN :
              cn_backend_compile_ir_to_object(s, left)
         \/ \E ok \in BOOLEAN : cn_backend_write_text_file(ok)
         \/ \E s \in cn_backend_run_command \X cn_backend_run_command, left \in BOOLEAN :
              cn_backend_compile_c_to_object(s, left)
         \/ \E s \in cn_backend_run_command \X cn_backend_run_command, left \in BOOLEAN :
              cn_backend_link_object_to_binary(s, left)
  PROVE  TInv'
  <1>1. CASE \E s \in cn_backend_run_command \X cn_backend_run_command, left \in BOOLEAN :
               cn_backend_compile_ir_to_object(s, left)
    <2>1. PICK s \in cn_backend_run_command \X cn_backend_run_command, left \in BOOLEAN :
            cn_backend_compile_ir_to_object(s, left)
      BY <1>1
    <2> DEFINE good == cn_backend_run_clang_stage(s[1], s[2])
               pc == IF job.what = "build" /\ good
                     THEN IF use_ipc(Prog) THEN "write_source" ELSE "link"
                     ELSE "cleanup"
               made == IF good THEN Object(job.id) ELSE Gone
    <2>2. job # None /\ job \in Jobs /\ job.pc = "compile_ir" /\ count' = count
      BY <2>1 DEF TInv, Shape, cn_backend_compile_ir_to_object, At
    <2>3. /\ job' = [job EXCEPT !.ok = good, !.pc = pc]
          /\ job.what = "obj" => temp' = temp
          /\ job.what # "obj" => temp' = (IF left THEN temp ELSE Put(temp, "object", made))
      BY <2>1 DEF cn_backend_compile_ir_to_object
    <2>4. pc \in {"write_source", "compile_source", "link", "cleanup"} /\ good \in BOOLEAN
      BY DEF cn_backend_run_clang_stage
    <2>5. pc # "cleanup" => job.what = "build"
      OBVIOUS
    <2>6. pc \in {"write_source", "compile_source"} => use_ipc(job.prog)
      BY DEF Prog
    <2>7. CASE job.what = "obj"
      <3>1. "ir" \in Roles /\ "ir" \in Made(job)
        BY <2>2, <2>7 DEF Roles, Made
      <3>2. temp' = temp
        BY <2>3, <2>7
      <3> HIDE DEF pc, good, made
      <3> QED BY <2>2, <2>3, <2>4, <2>5, <2>6, <3>1, <3>2, StageTemps
    <2>8. CASE job.what # "obj"
      <3>1. "object" \in Roles /\ "object" \in Made(job)
        BY <2>2, <2>8 DEF Roles, Made, BuildFiles
      <3>2. temp' = temp \/ temp' = Put(temp, "object", made)
        BY <2>3, <2>8
      <3> HIDE DEF pc, good, made
      <3> QED BY <2>2, <2>3, <2>4, <2>5, <2>6, <3>1, <3>2, StageTemps
    <2> QED BY <2>7, <2>8
  <1>2. CASE \E ok \in BOOLEAN : cn_backend_write_text_file(ok)
    <2>1. PICK ok \in BOOLEAN : cn_backend_write_text_file(ok)
      BY <1>2
    <2>2. job # None /\ job \in Jobs /\ job.pc = "write_source" /\ count' = count
      BY <2>1 DEF TInv, Shape, cn_backend_write_text_file, At
    <2>3. job.what = "build" /\ use_ipc(job.prog)
      BY <2>2 DEF TInv, Shape, PcFits
    <2>4. "source" \in Roles /\ "source" \in Made(job)
      BY <2>2, <2>3 DEF Roles, Made, BuildFiles
    <2>5. CASE ok
      <3>1. job' = [job EXCEPT !.pc = "compile_source"] /\ temp' = Put(temp, "source", RuntimeSource)
        BY <2>1, <2>5 DEF cn_backend_write_text_file, Goto
      <3> QED BY <2>2, <2>3, <2>4, <3>1, StageTemps
    <2>6. CASE ~ok
      <3>1. job' = [job EXCEPT !.ok = FALSE, !.pc = "cleanup"] /\ temp' = Put(temp, "source", Gone)
        BY <2>1, <2>6 DEF cn_backend_write_text_file, cn_backend_delete_file
      <3> QED BY <2>2, <2>3, <2>4, <3>1, StageTemps
    <2> QED BY <2>5, <2>6
  <1>3. CASE \E s \in cn_backend_run_command \X cn_backend_run_command, left \in BOOLEAN :
               cn_backend_compile_c_to_object(s, left)
    <2>1. PICK s \in cn_backend_run_command \X cn_backend_run_command, left \in BOOLEAN :
            cn_backend_compile_c_to_object(s, left)
      BY <1>3
    <2> DEFINE good == cn_backend_run_clang_stage(s[1], s[2])
               pc == IF good THEN "link" ELSE "cleanup"
               made == IF good THEN RuntimeObject ELSE Gone
    <2>2. job # None /\ job \in Jobs /\ job.pc = "compile_source" /\ count' = count
      BY <2>1 DEF TInv, Shape, cn_backend_compile_c_to_object, At
    <2>3. job' = [job EXCEPT !.ok = good, !.pc = pc] /\ (temp' = temp \/ temp' = Put(temp, "runtime", made))
      BY <2>1 DEF cn_backend_compile_c_to_object
    <2>4. job.what = "build" /\ use_ipc(job.prog)
      BY <2>2 DEF TInv, Shape, PcFits
    <2>5. "runtime" \in Roles /\ "runtime" \in Made(job)
      BY <2>2, <2>4 DEF Roles, Made, BuildFiles
    <2>6. pc \in {"write_source", "compile_source", "link", "cleanup"} /\ good \in BOOLEAN
      BY DEF cn_backend_run_clang_stage
    <2> HIDE DEF pc, good, made
    <2> QED BY <2>2, <2>3, <2>4, <2>5, <2>6, StageTemps
  <1>4. CASE \E s \in cn_backend_run_command \X cn_backend_run_command, left \in BOOLEAN :
               cn_backend_link_object_to_binary(s, left)
    <2>1. PICK s \in cn_backend_run_command \X cn_backend_run_command, left \in BOOLEAN :
            cn_backend_link_object_to_binary(s, left)
      BY <1>4
    <2> DEFINE good == cn_backend_run_clang_stage(s[1], s[2])
    <2>2. job # None /\ job \in Jobs /\ job.pc = "link" /\ count' = count
      BY <2>1 DEF TInv, Shape, cn_backend_link_object_to_binary, At
    <2>3. job' = [job EXCEPT !.ok = good, !.pc = "cleanup"] /\ temp' = temp
      BY <2>1 DEF cn_backend_link_object_to_binary
    <2>4. job.what = "build"
      BY <2>2 DEF TInv, Shape, PcFits
    <2>5. "ir" \in Roles /\ "ir" \in Made(job)
      BY <2>2, <2>4 DEF Roles, Made, BuildFiles
    <2>6. good \in BOOLEAN
      BY DEF cn_backend_run_clang_stage
    <2> HIDE DEF good
    <2> QED BY <2>2, <2>3, <2>4, <2>5, <2>6, StageTemps
  <1> QED BY <1>1, <1>2, <1>3, <1>4

LEMMA CleanupTemps ==
  ASSUME TInv, cn_backend_emit_object \/ cn_backend_build_binary
  PROVE  TInv'
  <1>1. job # None /\ job \in Jobs /\ job.pc = "cleanup" /\ Shape /\ count' = count /\ Goto("finish")
    BY DEF TInv, Shape, cn_backend_emit_object, cn_backend_build_binary, At
  <1>2. Deleted(Made(job))
    BY <1>1 DEF cn_backend_emit_object, cn_backend_build_binary, Made, BuildFiles, Prog
  <1>3. job' \in Jobs /\ job'.pc = "finish"
    BY <1>1, GotoKeeps DEF Goto, Pcs
  <1>4. PcFits(job')
    BY <1>3 DEF PcFits
  <1>5. DOMAIN temp' = DOMAIN temp /\ \A n \in 1..MaxCommands, q \in Roles :
          temp'[<<n, q>>] = IF n = count /\ q \in Made(job) THEN Gone ELSE temp[<<n, q>>]
    BY <1>1, <1>2, DeletedAt
  <1>6. \A n \in 1..MaxCommands, q \in Roles : temp'[<<n, q>>] = Gone
    BY <1>5 DEF TInv, OnlyOwnFiles
  <1> QED BY <1>1, <1>3, <1>4, <1>5, <1>6, StepTemps

LEMMA NextTemps ==
  ASSUME TInv, [Next]_vars
  PROVE  TInv'
  <1>1. CASE UNCHANGED vars
    BY <1>1 DEF vars, TInv, Shape, OnlyOwnFiles
  <1>2. CASE Next
    BY <1>2, MainTemps, FrontEndTemps, WriteIrTemps, CreatesTemps, ClangTemps, CleanupTemps, FinishTemps DEF Next
  <1> QED BY <1>1, <1>2

\* However the operations of each command fail, temporary files exist only
\* while their command runs and only those its stage has made
\* (toolchain.c, cn_backend_build_binary, cn_backend_emit_object).
THEOREM TempsInvariance == Spec => []TInv
  <1>1. Init => TInv
    BY InitTemps
  <1>2. TInv /\ [Next]_vars => TInv'
    BY NextTemps
  <1> QED BY <1>1, <1>2, PTL DEF Spec

\* No command leaves a temporary file behind, for any number of commands.
THEOREM TempsAreRemoved == Spec => []TempsRemoved
  <1>1. TInv => TempsRemoved
    <2>1. SUFFICES ASSUME TInv, NEW f \in DOMAIN temp, job = None \/ f[1] < count
                   PROVE  temp[f] = Gone
      BY DEF TempsRemoved
    <2>2. PICK n \in 1..MaxCommands, r \in Roles : f = <<n, r>>
      BY <2>1 DEF TInv, Shape
    <2>3. ~(job # None /\ n = count)
      BY <2>1, <2>2 DEF TInv, Shape
    <2> QED BY <2>1, <2>2, <2>3 DEF TInv, OnlyOwnFiles
  <1> QED BY <1>1, TempsInvariance, PTL
-----------------------------------------------------------------------------
(* The two scans *)

\* A concatenation is found when both of its parts are.
LEMMA FindsConcat ==
  ASSUME NEW X, NEW s \in Seq(X), NEW t \in Seq(X), NEW slots, Finds(slots, s), Finds(slots, t)
  PROVE  s \o t \in Seq(X) /\ Finds(slots, s \o t)
  <1>1. SUFFICES ASSUME NEW i \in 1..Len(s) + Len(t)
                 PROVE  (s \o t)[i] \in slots
    BY DEF Finds, Range
  <1>2. CASE i <= Len(s)
    BY <1>2 DEF Finds, Range
  <1>3. CASE i > Len(s)
    <2>1. (s \o t)[i] = t[i - Len(s)] /\ i - Len(s) \in 1..Len(t)
      BY <1>3
    <2> QED BY <2>1 DEF Finds, Range
  <1> QED BY <1>2, <1>3

\* A way down is found when the scan descends into every place it may use.
LEMMA FindsWay ==
  ASSUME NEW S, NEW n \in Nat, NEW e \in SeqOf(S, n), NEW slots, S \subseteq slots
  PROVE  e \in Seq(S) /\ Finds(slots, e)
  BY DEF SeqOf, Finds, Range

LEMMA FindsCallSites ==
  ASSUME NEW slots, {"const", "function"} \subseteq slots,
         ExprSlots \subseteq slots, BlockSlots \subseteq slots, StmtSlots \subseteq slots,
         NEW site \in CallSites
  PROVE  Finds(slots, site)
  <1> DEFINE X == {"const", "function"} \cup ExprSlots \cup BlockSlots \cup StmtSlots
  <1>1. MaxNest \in Nat
    BY BuildAssumption
  <1>2. \A x \in X : <<x>> \in Seq(X) /\ Finds(slots, <<x>>)
    BY DEF Finds, Range
  <1>3. \A e \in SeqOf(ExprSlots, MaxNest) : e \in Seq(X) /\ Finds(slots, e)
    <2>1. TAKE e \in SeqOf(ExprSlots, MaxNest)
    <2>2. e \in Seq(ExprSlots) /\ Finds(slots, e)
      BY <1>1, FindsWay
    <2> QED BY <2>2
  <1>4. \A b \in SeqOf(BlockSlots, MaxNest) : b \in Seq(X) /\ Finds(slots, b)
    <2>1. TAKE b \in SeqOf(BlockSlots, MaxNest)
    <2>2. b \in Seq(BlockSlots) /\ Finds(slots, b)
      BY <1>1, FindsWay
    <2> QED BY <2>2
  <1> HIDE DEF X
  <1>5. CASE \E e \in SeqOf(ExprSlots, MaxNest) : site = InConst(e)
    <2>1. "const" \in X
      BY DEF X
    <2> QED BY <1>2, <1>3, <1>5, <2>1, FindsConcat DEF InConst
  <1>6. CASE \E b \in SeqOf(BlockSlots, MaxNest), s \in StmtSlots, e \in SeqOf(ExprSlots, MaxNest) :
               site = InFunction(b, s, e)
    <2>1. PICK b \in SeqOf(BlockSlots, MaxNest), s \in StmtSlots, e \in SeqOf(ExprSlots, MaxNest) :
            site = InFunction(b, s, e)
      BY <1>6
    <2>2. "function" \in X /\ s \in X
      BY DEF X
    <2>3. <<"function">> \o b \in Seq(X) /\ Finds(slots, <<"function">> \o b)
      <3>1. <<"function">> \in Seq(X) /\ Finds(slots, <<"function">>)
        BY <1>2, <2>2
      <3> QED BY <1>4, <3>1, FindsConcat, Zenon
    <2>4. <<"function">> \o b \o <<s>> \in Seq(X) /\ Finds(slots, <<"function">> \o b \o <<s>>)
      <3>1. <<s>> \in Seq(X) /\ Finds(slots, <<s>>)
        BY <1>2, <2>2
      <3> QED BY <2>3, <3>1, FindsConcat, Zenon
    <2> QED BY <1>3, <2>1, <2>4, FindsConcat DEF InFunction
  <1> QED BY <1>5, <1>6 DEF CallSites

Rejections == {"nothing", "load", "sema", "lower", "emit"}
Modules == {"none", "std.math", "std.ipc", "std.x11"}

\* The scan of the emitter (llvm_text.c) and that of the driver (toolchain.c)
\* find a call of a built-in module wherever it stands in the IR, at any
\* depth, so that both see the same modules.
THEOREM ScansAgree ==
  \A p \in Programs :
    /\ p.rejects \in Rejections /\ p.main \in BOOLEAN /\ p.module \in Modules
    /\ p.declares = (p.module # "none")
    /\ p.uses = (p.module # "none")
  <1>1. \A site \in CallSites : Finds(cn_llvm_program_uses_builtin_module, site)
    <2>1. {"const", "function"} \subseteq cn_llvm_program_uses_builtin_module
      BY DEF cn_llvm_program_uses_builtin_module
    <2>2. ExprSlots \subseteq cn_llvm_program_uses_builtin_module
      BY DEF ExprSlots, cn_llvm_program_uses_builtin_module
    <2>3. BlockSlots \subseteq cn_llvm_program_uses_builtin_module
      BY DEF BlockSlots, cn_llvm_program_uses_builtin_module
    <2>4. StmtSlots \subseteq cn_llvm_program_uses_builtin_module
      BY DEF StmtSlots, cn_llvm_program_uses_builtin_module
    <2> QED BY <2>1, <2>2, <2>3, <2>4, FindsCallSites
  <1>2. \A site \in CallSites : Finds(cn_backend_program_uses_builtin_module, site)
    <2>1. {"const", "function"} \subseteq cn_backend_program_uses_builtin_module
      BY DEF cn_backend_program_uses_builtin_module
    <2>2. ExprSlots \subseteq cn_backend_program_uses_builtin_module
      BY DEF ExprSlots, cn_backend_program_uses_builtin_module, backend_expr_slots
    <2>3. BlockSlots \subseteq cn_backend_program_uses_builtin_module
      BY DEF BlockSlots, cn_backend_program_uses_builtin_module, backend_stmt_slots
    <2>4. StmtSlots \subseteq cn_backend_program_uses_builtin_module
      BY DEF StmtSlots, cn_backend_program_uses_builtin_module, backend_stmt_slots
    <2> QED BY <2>1, <2>2, <2>3, <2>4, FindsCallSites
  <1>3. TAKE p \in Programs
  <1>4. PICK rejects \in Rejections, hasMain \in BOOLEAN, module \in Modules, site \in CallSites :
          p = Program(rejects, hasMain, module, site)
    BY DEF Programs, Rejections, Modules
  <1>5. Finds(cn_llvm_program_uses_builtin_module, site) /\ Finds(cn_backend_program_uses_builtin_module, site)
    BY <1>1, <1>2
  <1> QED BY <1>4, <1>5 DEF Program
-----------------------------------------------------------------------------
(* The exit status *)

Creating == {"create_object", "create_source", "create_runtime"}
Tooling == Creating \cup {"compile_ir", "write_source", "compile_source", "link"}

\* Which errors there are when the front end has come this far.
FrontEndErrors(j) ==
  /\ j.pc = "load" => ~errors
  /\ j.pc = "lower" => errors = (j.prog.rejects \in {"load", "sema"})
  /\ j.pc = "emit" => errors = (j.prog.rejects \in {"load", "sema", "lower"}) /\ j.program = ~errors
  /\ j.pc = "write_ir" => ~errors /\ j.prog.rejects \in {"nothing", "emit"}
  /\ j.pc \in Tooling => ~errors
  /\ j.pc \in Tooling \cup {"cleanup"} => j.prog.rejects = "nothing"

\* What an error can come from.
Excused(j) == j.prog.rejects # "nothing" \/ faulted \/ (j.what = "build" /\ ~j.prog.main)

\* What a command without errors has made.
Built(j) ==
  /\ j.what = "obj" => out = Object(j.id)
  /\ j.what = "build" => \E with \in SUBSET {"std.ipc", "std.x11"} :
                            out = Binary(j.id, with) /\ Needs(j.prog) \subseteq with
  /\ j.what \notin {"obj", "build"} => out = before

Outcome(j) ==
  /\ errors => Excused(j)
  /\ j.pc \notin {"cleanup", "finish"} => out = before
  /\ j.prog.rejects # "nothing" => out = before
  /\ j.pc \in {"cleanup", "finish"} /\ ~errors => Built(j)

\* The files a stage reads hold what an earlier one has put there.
Inputs(j) ==
  /\ j.pc \in Creating \cup {"compile_ir"} => temp[<<count, "ir">>] = Ir(j.id)
  /\ j.pc \in {"write_source", "compile_source", "link"} => temp[<<count, "object">>] = Object(j.id)
  /\ j.pc = "compile_source" => temp[<<count, "source">>] = RuntimeSource
  /\ j.pc = "link" /\ use_ipc(j.prog) => temp[<<count, "runtime">>] = RuntimeObject

Status(j) == FrontEndErrors(j) /\ Outcome(j) /\ Inputs(j)

SInv ==
  /\ errors \in BOOLEAN /\ faulted \in BOOLEAN
  /\ job # None => Status(job)
  /\ ExitTellsWhatWasBuilt

BInv == TInv /\ SInv

\* Until a command has ended nothing is said of the last one.
LEMMA StepStatus ==
  ASSUME job' # None, Status(job)', errors' \in BOOLEAN, faulted' \in BOOLEAN
  PROVE  SInv'
  BY DEF SInv, ExitTellsWhatWasBuilt

LEMMA InitStatus == Init => SInv
  BY DEF Init, SInv, ExitTellsWhatWasBuilt

LEMMA MainStatus ==
  ASSUME BInv, NEW command \in Commands, NEW p \in Programs, main(command, p)
  PROVE  SInv'
  <1>1. job' \in Jobs /\ job'.pc = "load"
    BY DEF main, Jobs, Pcs, BInv, TInv, Shape
  <1>2. job' # None
    BY <1>1, JobIsSome
  <1>3. ~errors' /\ ~faulted' /\ out' = before' /\ errors' \in BOOLEAN /\ faulted' \in BOOLEAN
    BY DEF main
  <1>4. FrontEndErrors(job)' /\ Inputs(job)'
    BY <1>1, <1>3 DEF FrontEndErrors, Inputs, Creating, Tooling
  <1>5. Outcome(job)'
    BY <1>1, <1>3 DEF Outcome
  <1> QED BY <1>2, <1>3, <1>4, <1>5, StepStatus DEF Status

LEMMA FrontEndStatus ==
  ASSUME BInv, cn_load_checked_project \/ Lower \/ cn_run_llvm_ir \/ cn_run_build
  PROVE  SInv'
  <1>1. job # None /\ job \in Jobs /\ Status(job) /\ errors \in BOOLEAN /\ faulted \in BOOLEAN
    BY DEF BInv, SInv, TInv, Shape, cn_load_checked_project, Lower, cn_run_llvm_ir, cn_run_build, At
  <1>2. out' = out /\ before' = before /\ faulted' = faulted
    BY DEF cn_load_checked_project, Lower, cn_run_llvm_ir, cn_run_build
  <1>3. job.prog \in Programs /\ job.what \in Commands /\ job.prog.rejects \in Rejections
    BY <1>1, ScansAgree DEF Jobs
  <1>4. CASE cn_load_checked_project
    <2>1. /\ job' \in Jobs /\ job' # None /\ job'.what = job.what /\ job'.prog = job.prog
          /\ job'.pc = IF job.what = "check" THEN "finish" ELSE "lower"
      BY <1>1, <1>4, GotoKeeps DEF cn_load_checked_project, Goto, Pcs
    <2>2. job.pc = "load" /\ errors' = (job.prog.rejects \in {"load", "sema"})
      BY <1>4 DEF cn_load_checked_project, At, Prog
    <2>3. FrontEndErrors(job)' /\ Inputs(job)'
      BY <2>1, <2>2 DEF FrontEndErrors, Inputs, Creating, Tooling
    <2>4. Outcome(job)'
      BY <1>1, <1>2, <2>1, <2>2 DEF Outcome, Status, Excused, Built
    <2> QED BY <1>1, <1>2, <2>1, <2>2, <2>3, <2>4, StepStatus DEF Status
  <1>5. CASE Lower
    <2>1. /\ job' \in Jobs /\ job'.what = job.what /\ job'.prog = job.prog
          /\ job'.pc = "emit" /\ job'.program = ~errors'
      BY <1>1, <1>5 DEF Lower, Jobs, Pcs
    <2>2. job.pc = "lower" /\ errors' = (errors \/ job.prog.rejects = "lower")
      BY <1>5 DEF Lower, At, Prog
    <2>3. errors' = (job.prog.rejects \in {"load", "sema", "lower"})
      <3>1. errors = (job.prog.rejects \in {"load", "sema"})
        BY <1>1, <2>2 DEF Status, FrontEndErrors
      <3>2. CASE job.prog.rejects \in {"load", "sema"}
        BY <2>2, <3>1, <3>2
      <3>3. CASE job.prog.rejects \notin {"load", "sema"}
        <4>1. ~errors
          BY <3>1, <3>3
        <4>2. errors' = (job.prog.rejects = "lower")
          BY <2>2, <4>1
        <4> QED BY <3>3, <4>2
      <3> QED BY <3>2, <3>3
    <2>4. FrontEndErrors(job)' /\ Inputs(job)'
      BY <2>1, <2>3 DEF FrontEndErrors, Inputs, Creating, Tooling
    <2>5. Outcome(job)'
      BY <1>1, <1>2, <2>1, <2>2, <2>3 DEF Outcome, Status, Excused
    <2>6. job' # None
      BY <2>1, JobIsSome
    <2> QED BY <1>1, <1>2, <2>2, <2>4, <2>5, <2>6, StepStatus DEF Status
  <1>6. CASE cn_run_llvm_ir
    <2>1. job' # None /\ job'.what = job.what /\ job'.prog = job.prog /\ job'.pc = "finish"
      BY <1>1, <1>6, GotoKeeps DEF cn_run_llvm_ir, Goto, Pcs
    <2>2. /\ job.pc = "emit" /\ job.what \in {"ir", "llvm-ir"}
          /\ errors' = (errors \/ (job.what = "llvm-ir" /\ job.program /\ job.prog.rejects = "emit"))
      BY <1>6 DEF cn_run_llvm_ir, At, Prog
    <2>3. FrontEndErrors(job)' /\ Inputs(job)'
      BY <2>1 DEF FrontEndErrors, Inputs, Creating, Tooling
    <2>4. Outcome(job)'
      BY <1>1, <1>2, <2>1, <2>2 DEF Outcome, Status, Excused, Built
    <2> QED BY <1>1, <1>2, <2>1, <2>2, <2>3, <2>4, StepStatus DEF Status
  <1>7. CASE cn_run_build
    <2>1. /\ job' # None /\ job'.what = job.what /\ job'.prog = job.prog
          /\ job'.pc = IF job.program /\ ~errors THEN "write_ir" ELSE "finish"
      BY <1>1, <1>7, GotoKeeps DEF cn_run_build, Goto, Pcs
    <2>2. job.pc = "emit" /\ errors' = errors
      BY <1>7 DEF cn_run_build, At
    <2>3. /\ errors = (job.prog.rejects \in {"load", "sema", "lower"})
          /\ job'.pc = IF errors THEN "finish" ELSE "write_ir"
      BY <1>1, <2>1, <2>2 DEF Status, FrontEndErrors
    <2>4. FrontEndErrors(job)' /\ Inputs(job)'
      BY <1>1, <1>3, <2>1, <2>2, <2>3 DEF FrontEndErrors, Inputs, Creating, Tooling, Rejections
    <2>5. Outcome(job)'
      BY <1>1, <1>2, <2>1, <2>2, <2>3 DEF Outcome, Status, Excused
    <2> QED BY <1>1, <1>2, <2>1, <2>2, <2>4, <2>5, StepStatus DEF Status
  <1> QED BY <1>4, <1>5, <1>6, <1>7
LEMMA WriteIrStatus ==
  ASSUME BInv, NEW outcome, cn_backend_write_ir_file(outcome)
  PROVE  SInv'
  <1>1. /\ job # None /\ job \in Jobs /\ job.pc = "write_ir" /\ Shape /\ Status(job)
        /\ errors \in BOOLEAN /\ faulted \in BOOLEAN
    BY DEF BInv, SInv, TInv, Shape, cn_backend_write_ir_file, At
  <1>2. ~errors /\ job.prog.rejects \in {"nothing", "emit"} /\ out = before
    BY <1>1 DEF Status, FrontEndErrors, Outcome
  <1>3. count' = count /\ out' = out /\ before' = before /\ faulted' = (faulted \/ outcome # "written")
    BY DEF cn_backend_write_ir_file
  <1>4. CASE outcome = "written" /\ Prog.rejects # "emit"
    <2>1. /\ job' # None /\ job'.prog = job.prog /\ job'.id = job.id
          /\ job'.pc \in {"compile_ir", "create_object"}
      BY <1>1, <1>4, GotoKeeps DEF cn_backend_write_ir_file, Goto, Pcs
    <2>2. temp' = Put(temp, "ir", Ir(job.id)) /\ errors' = errors /\ job.prog.rejects = "nothing"
      BY <1>2, <1>4 DEF cn_backend_write_ir_file, Prog
    <2>3. temp'[<<count, "ir">>] = Ir(job.id)
      BY <1>1, <2>2 DEF Put, File, Shape, Roles
    <2>4. FrontEndErrors(job)' /\ Inputs(job)'
      BY <1>2, <1>3, <2>1, <2>2, <2>3 DEF FrontEndErrors, Inputs, Creating, Tooling
    <2>5. Outcome(job)'
      BY <1>2, <1>3, <2>1, <2>2 DEF Outcome
    <2> QED BY <1>1, <1>3, <2>1, <2>2, <2>4, <2>5, StepStatus DEF Status
  <1>5. CASE ~(outcome = "written" /\ Prog.rejects # "emit")
    <2>1. job' # None /\ job'.prog = job.prog /\ job'.pc = "finish" /\ errors' = TRUE
      BY <1>1, <1>5, GotoKeeps DEF cn_backend_write_ir_file, Goto, Pcs, Fail
    <2>2. FrontEndErrors(job)' /\ Inputs(job)'
      BY <2>1 DEF FrontEndErrors, Inputs, Creating, Tooling
    <2>3. Outcome(job)'
      BY <1>2, <1>3, <1>5, <2>1 DEF Outcome, Excused, Prog
    <2> QED BY <1>1, <1>3, <2>1, <2>2, <2>3, StepStatus DEF Status
  <1> QED BY <1>4, <1>5

LEMMA CreateStatus ==
  ASSUME BInv, NEW pc \in Creating, NEW role \in Roles, role # "ir", NEW made,
         NEW next \in Creating \cup {"compile_ir"}, NEW ok \in BOOLEAN,
         CreateTemp(pc, role, made, next, ok)
  PROVE  SInv'
  <1>1. /\ job # None /\ job \in Jobs /\ job.pc \in Creating /\ Shape /\ Status(job)
        /\ errors \in BOOLEAN /\ faulted \in BOOLEAN
    BY DEF BInv, SInv, TInv, Shape, CreateTemp, At
  <1>2. ~errors /\ job.prog.rejects = "nothing" /\ out = before /\ temp[<<count, "ir">>] = Ir(job.id)
    BY <1>1 DEF Status, FrontEndErrors, Outcome, Inputs, Tooling, Creating
  <1>3. count' = count /\ out' = out /\ before' = before /\ faulted' = (faulted \/ ~ok)
    BY DEF CreateTemp
  <1>4. next \in Pcs
    BY DEF Creating, Pcs
  <1>5. CASE ok
    <2>1. job' # None /\ job'.prog = job.prog /\ job'.id = job.id /\ job'.pc = next
      BY <1>1, <1>4, <1>5, GotoKeeps DEF CreateTemp, Goto
    <2>2. temp' = Put(temp, role, Empty) /\ errors' = errors
      BY <1>5 DEF CreateTemp
    <2>3. temp'[<<count, "ir">>] = Ir(job.id)
      BY <1>1, <1>2, <2>2 DEF Put, File, Shape, Roles
    <2>4. FrontEndErrors(job)' /\ Inputs(job)'
      BY <1>2, <1>3, <2>1, <2>2, <2>3 DEF FrontEndErrors, Inputs, Creating, Tooling
    <2>5. Outcome(job)'
      BY <1>2, <1>3, <2>1, <2>2 DEF Outcome, Creating
    <2> QED BY <1>1, <1>3, <2>1, <2>2, <2>4, <2>5, StepStatus DEF Status
  <1>6. CASE ~ok
    <2>1. job' # None /\ job'.prog = job.prog /\ job'.pc = "finish" /\ errors' = TRUE
      BY <1>1, <1>6, GotoKeeps DEF CreateTemp, Goto, Pcs, Fail
    <2>2. FrontEndErrors(job)' /\ Inputs(job)'
      BY <2>1 DEF FrontEndErrors, Inputs, Creating, Tooling
    <2>3. Outcome(job)'
      BY <1>2, <1>3, <1>6, <2>1 DEF Outcome, Excused
    <2> QED BY <1>1, <1>3, <2>1, <2>2, <2>3, StepStatus DEF Status
  <1> QED BY <1>5, <1>6

LEMMA CreatesStatus ==
  ASSUME BInv, NEW ok \in BOOLEAN, CreateObject(ok) \/ CreateRuntimeSource(ok) \/ CreateRuntimeObject(ok)
  PROVE  SInv'
  <1>1. PICK next \in Creating \cup {"compile_ir"} : next = IF use_ipc(Prog) THEN "create_source" ELSE "compile_ir"
    BY DEF Creating
  <1>2. /\ {"object", "source", "runtime"} \subseteq Roles \ {"ir"}
        /\ {"create_object", "create_source", "create_runtime"} = Creating
    BY DEF Roles, Creating
  <1>3. CASE CreateObject(ok)
    BY <1>1, <1>2, <1>3, CreateStatus DEF CreateObject
  <1>4. CASE CreateRuntimeSource(ok)
    BY <1>2, <1>4, CreateStatus DEF CreateRuntimeSource
  <1>5. CASE CreateRuntimeObject(ok)
    BY <1>2, <1>5, CreateStatus DEF CreateRuntimeObject
  <1> QED BY <1>3, <1>4, <1>5

\* A clang stage or a write that fails is the last stage, with an error that
\* has a cause.
LEMMA FailedStage ==
  ASSUME BInv, job \in Jobs, job.prog.rejects = "nothing", errors' = TRUE, faulted' \in BOOLEAN,
         job' = [job EXCEPT !.ok = FALSE, !.pc = "cleanup"], Excused(job)'
  PROVE  SInv'
  <1>1. job' # None /\ job'.prog = job.prog /\ job'.pc = "cleanup"
    BY GotoOkKeeps DEF Pcs
  <1>2. FrontEndErrors(job)' /\ Inputs(job)'
    BY <1>1 DEF FrontEndErrors, Inputs, Creating, Tooling
  <1>3. Outcome(job)'
    BY <1>1 DEF Outcome
  <1> QED BY <1>1, <1>2, <1>3, StepStatus DEF Status

LEMMA WriteTextStatus ==
  ASSUME BInv, NEW ok \in BOOLEAN, cn_backend_write_text_file(ok)
  PROVE  SInv'
  <1>1. /\ job # None /\ job \in Jobs /\ job.pc = "write_source" /\ Shape /\ Status(job)
        /\ errors \in BOOLEAN /\ faulted \in BOOLEAN
    BY DEF BInv, SInv, TInv, Shape, cn_backend_write_text_file, At
  <1>2. ~errors /\ job.prog.rejects = "nothing" /\ out = before /\ temp[<<count, "object">>] = Object(job.id)
    BY <1>1 DEF Status, FrontEndErrors, Outcome, Inputs, Tooling
  <1>3. count' = count /\ out' = out /\ before' = before /\ faulted' = (faulted \/ ~ok)
    BY DEF cn_backend_write_text_file
  <1>4. CASE ok
    <2>1. job' # None /\ job'.prog = job.prog /\ job'.id = job.id /\ job'.pc = "compile_source"
      BY <1>1, <1>4, GotoKeeps DEF cn_backend_write_text_file, Goto, Pcs
    <2>2. temp' = Put(temp, "source", RuntimeSource) /\ errors' = errors
      BY <1>4 DEF cn_backend_write_text_file
    <2>3. temp'[<<count, "object">>] = Object(job.id) /\ temp'[<<count, "source">>] = RuntimeSource
      BY <1>1, <1>2, <2>2 DEF Put, File, Shape, Roles
    <2>4. FrontEndErrors(job)' /\ Inputs(job)'
      BY <1>2, <1>3, <2>1, <2>2, <2>3 DEF FrontEndErrors, Inputs, Creating, Tooling
    <2>5. Outcome(job)'
      BY <1>2, <1>3, <2>1, <2>2 DEF Outcome
    <2> QED BY <1>1, <1>3, <2>1, <2>2, <2>4, <2>5, StepStatus DEF Status
  <1>5. CASE ~ok
    <2>1. job' = [job EXCEPT !.ok = FALSE, !.pc = "cleanup"] /\ errors' = TRUE
      BY <1>5 DEF cn_backend_write_text_file, Fail
    <2>2. Excused(job)'
      BY <1>3, <1>5 DEF Excused
    <2> QED BY <1>1, <1>2, <1>3, <2>1, <2>2, FailedStage
  <1> QED BY <1>4, <1>5
LEMMA CompileIrStatus ==
  ASSUME BInv, NEW s \in cn_backend_run_command \X cn_backend_run_command, NEW left \in BOOLEAN,
         cn_backend_compile_ir_to_object(s, left)
  PROVE  SInv'
  <1> DEFINE good == cn_backend_run_clang_stage(s[1], s[2])
             valid == /\ temp[File("ir")] = Ir(job.id)
                      /\ Prog.module \in {"none", "std.math"} \cup (IF Prog.declares THEN {Prog.module} ELSE {})
             pc == IF job.what = "build"
                   THEN IF use_ipc(Prog) THEN "write_source" ELSE "link"
                   ELSE "cleanup"
  <1>1. /\ job # None /\ job \in Jobs /\ job.pc = "compile_ir" /\ Shape /\ Status(job)
        /\ errors \in BOOLEAN /\ faulted \in BOOLEAN
    BY DEF BInv, SInv, TInv, Shape, cn_backend_compile_ir_to_object, At
  <1>2. ~errors /\ job.prog.rejects = "nothing" /\ out = before /\ temp[<<count, "ir">>] = Ir(job.id)
    BY <1>1 DEF Status, FrontEndErrors, Outcome, Inputs, Tooling
  <1>3. /\ count' = count /\ before' = before
        /\ faulted' = (faulted \/ (valid /\ ~good))
    BY DEF cn_backend_compile_ir_to_object, Faults
  <1>4. valid
    <2>1. job.prog.module = "none" \/ job.prog.declares
      BY <1>1, ScansAgree DEF Jobs
    <2> QED BY <1>2, <2>1 DEF File, Prog
  <1>5. good \in BOOLEAN /\ faulted' \in BOOLEAN
    BY <1>1, <1>3, <1>4 DEF cn_backend_run_clang_stage
  <1>6. CASE ~good
    <2>1. job' = [job EXCEPT !.ok = good, !.pc = "cleanup"] /\ errors' = TRUE
      BY <1>6 DEF cn_backend_compile_ir_to_object, Fail
    <2>2. good = FALSE
      BY <1>5, <1>6
    <2>3. Excused(job)'
      BY <1>3, <1>4, <1>6 DEF Excused
    <2> HIDE DEF good
    <2> QED BY <1>1, <1>2, <1>5, <2>1, <2>2, <2>3, FailedStage
  <1>7. CASE good
    <2>1. /\ job' = [job EXCEPT !.ok = good, !.pc = pc] /\ errors' = errors /\ ~left
          /\ job.what = "obj" => out' = Object(job.id)
          /\ job.what # "obj" => temp' = Put(temp, "object", Object(job.id)) /\ out' = out
      BY <1>7 DEF cn_backend_compile_ir_to_object
    <2>2. pc \in Pcs
      BY DEF Pcs
    <2> HIDE DEF good, valid
    <2>3. job' # None /\ job'.prog = job.prog /\ job'.id = job.id /\ job'.what = job.what /\ job'.pc = pc
      <3> HIDE DEF pc
      <3> QED BY <1>1, <1>5, <2>1, <2>2, GotoOkKeeps
    <2>4. job.what \in {"obj", "build"}
      BY <1>1 DEF Shape, PcFits
    <2>5. job.what = "build" => temp'[<<count, "object">>] = Object(job.id)
      BY <1>1, <2>1 DEF Put, File, Shape, Roles
    <2>6. FrontEndErrors(job)'
      BY <1>2, <2>1, <2>3, <2>4 DEF FrontEndErrors, Creating, Tooling
    <2>7. Inputs(job)'
      BY <1>3, <2>3, <2>4, <2>5 DEF Inputs, Creating, Prog
    <2>8. Outcome(job)'
      BY <1>2, <1>3, <2>1, <2>3, <2>4 DEF Outcome, Built
    <2> QED BY <1>1, <1>5, <2>1, <2>3, <2>6, <2>7, <2>8, StepStatus DEF Status
  <1> QED BY <1>6, <1>7

LEMMA CompileCStatus ==
  ASSUME BInv, NEW s \in cn_backend_run_command \X cn_backend_run_command, NEW left \in BOOLEAN,
         cn_backend_compile_c_to_object(s, left)
  PROVE  SInv'
  <1> DEFINE good == cn_backend_run_clang_stage(s[1], s[2])
             valid == temp[File("source")] = RuntimeSource
  <1>1. /\ job # None /\ job \in Jobs /\ job.pc = "compile_source" /\ Shape /\ Status(job)
        /\ errors \in BOOLEAN /\ faulted \in BOOLEAN
    BY DEF BInv, SInv, TInv, Shape, cn_backend_compile_c_to_object, At
  <1>2. /\ ~errors /\ job.prog.rejects = "nothing" /\ out = before
        /\ temp[<<count, "object">>] = Object(job.id) /\ temp[<<count, "source">>] = RuntimeSource
    BY <1>1 DEF Status, FrontEndErrors, Outcome, Inputs, Tooling
  <1>3. /\ count' = count /\ before' = before /\ out' = out
        /\ faulted' = (faulted \/ (valid /\ ~good))
    BY DEF cn_backend_compile_c_to_object, Faults
  <1>4. valid
    BY <1>2 DEF File
  <1>5. good \in BOOLEAN /\ faulted' \in BOOLEAN
    BY <1>1, <1>3, <1>4 DEF cn_backend_run_clang_stage
  <1>6. CASE ~good
    <2>1. job' = [job EXCEPT !.ok = good, !.pc = "cleanup"] /\ errors' = TRUE
      BY <1>6 DEF cn_backend_compile_c_to_object, Fail
    <2>2. good = FALSE
      BY <1>5, <1>6
    <2>3. Excused(job)'
      BY <1>3, <1>4, <1>6 DEF Excused
    <2> HIDE DEF good
    <2> QED BY <1>1, <1>2, <1>5, <2>1, <2>2, <2>3, FailedStage
  <1>7. CASE good
    <2>1. /\ job' = [job EXCEPT !.ok = good, !.pc = "link"] /\ errors' = errors
          /\ temp' = Put(temp, "runtime", RuntimeObject)
      BY <1>7 DEF cn_backend_compile_c_to_object
    <2> HIDE DEF good, valid
    <2>2. job' # None /\ job'.prog = job.prog /\ job'.id = job.id /\ job'.pc = "link"
      BY <1>1, <1>5, <2>1, GotoOkKeeps DEF Pcs
    <2>3. temp'[<<count, "object">>] = Object(job.id) /\ temp'[<<count, "runtime">>] = RuntimeObject
      BY <1>1, <1>2, <2>1 DEF Put, File, Shape, Roles
    <2>4. FrontEndErrors(job)' /\ Inputs(job)'
      BY <1>2, <1>3, <2>1, <2>2, <2>3 DEF FrontEndErrors, Inputs, Creating, Tooling
    <2>5. Outcome(job)'
      BY <1>2, <1>3, <2>1, <2>2 DEF Outcome
    <2> QED BY <1>1, <1>5, <2>1, <2>2, <2>4, <2>5, StepStatus DEF Status
  <1> QED BY <1>6, <1>7

LEMMA LinkStatus ==
  ASSUME BInv, NEW s \in cn_backend_run_command \X cn_backend_run_command, NEW left \in BOOLEAN,
         cn_backend_link_object_to_binary(s, left)
  PROVE  SInv'
  <1> DEFINE good == cn_backend_run_clang_stage(s[1], s[2])
             valid == Prog.main /\ temp[File("object")] = Object(job.id) /\ Needs(Prog) \subseteq LinkedWith
  <1>1. /\ job # None /\ job \in Jobs /\ job.pc = "link" /\ Shape /\ Status(job)
        /\ errors \in BOOLEAN /\ faulted \in BOOLEAN
    BY DEF BInv, SInv, TInv, Shape, cn_backend_link_object_to_binary, At
  <1>2. /\ ~errors /\ job.prog.rejects = "nothing" /\ job.what = "build"
        /\ temp[<<count, "object">>] = Object(job.id)
        /\ use_ipc(job.prog) => temp[<<count, "runtime">>] = RuntimeObject
    BY <1>1 DEF Status, FrontEndErrors, Inputs, Tooling, Shape, PcFits
  <1>3. count' = count /\ faulted' = (faulted \/ (valid /\ ~good))
    BY DEF cn_backend_link_object_to_binary, Faults
  <1>4. Needs(job.prog) \subseteq LinkedWith /\ LinkedWith \subseteq {"std.ipc", "std.x11"}
    <2>1. job.prog.module # "none" => job.prog.uses
      BY <1>1, ScansAgree DEF Jobs
    <2> QED BY <1>2, <2>1 DEF Needs, LinkedWith, use_ipc, use_x11, Prog, File
  <1>5. valid \/ ~job.prog.main
    BY <1>2, <1>4 DEF File, Prog
  <1>6. good \in BOOLEAN /\ faulted' \in BOOLEAN
    <2>1. good \in BOOLEAN
      BY DEF cn_backend_run_clang_stage
    <2>2. (valid /\ ~good) \in BOOLEAN
      OBVIOUS
    <2> HIDE DEF good, valid
    <2> QED BY <1>1, <1>3, <2>1, <2>2
  <1>7. CASE ~good
    <2>1. job' = [job EXCEPT !.ok = good, !.pc = "cleanup"] /\ errors' = TRUE
      BY <1>7 DEF cn_backend_link_object_to_binary, Fail
    <2>2. good = FALSE
      BY <1>6, <1>7
    <2> HIDE DEF good, valid
    <2>3. job'.what = job.what /\ job'.prog = job.prog
      BY <1>1, <1>6, <2>1, GotoOkKeeps DEF Pcs
    <2>4. Excused(job)'
      BY <1>2, <1>3, <1>5, <1>7, <2>3 DEF Excused
    <2> QED BY <1>1, <1>2, <1>6, <2>1, <2>2, <2>4, FailedStage
  <1>8. CASE good
    <2>1. /\ job' = [job EXCEPT !.ok = good, !.pc = "cleanup"] /\ errors' = errors
          /\ out' = Binary(job.id, LinkedWith)
      BY <1>8 DEF cn_backend_link_object_to_binary
    <2> HIDE DEF good, valid
    <2>2. job' # None /\ job'.prog = job.prog /\ job'.id = job.id /\ job'.what = job.what /\ job'.pc = "cleanup"
      BY <1>1, <1>6, <2>1, GotoOkKeeps DEF Pcs
    <2>3. FrontEndErrors(job)' /\ Inputs(job)'
      BY <1>2, <2>2 DEF FrontEndErrors, Inputs, Creating, Tooling
    <2>4. Built(job)'
      BY <1>2, <1>4, <2>1, <2>2 DEF Built
    <2>5. Outcome(job)'
      BY <1>2, <2>1, <2>2, <2>4 DEF Outcome
    <2> QED BY <1>1, <1>6, <2>1, <2>2, <2>3, <2>5, StepStatus DEF Status
  <1> QED BY <1>7, <1>8

LEMMA CleanupStatus ==
  ASSUME BInv, cn_backend_emit_object \/ cn_backend_build_binary
  PROVE  SInv'
  <1>1. /\ job # None /\ job \in Jobs /\ job.pc = "cleanup" /\ Status(job) /\ Goto("finish")
        /\ errors \in BOOLEAN /\ faulted \in BOOLEAN
    BY DEF BInv, SInv, TInv, Shape, cn_backend_emit_object, cn_backend_build_binary, At
  <1>2. errors' = errors /\ out' = out /\ before' = before /\ faulted' = faulted
    BY DEF cn_backend_emit_object, cn_backend_build_binary
  <1>3. job' # None /\ job'.prog = job.prog /\ job'.id = job.id /\ job'.what = job.what /\ job'.pc = "finish"
    BY <1>1, GotoKeeps DEF Goto, Pcs
  <1>4. FrontEndErrors(job)' /\ Inputs(job)'
    BY <1>3 DEF FrontEndErrors, Inputs, Creating, Tooling
  <1>5. Outcome(job)'
    BY <1>1, <1>2, <1>3 DEF Status, Outcome, Excused, Built
  <1> QED BY <1>1, <1>2, <1>3, <1>4, <1>5, StepStatus DEF Status

\* The command ends: what its stages have established is what the status says.
LEMMA FinishStatus ==
  ASSUME BInv, cn_finish_command
  PROVE  SInv'
  <1>1. /\ job # None /\ job \in Jobs /\ job.pc = "finish" /\ Outcome(job)
        /\ errors \in BOOLEAN /\ faulted \in BOOLEAN
    BY DEF BInv, SInv, TInv, Shape, Status, cn_finish_command, At
  <1>2. /\ job' = None /\ errors' = errors /\ out' = out /\ before' = before /\ faulted' = faulted
        /\ last' = <<job.what, job.prog, job.id, IF errors THEN 1 ELSE 0>>
    BY DEF cn_finish_command, Prog
  <1>3. /\ last'[1] = job.what /\ last'[2] = job.prog /\ last'[3] = job.id
        /\ last'[4] = IF errors THEN 1 ELSE 0
    BY <1>2
  <1>4. ExitTellsWhatWasBuilt'
    BY <1>1, <1>2, <1>3 DEF ExitTellsWhatWasBuilt, Outcome, Excused, Built
  <1> QED BY <1>1, <1>2, <1>4 DEF SInv

LEMMA NextStatus ==
  ASSUME BInv, [Next]_vars
  PROVE  BInv'
  <1>1. TInv'
    BY NextTemps DEF BInv
  <1>2. CASE UNCHANGED vars
    <2>1. SInv'
      BY <1>2 DEF vars, BInv, SInv, Status, FrontEndErrors, Outcome, Inputs, Excused, Built, ExitTellsWhatWasBuilt
    <2> QED BY <1>1, <2>1 DEF BInv
  <1>3. CASE Next
    <2>1. SInv'
      BY <1>3, MainStatus, FrontEndStatus, WriteIrStatus, CreatesStatus, CompileIrStatus, WriteTextStatus,
         CompileCStatus, LinkStatus, CleanupStatus, FinishStatus DEF Next
    <2> QED BY <1>1, <2>1 DEF BInv
  <1> QED BY <1>2, <1>3

\* For any number of commands and any depth of nesting around a call, the exit
\* status tells what is at the output path: success means the output of this
\* very program with every runtime part it calls, failure has a cause, and a
\* rejected program leaves an earlier output alone (main.c, toolchain.c).
THEOREM ExitIsTrue == Spec => []ExitTellsWhatWasBuilt
  <1>1. Init => BInv
    BY InitTemps, InitStatus DEF BInv
  <1>2. BInv /\ [Next]_vars => BInv'
    BY NextStatus
  <1>3. BInv => ExitTellsWhatWasBuilt
    BY DEF BInv, SInv
  <1> QED BY <1>1, <1>2, <1>3, PTL DEF Spec
=============================================================================
