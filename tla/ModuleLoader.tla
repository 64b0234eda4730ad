----------------------------- MODULE ModuleLoader -----------------------------
(***************************************************************************)
(* How the compiler turns an entry file into a graph of modules            *)
(* (src/src/support/project.c): imports are resolved over the search       *)
(* roots, each file is read, lexed and parsed once, and all of it writes   *)
(* to the one diagnostic bag whose errors gate what is parsed next.        *)
(*                                                                         *)
(* Abstractions.  A path is its directory (a sequence of components), the  *)
(* dot-separated parts of its base name and its extension; a module name   *)
(* is the sequence of its dot-separated parts.  A file is what the loader  *)
(* can notice of it: the imports it declares and whether reading, lexing   *)
(* or parsing it reports an error.  The recursion of                       *)
(* cn_project_load_module is a stack of frames; one call's work up to its  *)
(* first import, or from one import to the next, is one step.              *)
(***************************************************************************)
EXTENDS Integers, Sequences, FiniteSets

CONSTANTS
  Worlds,   \* [fs, entry]: a file system, as a function from paths to files,
            \* and the entry path of the command
  Names,    \* names of directories and dot-separated parts of base names
  Builtins  \* names of the built-in modules (cn_is_builtin_stdlib_module_name)

(* Definitions named after a slip (CycleAccepted, StaysLoading, ...) are the   *)
(* mutants the properties are tried against; no action uses them.              *)

VARIABLES
  world,    \* the member of Worlds the compiler runs in
  modules,  \* project->modules
  stack,    \* activations of cn_project_load_module, innermost last
  root,     \* project->root as an index into modules, 0 for NULL
  errors,   \* the errors in the bag
  pc,       \* "start", "loading", "loaded"
  finished  \* history variable: files in the order their loading ended

vars == <<world, modules, stack, root, errors, pc, finished>>

NULL == 0

fs == world.fs
Exists(path) == path \in DOMAIN fs

-------------------------------------------------------------------------------
(* Paths and names.                                                           *)

project_root == world.entry.dir
vendor_root == Append(project_root, "vendor")

cn_path_relative_to_root(rootdir, path) ==
  /\ Len(rootdir) <= Len(path.dir)
  /\ SubSeq(path.dir, 1, Len(rootdir)) = rootdir

cn_path_module_name_from_relative(rootdir, path) ==
  SubSeq(path.dir, Len(rootdir) + 1, Len(path.dir)) \o path.base

\* The project root is asked before the vendor root, the base name is the last resort.
cn_project_module_name_from_path(path) ==
  CASE cn_path_relative_to_root(project_root, path) ->
         cn_path_module_name_from_relative(project_root, path)
    [] /\ ~cn_path_relative_to_root(project_root, path)
       /\ cn_path_relative_to_root(vendor_root, path) ->
         cn_path_module_name_from_relative(vendor_root, path)
    [] OTHER -> path.base

cn_path_build_import_path_from_root(rootdir, name, extension) ==
  [dir  |-> rootdir \o SubSeq(name, 1, Len(name) - 1),
   base |-> <<name[Len(name)]>>,
   ext  |-> extension]

\* Each root is tried with the new extension and then with the old one.
cn_import_resolution_try_root(rootdir, name) ==
  <<cn_path_build_import_path_from_root(rootdir, name, "cneg"),
    cn_path_build_import_path_from_root(rootdir, name, "cn")>>

Candidates(directory, name) ==
  cn_import_resolution_try_root(project_root, name)
    \o cn_import_resolution_try_root(vendor_root, name)
    \o (IF directory \in {project_root, vendor_root} THEN <<>>
        ELSE cn_import_resolution_try_root(directory, name))

\* The first candidate that exists, if any.
cn_path_resolve_import(directory, name) ==
  LET tried == Candidates(directory, name)
      first == {k \in DOMAIN tried :
                  Exists(tried[k]) /\ \A j \in 1..k - 1 : ~Exists(tried[j])}
  IN  {tried[k] : k \in first}

-------------------------------------------------------------------------------
(* Modules.                                                                   *)

\* The file a built-in module pretends to be.
BuiltinPath(name) == [dir |-> <<"<stdlib>">>, base |-> name, ext |-> ""]

cn_module_create(path, count) ==
  [name    |-> cn_project_module_name_from_path(path),
   path    |-> path,
   builtin |-> FALSE,
   parsed  |-> FALSE,
   imports |-> [k \in 1..count |-> NULL],
   loading |-> TRUE]

cn_builtin_module_create(name) ==
  [name    |-> name,
   path    |-> BuiltinPath(name),
   builtin |-> TRUE,
   parsed  |-> TRUE,
   imports |-> <<>>,
   loading |-> FALSE]

ByBaseName(path) ==
  {i \in DOMAIN modules : modules[i].path.base = path.base}

cn_project_find_module_by_path(path) ==
  {i \in DOMAIN modules : modules[i].path = path}

OnlyBuiltins(name) ==
  {i \in DOMAIN modules : modules[i].name = name /\ modules[i].builtin}

cn_project_find_module_by_name(name) ==
  {i \in DOMAIN modules : modules[i].name = name}

New == Len(modules) + 1

\* An error in the bag, with the file its source is set to.
Report(code, i) == Append(errors, [code |-> code, at |-> i])

cn_diag_has_error(bag) == bag # <<>>

-------------------------------------------------------------------------------
(* Calls of cn_project_load_module.  The caller is the innermost frame.       *)

Importer == IF stack = <<>> THEN NULL ELSE stack[Len(stack)].module

NextImportForgotten(S, ms, r) ==
  IF S = <<>>
  THEN /\ modules' = ms
       /\ stack' = <<>>
       /\ root' = r
       /\ pc' = "loaded"
  ELSE /\ modules' = [ms EXCEPT ![S[Len(S)].module].imports[S[Len(S)].next] = r]
       /\ stack' = S
       /\ pc' = "loading"
       /\ UNCHANGED root

\* The call that ran on the frames S gives its caller the module r.
Returned(S, ms, r) ==
  IF S = <<>>
  THEN /\ modules' = ms
       /\ stack' = <<>>
       /\ root' = r
       /\ pc' = "loaded"
  ELSE /\ modules' = [ms EXCEPT ![S[Len(S)].module].imports[S[Len(S)].next] = r]
       /\ stack' = [S EXCEPT ![Len(S)].next = @ + 1]
       /\ pc' = "loading"
       /\ UNCHANGED root

CycleAccepted(i) ==
  /\ UNCHANGED errors
  /\ Returned(stack, modules, i)
  /\ UNCHANGED finished

\* The path is that of a module already in the project.
LoadExisting(i) ==
  /\ errors' = IF modules[i].loading THEN Report("E3018", Importer) ELSE errors
  /\ Returned(stack, modules, i)
  /\ UNCHANGED finished

LoadConflict(path) ==
  /\ errors' = Report("E3017", Importer)
  /\ Returned(stack, modules, NULL)
  /\ UNCHANGED finished

UnreadableIsEmpty(path) ==
  /\ UNCHANGED errors
  /\ Returned(stack, Append(modules, [cn_module_create(path, 0) EXCEPT !.loading = FALSE]), New)
  /\ finished' = Append(finished, New)

\* The source cannot be read: the module stays in the project without a program.
LoadUnreadable(path) ==
  /\ errors' = Report("E3017", Importer)
  /\ Returned(stack, Append(modules, [cn_module_create(path, 0) EXCEPT !.loading = FALSE]), New)
  /\ finished' = Append(finished, New)

SkipsFirstImport(path) ==
  LET file == fs[path]
  IN  /\ UNCHANGED errors
      /\ modules' = Append(modules, cn_module_create(path, Len(file.imports)))
      /\ stack' = Append(stack, [module |-> New, next |-> 0])
      /\ pc' = "loading"
      /\ UNCHANGED <<root, finished>>

\* The source is lexed, and parsed only if no module has reported an error so
\* far; a program is returned, with its imports, even when parsing it reports.
LoadSource(path) ==
  LET file   == fs[path]
      lexed  == IF file.fault = "lex" THEN Report("source", New) ELSE errors
      parsed == ~cn_diag_has_error(lexed)
      after  == IF parsed /\ file.fault = "parse" THEN Report("source", New) ELSE lexed
      count  == IF parsed THEN Len(file.imports) ELSE 0
  IN  /\ errors' = after
      /\ modules' = Append(modules, [cn_module_create(path, count) EXCEPT !.parsed = parsed])
      /\ stack' = Append(stack, [module |-> New, next |-> 1])
      /\ pc' = "loading"
      /\ UNCHANGED <<root, finished>>

Unreadable(path) == IF Exists(path) THEN fs[path].fault = "unreadable" ELSE TRUE

cn_project_load_module(path) ==
  LET name == cn_project_module_name_from_path(path)
  IN  \/ \E i \in cn_project_find_module_by_path(path) : LoadExisting(i)
      \/ /\ cn_project_find_module_by_path(path) = {}
         /\ cn_project_find_module_by_name(name) # {}
         /\ LoadConflict(path)
      \/ /\ cn_project_find_module_by_path(path) = {}
         /\ cn_project_find_module_by_name(name) = {}
         /\ Unreadable(path)
         /\ LoadUnreadable(path)
      \/ /\ cn_project_find_module_by_path(path) = {}
         /\ cn_project_find_module_by_name(name) = {}
         /\ ~Unreadable(path)
         /\ LoadSource(path)

\* A built-in module is created the first time it is imported.
cn_project_load_builtin_module(name) ==
  LET known == {i \in cn_project_find_module_by_name(name) : modules[i].builtin}
  IN  /\ \/ \E i \in known : Returned(stack, modules, i)
         \/ /\ known = {}
            /\ Returned(stack, Append(modules, cn_builtin_module_create(name)), New)
      /\ UNCHANGED <<errors, finished>>

-------------------------------------------------------------------------------

\* The working directory, which makes a relative entry path absolute, may be
\* gone; then there is no project to speak of.
cn_project_load ==
  /\ pc = "start"
  /\ \/ cn_project_load_module(world.entry)
     \/ /\ errors' = Report("E3017", NULL)
        /\ Returned(<<>>, modules, NULL)
        /\ UNCHANGED finished
  /\ UNCHANGED world

\* The loop over the imports of the innermost module.
Innermost == stack[Len(stack)]

LoadImport ==
  /\ pc = "loading"
  /\ Innermost.next <= Len(modules[Innermost.module].imports)
  /\ LET m    == modules[Innermost.module]
         name == fs[m.path].imports[Innermost.next]
     IN  \/ /\ name \in Builtins
            /\ cn_project_load_builtin_module(name)
         \/ /\ name \notin Builtins
            /\ cn_path_resolve_import(m.path.dir, name) = {}
            /\ errors' = Report("E3017", Innermost.module)
            /\ Returned(stack, modules, NULL)
            /\ UNCHANGED finished
         \/ /\ name \notin Builtins
            /\ \E path \in cn_path_resolve_import(m.path.dir, name) :
                 cn_project_load_module(path)
  /\ UNCHANGED world

StaysLoading ==
  /\ pc = "loading"
  /\ Innermost.next > Len(modules[Innermost.module].imports)
  /\ Returned(SubSeq(stack, 1, Len(stack) - 1), modules, Innermost.module)
  /\ finished' = Append(finished, Innermost.module)
  /\ UNCHANGED <<world, errors>>

FinishModule ==
  /\ pc = "loading"
  /\ Innermost.next > Len(modules[Innermost.module].imports)
  /\ Returned(SubSeq(stack, 1, Len(stack) - 1),
              [modules EXCEPT ![Innermost.module].loading = FALSE],
              Innermost.module)
  /\ finished' = Append(finished, Innermost.module)
  /\ UNCHANGED <<world, errors>>

Init ==
  /\ world \in Worlds
  /\ modules = <<>>
  /\ stack = <<>>
  /\ root = NULL
  /\ errors = <<>>
  /\ pc = "start"
  /\ finished = <<>>

Next == cn_project_load \/ LoadImport \/ FinishModule

Spec == Init /\ [][Next]_vars

\* One thread that waits for nothing but the file system.
FairSpec == Spec /\ WF_vars(Next)

-------------------------------------------------------------------------------
(* What a reader of the files would say, without loading anything.            *)

Targets(path) ==
  UNION {cn_path_resolve_import(path.dir, fs[path].imports[k]) :
           k \in {j \in DOMAIN fs[path].imports : fs[path].imports[j] \notin Builtins}}

\* The files the entry needs: the least set that holds it and is closed under imports.
Needed ==
  {p \in DOMAIN fs :
     \A S \in SUBSET DOMAIN fs :
       world.entry \in S /\ (\A q \in S : Targets(q) \subseteq S) => p \in S}

\* In a finite graph some path never ends exactly when there is a cycle.
HasCycle(S) ==
  \E C \in SUBSET S : C # {} /\ \A p \in C : Targets(p) \cap C # {}

Resolves(path) ==
  \A k \in DOMAIN fs[path].imports :
    \/ fs[path].imports[k] \in Builtins
    \/ cn_path_resolve_import(path.dir, fs[path].imports[k]) # {}

Sound ==
  /\ Exists(world.entry)
  /\ \A p \in Needed : fs[p].fault = "none" /\ Resolves(p)
  /\ ~HasCycle(Needed)
  /\ \A p, q \in Needed :
       cn_project_module_name_from_path(p) = cn_project_module_name_from_path(q) => p = q

-------------------------------------------------------------------------------
(* Properties.                                                                *)

Path == [dir : Seq(Names), base : Seq(Names), ext : {"cneg", "cn", ""}]

Frame == [module : Nat \ {0}, next : Nat \ {0}]

Module == [name : Seq(Names), path : Path,
           builtin : BOOLEAN, parsed : BOOLEAN, imports : Seq(Nat), loading : BOOLEAN]

\* Type correctness of the project.
TypeOK ==
  /\ modules \in Seq(Module)
  /\ stack \in Seq(Frame)
  /\ root \in Nat
  /\ errors \in Seq([code : {"E3017", "E3018", "source"}, at : Nat])
  /\ pc \in {"start", "loading", "loaded"}
  /\ finished \in Seq(Nat \ {0})

\* The modules marked as loading are those whose call is on the stack, once
\* each, and every one on it was reached by an import of the one below: a path
\* that leads back to a loading module is a cycle of imports and nothing else.
LoadingIsTheImportChain ==
  /\ {i \in DOMAIN modules : modules[i].loading} = {stack[k].module : k \in DOMAIN stack}
  /\ \A j, k \in DOMAIN stack : stack[j].module = stack[k].module => j = k
  /\ \A k \in 2..Len(stack) :
       modules[stack[k].module].path \in Targets(modules[stack[k - 1].module].path)

\* No two files of a project share a canonical name or are loaded twice: the
\* name is what types, functions and symbols are looked up by later.
FilesHaveOneName ==
  \A i, j \in DOMAIN modules :
    /\ ~modules[i].builtin /\ ~modules[j].builtin
    /\ modules[i].name = modules[j].name \/ modules[i].path = modules[j].path
    => i = j

\* As long as nothing was reported, a file's loading ends after that of every
\* file it imports; so an accepted project has no cycle of imports.
ImportsFinishFirst ==
  errors = <<>> =>
    \A k \in DOMAIN finished :
      \A j \in DOMAIN modules[finished[k]].imports :
        LET i == modules[finished[k]].imports[j]
        IN  /\ i \in DOMAIN modules
            /\ modules[i].builtin \/ \E l \in 1..k - 1 : finished[l] = i

\* A project is accepted exactly when the files it needs can be read and
\* parsed, all imports resolve, there is no cycle and no two files share a
\* name; neither the order of imports nor what was loaded before matters.
\* (Without a working directory nothing is loaded and an error says so.)
VerdictIsRight ==
  pc = "loaded" /\ modules # <<>> => (errors = <<>> <=> Sound)

\* An accepted project holds the files it needs and the built-ins they import,
\* all parsed, and each import is bound to the module its name resolves to.
AcceptedIsComplete ==
  pc = "loaded" /\ errors = <<>> =>
    /\ {modules[i].path : i \in {j \in DOMAIN modules : ~modules[j].builtin}} = Needed
    /\ modules[root].path = world.entry
    /\ \A i \in DOMAIN modules :
         /\ modules[i].parsed
         /\ \A k \in DOMAIN modules[i].imports :
              LET name == fs[modules[i].path].imports[k]
                  m    == modules[modules[i].imports[k]]
              IN  IF name \in Builtins THEN m.builtin /\ m.name = name
                  ELSE m.path \in cn_path_resolve_import(modules[i].path.dir, name)

\* Loading ends, whatever the files import.
LoadingEnds == <>(pc = "loaded")

\* Two modules with one canonical name are a conflict that is reported
\* ("Improved `E3017` diagnostics to report searched paths and canonical-name
\* conflicts", patches.md).
ConflictsAreReported ==
  errors = <<>> =>
    \A i, j \in DOMAIN modules : modules[i].name = modules[j].name => i = j

-------------------------------------------------------------------------------
(* Why the invariants are preserved, said of any modules ms, frames S and      *)
(* finished files fin, so that it can also be said in the middle of a call.    *)

\* Paths and imports are what the operating system and the parser deliver.
ASSUME WorldsAssumption ==
  \A w \in Worlds :
    /\ w.entry \in Path
    /\ DOMAIN w.fs \subseteq Path
    /\ \A p \in DOMAIN w.fs : /\ w.fs[p].imports \in Seq(Seq(Names) \ {<<>>})
                             /\ w.fs[p].fault \in {"none", "unreadable", "lex", "parse"}

ASSUME NamesAssumption == {"vendor", "<stdlib>"} \subseteq Names

ASSUME BuiltinsAssumption == Builtins \subseteq Seq(Names)

\* Every module is built in, loading and on the stack, or finished.
Shape(ms, S, fin) ==
  /\ ms \in Seq(Module) /\ S \in Seq(Frame) /\ fin \in Seq(Nat \ {0})
  /\ \A k \in DOMAIN S : /\ S[k].module \in DOMAIN ms
                        /\ ms[S[k].module].loading
                        /\ S[k].next <= Len(ms[S[k].module].imports) + 1
  /\ \A j, k \in DOMAIN S : S[j].module = S[k].module => j = k
  /\ \A i \in DOMAIN ms :
       ms[i].loading => ~ms[i].builtin /\ \E k \in DOMAIN S : S[k].module = i
  /\ \A k \in DOMAIN fin : fin[k] \in DOMAIN ms /\ ~ms[fin[k]].loading
  /\ \A i \in DOMAIN ms :
       ms[i].builtin \/ ms[i].loading \/ \E k \in DOMAIN fin : fin[k] = i

\* The frame waits for the module of an import.
Waiting(ms, S, k) == S[k].next <= Len(ms[S[k].module].imports)

\* What an import may be bound to while nothing is reported.
Settled(ms, fin, n, i) ==
  i \in DOMAIN ms /\ (ms[i].builtin \/ \E l \in 1..n : fin[l] = i)

Ordered(ms, S, fin) ==
  /\ \A k \in DOMAIN S : \A j \in 1..S[k].next - 1 :
       Settled(ms, fin, Len(fin), ms[S[k].module].imports[j])
  /\ \A k \in DOMAIN fin : \A j \in DOMAIN ms[fin[k]].imports :
       Settled(ms, fin, k - 1, ms[fin[k]].imports[j])

\* A list of imports is that of the file.
FromFiles(ms) ==
  \A i \in DOMAIN ms :
    \/ ms[i].builtin
    \/ ms[i].imports = <<>>
    \/ /\ ms[i].path \in DOMAIN fs
       /\ Len(ms[i].imports) = Len(fs[ms[i].path].imports)

OneName(ms) ==
  \A i, j \in DOMAIN ms :
    /\ ~ms[i].builtin /\ ~ms[j].builtin
    /\ ms[i].name = ms[j].name \/ ms[i].path = ms[j].path
    => i = j

Chained(ms, S) ==
  \A k \in DOMAIN S : k > 1 => ms[S[k].module].path \in Targets(ms[S[k - 1].module].path)

Consistent(ms, S, fin, bag) ==
  /\ Shape(ms, S, fin)
  /\ bag = <<>> => Ordered(ms, S, fin)
  /\ FromFiles(ms)
  /\ OneName(ms)
  /\ Chained(ms, S)

IInv ==
  /\ world \in Worlds
  /\ root \in Nat
  /\ errors \in Seq([code : {"E3017", "E3018", "source"}, at : Nat])
  /\ pc \in {"start", "loading", "loaded"}
  /\ pc = "loading" <=> stack # <<>>
  /\ Consistent(modules, stack, finished, errors)
  /\ \A k \in DOMAIN stack : k < Len(stack) => Waiting(modules, stack, k)

-------------------------------------------------------------------------------
(* Why the verdict is right, in the same form.                                 *)

\* A path the loader may be asked for.
Wanted(path) == Exists(world.entry) => path \in Needed

\* What a module of the project is.
Described(m) ==
  IF m.builtin
  THEN /\ m.name \in Builtins
       /\ m.path = BuiltinPath(m.name)
       /\ m.parsed
       /\ m.imports = <<>>
  ELSE /\ m.name = cn_project_module_name_from_path(m.path)
       /\ Wanted(m.path)

\* What it is, too, while nothing is reported.
Clean(m) ==
  ~m.builtin =>
    /\ m.parsed
    /\ m.path \in DOMAIN fs
    /\ fs[m.path].fault = "none"
    /\ Len(m.imports) = Len(fs[m.path].imports)

\* Module r is what import j of module i asks for.
Fits(ms, i, j, r) ==
  LET name == fs[ms[i].path].imports[j]
  IN  /\ r \in DOMAIN ms
      /\ IF name \in Builtins THEN ms[r].builtin /\ ms[r].name = name
         ELSE ~ms[r].builtin /\ ms[r].path \in cn_path_resolve_import(ms[i].path.dir, name)

\* Imports are bound to nothing, or to what they ask for.
Bound(ms) ==
  \A i \in DOMAIN ms : \A j \in DOMAIN ms[i].imports :
    ms[i].imports[j] # NULL => Fits(ms, i, j, ms[i].imports[j])

\* The first frame loads the entry, the others what the frame below waits for.
Expected(ms, S) ==
  \A k \in DOMAIN S :
    IF k = 1 THEN ms[S[k].module].path = world.entry
    ELSE Fits(ms, S[k - 1].module, S[k - 1].next, S[k].module)

Right(ms, S, bag) ==
  /\ \A i \in DOMAIN ms : Described(ms[i]) /\ (bag = <<>> => Clean(ms[i]))
  /\ Bound(ms)
  /\ Expected(ms, S)

\* No file has the name of a built-in module; where one does, the order of
\* imports decides whether E3017 is reported (ConflictsAreReported).
NoFileShadows ==
  \A path \in DOMAIN fs : cn_project_module_name_from_path(path) \notin Builtins

VInv ==
  /\ Right(modules, stack, errors)
  /\ pc = "start" => modules = <<>> /\ errors = <<>>
  /\ pc = "loaded" /\ errors = <<>> =>
       /\ root \in DOMAIN modules /\ ~modules[root].builtin
       /\ modules[root].path = world.entry
  /\ NoFileShadows /\ errors # <<>> => ~Sound \/ (pc = "loaded" /\ modules = <<>>)

====
