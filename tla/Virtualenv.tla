----------------------------- MODULE Virtualenv -----------------------------
(***************************************************************************)
(* src/virtualenv-1.6.4/virtualenv.py: the tool that makes, updates and    *)
(* relocates the environment flaskr runs in.  A run is the sequence of     *)
(* file operations its functions perform on one environment; each is a     *)
(* step, so a run may be interrupted between any two of them, or in the    *)
(* middle of one.  Between runs the environment's owner installs packages, *)
(* edits distutils.cfg and moves the directory.                            *)
(*                                                                         *)
(* Every operator named after a Python function yields the operations of   *)
(* that function, in the order it performs them.                           *)
(***************************************************************************)
EXTENDS FiniteSets, VeRelocate, VeLogger

CONSTANTS
  Hosts,     \* the computers: [platform, exes, lib64, local, found, pip, writable,
             \* outer_flag], exes being the names its interpreter may be run by
  Options,   \* the command lines: [clear, no_site_packages, distribute, never_download,
             \* prompt, by, dest, exe, relocatable, python, verbosity]
  Names,     \* the names of directories
  Homes,     \* the directories the environment may be in, paths
  MaxActs    \* bound on the runs and on what the owner does between them

VARIABLES
  host,       \* the computer
  home,       \* where the environment is
  fs,         \* its files
  dev,        \* the development package on its path: none, inside it ("in"), elsewhere ("out")
  opts,       \* the options of the last run
  todo,       \* the operations the run has still to perform
  status,     \* "idle", "running", "done", "exit_1", "exit_3", "exit_100", "raised", "interrupted"
  logger,     \* the global logger
  downloads,  \* the projects the last run fetched from the network
  relocated,  \* the scripts and .pth files that worked when --relocatable was through with
              \* them, unless something else was done to the environment since
  acts        \* how often anything was begun

vars == <<host, home, fs, dev, opts, todo, status, logger, downloads, relocated, acts>>

----------------------------------------------------------------------------
(* Where things are. *)

LibFiles    == {"stdlib", "site", "orig_prefix", "flag", "distutils", "distutils_cfg",
                "setuptools", "pth"}
Scripts     == {"easy_install", "pip", "script"}
Movable     == Scripts \union {"pth"}
Executables == {"python", "python2.6", "pypy", "pypy-c", "jython"}
Files == LibFiles \union Scripts \union Executables
           \union {"activate", "include", "jars", "dylib", "lib64", "local"}

\* The types of the constants.
Platforms == {"linux", "win32", "framework", "pypy", "jython"}
Host   == [platform : Platforms, exes : Seq(Executables), lib64 : BOOLEAN, local : BOOLEAN,
           found : {"none", "current", "relative", "absolute"}, pip : BOOLEAN,
           writable : BOOLEAN, outer_flag : BOOLEAN]
Option == [clear : BOOLEAN, no_site_packages : BOOLEAN, distribute : BOOLEAN,
           never_download : BOOLEAN, prompt : STRING, by : {"system", "env", "outer"},
           dest : {"absolute", "relative"}, exe : Nat, relocatable : BOOLEAN,
           python : {"found", "missing"}, verbosity : Int]

ASSUME VirtualenvAssumption ==
  /\ Hosts \subseteq Host /\ Options \subseteq Option
  /\ \A h \in Hosts, o \in Options : o.exe \in DOMAIN h.exes
  /\ Names \intersect {"/", "..", "./"} = {} /\ Homes \subseteq Seq(Names)
  /\ MaxActs \in Nat

BinDir == IF host.platform = "win32" THEN "Scripts" ELSE "bin"
Posix == host.platform \notin {"win32"}

\* path_locations: what is in lib_dir; for PyPy that is the environment itself.
path_locations == IF host.platform = "pypy" THEN Files ELSE LibFiles

PthFile(h) ==
  h \o (IF host.platform = "pypy" THEN <<"site-packages", "easy-install.pth">>
        ELSE <<"lib", "python2.6", "site-packages", "easy-install.pth">>)

expected_exe == CASE host.platform = "pypy" -> "pypy" [] host.platform = "jython" -> "jython"
                  [] OTHER -> "python"

RealPrefix == <<"/", "usr">>
Source(f) == [is |-> IF Posix THEN "link" ELSE "copy", text |-> <<"/", "usr", f>>]
Binary    == [is |-> "copy", text |-> <<"/", "usr", "bin", "python">>]
NameLink(f) == [is |-> "link", text |-> <<f>>]

\* The file a name stands for; two names that are links to each other stand for none.
Named(f) ==
  LET t == fs[f]
  IN IF f \in Executables /\ t.is = "link" /\ Len(t.text) = 1 /\ t.text[1] \in Executables
       THEN t.text[1] ELSE f
Loops(f) == Named(f) # f /\ Named(Named(f)) # Named(f)
Present(f) == Exists(fs[f], home) /\ ~Loops(f) /\ (Named(f) = f \/ Exists(fs[Named(f)], home))
Runs(f) == Present(f) /\ fs[Named(f)].is = "copy"

----------------------------------------------------------------------------
(* The operations of a run. *)

Op(op, f, text) == [op |-> op, file |-> f, text |-> text]
If(cond, ops) == IF cond THEN ops ELSE <<>>
Copy(f)     == <<Op("copyfile", f, Source(f).text)>>
Write(f, t) == <<Op("writefile", f, t)>>

\* resolve_interpreter and main's start: -p names no file.
resolve_interpreter(o) == If(o.python = "missing", <<Op("exit_3", "python", <<>>)>>)

fix_lib64 ==
  If(host.lib64, IF host.platform \in {"pypy", "win32", "jython"} THEN <<Op("raise", "lib64", <<>>)>>
                 ELSE <<Op("linkself", "lib64", <<>>)>>)
fix_local_scheme == If(host.local, <<Op("linkself", "local", <<>>)>>)

copy_required_modules == Copy("stdlib")

site_packages_flag_Late(o) == If(o.no_site_packages, Write("flag", <<"">>))
site_packages_flag(o) ==
  IF o.no_site_packages THEN Write("flag", <<"">>) ELSE <<Op("unlink", "flag", <<>>)>>

\* Run by another environment's interpreter, exec_prefix is that environment, not the real
\* prefix, and whatever is in its lib directory and not yet in this one is linked: its mark,
\* and the directory of its distutils.
exec_prefix_files(o) ==
  If(o.by = "outer" /\ host.platform # "pypy",
     If(host.outer_flag, Copy("flag")) \o <<Op("linkdir", "distutils", <<>>)>>)

jython_files == If(host.platform = "jython", Copy("jars"))

py_executable(o) == host.exes[o.exe]
executables(o) ==
  <<Op("executable", py_executable(o), <<>>)>>
  \o If(host.platform = "pypy" /\ py_executable(o) # "python", <<Op("linkself", "python", <<>>)>>)
  \o If(py_executable(o) # expected_exe, <<Op("secondary", expected_exe, <<>>)>>)

OtherName(f) == IF f = "python" THEN "python2.6" ELSE "python"
framework_files(o) ==
  If(host.platform = "framework",
     <<Op("framework_exe", py_executable(o), <<>>)>>
     \o <<Op("unlink", "dylib", <<>>)>> \o Copy("dylib")
     \o <<Op("tool", py_executable(o), <<>>)>>
     \o <<Op("rename", OtherName(py_executable(o)), <<py_executable(o)>>)>>)

test_executable(o) == <<Op("test", py_executable(o), <<>>)>>

install_files(o) ==
  fix_lib64 \o fix_local_scheme \o copy_required_modules
  \o Write("site", <<"SITE_PY">>) \o Write("orig_prefix", RealPrefix)
  \o site_packages_flag(o) \o Copy("include") \o exec_prefix_files(o) \o jython_files
  \o executables(o) \o framework_files(o) \o test_executable(o)
\* install_python.  Run by the environment's own interpreter it gives up, and its caller
\* raises, but only if it is called by a path that begins like the interpreter's.
install_python(o) ==
  IF o.by = "env" /\ o.dest = "absolute" THEN <<Op("raise", "python", <<>>)>>
  ELSE If(o.clear, <<Op("rmtree", "site", <<>>)>>) \o install_files(o)

install_distutils ==
  Write("distutils", <<"DISTUTILS_INIT">>)
  \o <<Op("writenew", "distutils_cfg", <<"DISTUTILS_CFG">>)>>

\* _install_req and install_pip: one command each, chosen when its turn comes.
_install_req(o) == <<Op("call", IF o.distribute THEN "distribute" ELSE "setuptools", <<>>)>>
install_pip == <<Op("call", "pip", <<>>)>>

ActivateText(o) == <<o.prompt>> \o home
install_activate(o) == Write("activate", ActivateText(o))

create_environment(o) ==
  install_python(o) \o install_distutils \o _install_req(o) \o install_pip
  \o install_activate(o)

\* fixup_scripts visits the scripts, fixup_pth_and_egg_link the directories on the path of
\* the interpreter that runs it: the environment's only if that interpreter is its own.
fixup_scripts == <<Op("fixup_script", "easy_install", <<>>), Op("fixup_script", "pip", <<>>),
                   Op("fixup_script", "script", <<>>)>>
fixup_pth_and_egg_link(o) == If(o.by = "env", <<Op("fixup_pth_file", "pth", <<>>)>>)
make_environment_relocatable(o) ==
  IF \A f \in Executables : fs[f].is = "absent" THEN <<Op("raise", "python", <<>>)>>
  ELSE fixup_scripts \o fixup_pth_and_egg_link(o)

main(o) ==
  resolve_interpreter(o)
  \o IF o.relocatable THEN make_environment_relocatable(o) ELSE create_environment(o)

----------------------------------------------------------------------------
(* A run. *)

Init ==
  /\ host \in Hosts
  /\ home \in Homes
  /\ fs = [f \in Files |-> Absent]
  /\ dev = "none"
  /\ opts \in Options
  /\ todo = <<>>
  /\ status = "idle"
  /\ logger = NewLogger(0)
  /\ downloads = {}
  /\ relocated = {}
  /\ acts = 0

\* The environment's own interpreter takes part in a run only where there is one.
Start(o) ==
  /\ status # "running" /\ acts < MaxActs
  /\ o.by = "env" => Runs(expected_exe) /\ fs["site"].is = "text"
  /\ acts' = acts + 1
  /\ opts' = o
  /\ todo' = main(o)
  /\ status' = "running"
  /\ logger' = NewLogger(o.verbosity)
  /\ downloads' = {}
  /\ relocated' = {}
  /\ UNCHANGED <<host, home, fs, dev>>

Current == Head(todo)
At(op)  == status = "running" /\ todo # <<>> /\ Current.op = op /\ ~logger.in_progress
\* The command of a call is running.
Calling == status = "running" /\ todo # <<>> /\ Current.op = "call" /\ logger.in_progress

Ends_KeepsTodo(st) == status' = st /\ UNCHANGED <<todo, opts, downloads, relocated>>
Ends(st) == status' = st /\ todo' = <<>> /\ UNCHANGED <<opts, downloads, relocated>>
Goes == todo' = Tail(todo) /\ UNCHANGED <<status, opts, downloads, relocated>>
Steady == UNCHANGED <<host, home, dev, acts>>
Sets(f, v) == fs' = [fs EXCEPT ![f] = v] /\ Goes /\ UNCHANGED logger /\ Steady
Raises == Ends("raised") /\ UNCHANGED <<fs, logger>> /\ Steady

CopyFile ==
  /\ At("copyfile")
  /\ LET f == Current.file IN Sets(f, copyfile(fs[f], Source(f), home))

\* The links that name the environment itself: lib64, local, and PyPy's python.
LinkSelf ==
  /\ At("linkself")
  /\ LET f == Current.file
     IN IF copyfile_raises(fs[f], home) THEN Raises
        ELSE Sets(f, copyfile(fs[f], LinkTo(home), home))

\* The directory of the other environment's distutils: its __init__, which virtualenv wrote
\* there as well, and its distutils.cfg, read and written through the link.
NoDistutils == fs["distutils"].is = "absent" /\ fs["distutils_cfg"].is = "absent"
LinkDir ==
  /\ At("linkdir")
  /\ fs' = IF NoDistutils THEN [fs EXCEPT !["distutils"] = Text(<<"DISTUTILS_INIT">>),
                                          !["distutils_cfg"] = Text(<<"OUTER_CFG">>)]
           ELSE fs
  /\ Goes /\ UNCHANGED logger /\ Steady

WriteFile ==
  /\ At("writefile") \/ At("writenew")
  /\ LET f == Current.file
     IN Sets(f, writefile(fs[f], Current.text, Current.op = "writefile"))

Unlink == At("unlink") /\ Sets(Current.file, Absent)

\* --clear: the whole of lib_dir, whoever put it there.
Rmtree ==
  /\ At("rmtree")
  /\ fs' = [f \in Files |-> IF f \in path_locations THEN Absent ELSE fs[f]]
  /\ dev' = "none"
  /\ Goes /\ UNCHANGED <<host, home, acts, logger>>

\* shutil.copyfile and make_exe: through a link, but not onto itself.
CopyExecutable ==
  /\ At("executable")
  /\ IF opts.by = "env" \/ Loops(Current.file) \/ Dangling(fs[Current.file], home) THEN Raises
     ELSE Sets(Named(Current.file), Binary)

\* A second name for the interpreter: one that exists is left as it is.
Secondary ==
  /\ At("secondary")
  /\ Sets(Current.file, IF Present(Current.file) THEN fs[Current.file] ELSE Binary)

\* The interpreter inside the framework instead of the stub.
FrameworkExecutable == At("framework_exe") /\ Sets(Named(Current.file), Binary)

\* install_name_tool, which writes to the terminal itself.
RunTool == At("tool") /\ (Raises \/ Sets(Current.file, fs[Current.file]))

\* python -> python2.6 or python2.6 -> python: an existing one is replaced, but a link
\* that leads nowhere does not exist, and there os.symlink raises.
Rename ==
  /\ At("rename")
  /\ LET f == Current.file
     IN IF fs[f].is # "absent" /\ ~Present(f) THEN Raises
        ELSE Sets(f, NameLink(Current.text[1]))

\* The new interpreter is asked for its prefix; one that does not work ends the run.
TestExecutable ==
  /\ At("test")
  /\ \/ /\ ~Loops(Current.file) /\ Runs(Current.file)
        /\ Sets(Current.file, fs[Current.file])
     \/ /\ ~Loops(Current.file)
        /\ Ends("exit_100") /\ UNCHANGED <<fs, logger>> /\ Steady
     \/ Loops(Current.file) /\ Raises

Exit == At("exit_3") /\ Ends("exit_3") /\ UNCHANGED <<fs, logger>> /\ Steady
Raise == At("raise") /\ Raises

----------------------------------------------------------------------------
(* The commands. *)

\* Where _find_file finds the egg or the tarball: nowhere, in the current directory ("."
\* comes first), in an --extra-search-dir named by a relative path, or by an absolute path,
\* in virtualenv_support or elsewhere.  A directory that cannot be written to is left for
\* a temporary one.
Found(project) ==
  IF project = "pip" THEN host.pip ELSE host.found # "none"

\* Does the command, in the directory it runs in, reach what was found?  The egg is named
\* as it was found.  For the tarball the run goes to its directory, from where "./" still
\* leads to it, so that it is copied, and the name of the directory does not.
Reaches(project) ==
  \/ host.writable \/ project = "pip" \/ host.found = "absolute"
  \/ project = "distribute" /\ host.found = "current"

Fetches(project) ==
  \/ ~Found(project)
  \/ ~Reaches(project) /\ ~(project = "setuptools" /\ fs["setuptools"].is = "text")

GivesUp_Never(project) == FALSE
GivesUp(project) == ~Found(project) /\ opts.never_download

\* The function decides, opens the progress line and calls call_subprocess.
CallBegins ==
  /\ At("call")
  /\ LET project == Current.file
     IN IF GivesUp(project) THEN Ends("exit_1") /\ UNCHANGED <<fs, logger>> /\ Steady
        ELSE /\ logger' = start_progress(logger)
             /\ downloads' = IF Fetches(project) THEN downloads \union {project} ELSE downloads
             /\ UNCHANGED <<fs, todo, status, opts, relocated>> /\ Steady

\* The temporary directory cannot be made, or the tarball not be copied: raised after the
\* progress line was begun, and before the try that would end it.
CopyFails ==
  /\ At("call") /\ Current.file # "pip" /\ ~host.writable /\ ~GivesUp(Current.file)
  /\ logger' = start_progress(logger)
  /\ UNCHANGED fs /\ Ends("raised") /\ Steady

filter_ez_setup(project) == IF project = "distribute" THEN {DEBUG} ELSE {DEBUG, INFO}

\* The command prints a line, which is shown, or a dot for it.
CallLine ==
  /\ Calling
  /\ \E level \in filter_ez_setup(Current.file) :
       logger' = (IF level_matches(logger, level) THEN log(logger, level)
                  ELSE show_progress(logger))
  /\ UNCHANGED <<fs, todo, status, opts, downloads, relocated>> /\ Steady

\* Does the script start this environment's interpreter, does the line name the package?
Package == IF dev = "in" THEN home \o <<"src">> ELSE <<"src">>
Works(f) ==
  IF f = "pth" THEN /\ fs["pth"].is = "text"
                    /\ Resolve(PthFile(home), fs["pth"].text) = Package
  ELSE \/ fs[f] = Text(NewShebang) /\ fs["activate"].is = "text"
       \/ fs[f] \in {Text(Shebang(home, BinDir, e)) : e \in Executables}

\* easy-install.pth when easy_install has read it, dropped the paths that lead nowhere and
\* added its own, which are not shown.  If that changed anything it has written the file
\* again, with paths out of its directory absolute.
PthLines == IF Works("pth") THEN {fs["pth"], Text(Abs(Package))} ELSE {Text(<<>>)}

\* What easy_install leaves behind, for the interpreter that ran it.
Installed(project) ==
  LET script == Text(Shebang(home, BinDir, py_executable(opts)))
  IN {[g EXCEPT !["pth"] = lines] : lines \in PthLines,
        g \in {IF project = "pip" THEN [fs EXCEPT !["pip"] = script]
               ELSE [fs EXCEPT !["setuptools"] = Text(<<project>>), !["easy_install"] = script]}}

CallEnds ==
  /\ Calling
  /\ logger' = end_progress(logger)
  /\ fs' \in Installed(Current.file)
  /\ Goes /\ Steady

\* Its return code is not 0: its output is shown, and OSError raised past end_progress.
CallFails ==
  /\ Calling
  /\ logger' = end_progress(log(logger, NOTIFY))
  /\ UNCHANGED fs /\ Ends("raised") /\ Steady

----------------------------------------------------------------------------
(* Relocation. *)

FixupScript ==
  /\ At("fixup_script")
  /\ LET f == Current.file IN Sets(f, fixup_script(fs[f], home))

FixupPthFile ==
  /\ At("fixup_pth_file")
  /\ LET f == Current.file IN Sets(f, fixup_line(fs[f], PthFile(home)))

RunEnds ==
  /\ status = "running" /\ todo = <<>>
  /\ status' = "done"
  /\ relocated' = IF opts.relocatable /\ opts.by = "env" THEN {f \in Movable : Works(f)} ELSE {}
  /\ UNCHANGED <<host, home, fs, dev, opts, todo, logger, downloads, acts>>

----------------------------------------------------------------------------
(* What happens around it. *)

Writes == {"copyfile", "linkdir", "writefile", "writenew", "executable", "secondary", "framework_exe",
           "fixup_script", "fixup_pth_file"}

\* Would the operation write to its file?  fixup_pth_file compares stripped lines with
\* unstripped ones, so it writes whatever it finds.
WouldWrite ==
  LET f == Current.file  t == fs[f]
  IN CASE Current.op = "copyfile"  -> ~Posix /\ ~Exists(t, home)
       [] Current.op = "linkdir"   -> ~Posix /\ NoDistutils
       [] Current.op = "writefile" -> writefile(t, Current.text, TRUE) # t
       [] Current.op = "writenew"  -> writefile(t, Current.text, FALSE) # t
       [] Current.op = "secondary" -> ~Present(f)
       [] Current.op = "fixup_script"   -> fixup_script(t, home) # t
       [] Current.op = "fixup_pth_file" -> t.is = "text"
       [] Current.op = "executable" -> opts.by # "env" /\ ~Loops(f) /\ ~Dangling(t, home)
       [] OTHER -> Current.op = "framework_exe"

\* The run is killed: between two operations, or in the middle of writing a file.
Interrupt ==
  /\ status = "running"
  /\ status' = "interrupted" /\ todo' = <<>>
  /\ \/ UNCHANGED fs
     \/ /\ todo # <<>> /\ Current.op \in Writes /\ WouldWrite
        /\ fs' = [fs EXCEPT ![Named(Current.file)] = Torn]
     \/ /\ Calling
        /\ \E f \in {"pth"} \union (IF Current.file = "pip" THEN {} ELSE {"setuptools"}) :
             fs' = [fs EXCEPT ![f] = Torn]
  /\ logger' = NewLogger(0)
  /\ UNCHANGED <<opts, downloads, relocated>> /\ Steady

Owner == status # "running" /\ acts < MaxActs /\ acts' = acts + 1 /\ status' = "idle"
Rests == UNCHANGED <<host, opts, todo, logger, downloads>>

\* easy_install or develop: a script, and a line in easy-install.pth.
InstallPackage ==
  /\ Owner /\ fs["setuptools"].is = "text" /\ fs["pth"].text = <<>>
  /\ \E where \in {"in", "out"} :
       /\ dev' = where
       /\ fs' = [fs EXCEPT !["script"] = Text(Shebang(home, BinDir, py_executable(opts))),
                           !["pth"] = Text(Abs(IF where = "in" THEN home \o <<"src">>
                                               ELSE <<"src">>))]
  /\ relocated' = {}
  /\ UNCHANGED home /\ Rests

EditConfig ==
  /\ Owner /\ fs["distutils_cfg"].is = "text"
  /\ fs' = [fs EXCEPT !["distutils_cfg"] = Text(<<"edited">>)]
  /\ UNCHANGED <<home, dev, relocated>> /\ Rests

Move ==
  /\ Owner
  /\ home' \in Homes \ {home}
  /\ UNCHANGED <<fs, dev, relocated>> /\ Rests

RunStep ==
  \/ CopyFile \/ LinkSelf \/ LinkDir \/ WriteFile \/ Unlink \/ Rmtree \/ CopyExecutable \/ Secondary
  \/ FrameworkExecutable \/ RunTool \/ Rename \/ TestExecutable \/ Exit \/ Raise \/ CallBegins
  \/ CopyFails \/ CallLine \/ CallEnds \/ CallFails \/ FixupScript \/ FixupPthFile \/ RunEnds

Next ==
  \/ \E o \in Options : Start(o)
  \/ RunStep \/ Interrupt \/ InstallPackage \/ EditConfig \/ Move

Spec == Init /\ [][Next]_vars

----------------------------------------------------------------------------
(* Properties. *)

Statuses == {"idle", "running", "done", "exit_1", "exit_3", "exit_100", "raised",
             "interrupted"}

\* The variables have their types, and a run that is over has nothing left to do.
TypeOK ==
  /\ host \in Hosts /\ home \in Homes /\ opts \in Options
  /\ \A f \in Files : fs[f].is \in {"absent", "torn", "link", "copy", "text"}
  /\ DOMAIN fs = Files
  /\ dev \in {"none", "in", "out"}
  /\ status \in Statuses /\ (status # "running" => todo = <<>>)
  /\ downloads \subseteq {"setuptools", "distribute", "pip"}
  /\ relocated \subseteq Movable /\ acts \in 0..MaxActs

Created == status = "done" /\ ~opts.relocatable

\* What create_environment never writes twice: copyfile's targets, the second name of the
\* interpreter, distutils.cfg and the script the owner installed.
WrittenOnce ==
  {"stdlib", "include", "jars", "distutils_cfg", "script"}
    \union (Executables \ {py_executable(opts)})

\* create_environment, 885-914.  A run that ends normally leaves a whole environment for
\* the directory it is in now, however many runs before it were killed in the middle of a
\* file and wherever the directory was then.  Only a file that is never written twice can
\* still be torn, and after --clear only if it is not in lib_dir.
SuccessIsWhole ==
  Created =>
    /\ Runs(py_executable(opts))
    /\ fs["site"] = Text(<<"SITE_PY">>) /\ fs["orig_prefix"] = Text(RealPrefix)
    /\ fs["distutils"] = Text(<<"DISTUTILS_INIT">>)
    /\ host.lib64 => fs["lib64"] = LinkTo(home)
    /\ host.local => fs["local"] = LinkTo(home)
    /\ fs["setuptools"].is = "text" /\ fs["pth"].is = "text"
    /\ fs["easy_install"] = Text(Shebang(home, BinDir, py_executable(opts)))
    /\ fs["activate"] = Text(ActivateText(opts))
    /\ \A f \in {g \in Files : fs[g].is = "torn"} :
         f \in WrittenOnce /\ (opts.clear => f \notin path_locations)

\* --no-site-packages, 1048-1057 with 1069-1078.  After a run the mark that hides the
\* global packages is there exactly if this run asked for it, whatever the runs before
\* asked for; unless the interpreter is that of another environment that has the mark.
FlagMatches ==
  Created /\ ~(opts.by = "outer" /\ host.outer_flag) =>
    (Present("flag") <=> opts.no_site_packages)

\* install_python 998-1006, writefile 420-440, _install_req and install_pip.  What the owner
\* installed or edited is changed by no run but --relocatable or, in lib_dir, --clear, with
\* one exception: the easy_install of every run rewrites easy-install.pth.  A line in it that
\* names its package names it still, and one that leads nowhere, because the environment
\* was moved, is dropped.  A run by the environment's own interpreter, on its absolute path,
\* changes nothing at all.
OwnersFilesKept ==
  [][status = "running" /\ status' # "interrupted" /\ ~opts.relocatable =>
       /\ \A f \in {"script", "distutils_cfg"} :
            fs[f].is = "text" => fs'[f] = fs[f] \/ (opts.clear /\ f \in path_locations)
       /\ Works("pth") => Works("pth")' \/ opts.clear
       /\ opts.by = "env" /\ opts.dest = "absolute" => fs' = fs]_vars

\* Scripts a --relocatable run can do something for, and a path that does not lead out of
\* the environment, not even to come back into it.
Relocatable(f) ==
  IF f = "pth" THEN dev = "in" /\ Ups(fs["pth"].text) < Len(PthFile(<<>>))
  ELSE Posix /\ Last(fs[f].text) \in {"python", "python2.6", "activate_this.py"}

\* make_environment_relocatable, 1327-1447.  Making scripts and paths relative changes
\* what none of them stands for, provided activate_this.py is there (its absence is reported
\* and does not stop the run); and after a --relocatable run by the environment's own
\* interpreter the environment can be moved, any number of times, and what worked before
\* works after, but for paths that lead out of it.
RelocationKeepsWorking ==
  [][/\ status = "running" /\ status' # "interrupted" /\ opts.relocatable
        /\ fs["activate"].is = "text" =>
          \A f \in Movable : Works(f) => Works(f)'
     /\ home' # home => \A f \in relocated : Relocatable(f) => Works(f)']_vars

\* Logger, 271-320, with call_subprocess.  No message is printed into an open progress
\* line, and when no command runs no progress is under way, so that start_progress's
\* assertion holds: also if the command fails.  Only a run that ended for want of a directory
\* that can be written to may leave its line open.
LinesWhole ==
  /\ logger.tty # "glued"
  /\ ~Calling => \/ ~logger.in_progress /\ logger.tty = "start"
                 \/ status # "running" /\ ~host.writable

\* _install_req 527-558.  With --never-download nothing is fetched as long as what is
\* found can be named from every directory.
NothingFetched ==
  opts.never_download /\ (host.found = "absolute" \/ host.writable) => downloads = {}
=============================================================================
