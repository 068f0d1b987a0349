---------------------------- MODULE MCVirtualenv ----------------------------
(* Small computers and command lines for Virtualenv. *)
EXTENDS Virtualenv

PlainHost == [platform |-> "linux", exes |-> <<"python", "python2.6">>, lib64 |-> FALSE, local |-> FALSE,
              found |-> "absolute", pip |-> TRUE, writable |-> TRUE, outer_flag |-> FALSE]
MCHosts ==
  {PlainHost,
   [PlainHost EXCEPT !.lib64 = TRUE, !.outer_flag = TRUE],
   [PlainHost EXCEPT !.local = TRUE, !.found = "none", !.pip = FALSE],
   [PlainHost EXCEPT !.platform = "win32", !.exes = <<"python", "python">>,
      !.writable = FALSE],
   [PlainHost EXCEPT !.found = "relative", !.writable = FALSE],
   [PlainHost EXCEPT !.platform = "framework"],
   [PlainHost EXCEPT !.platform = "pypy", !.exes = <<"pypy", "pypy-c">>, !.found = "current"],
   [PlainHost EXCEPT !.platform = "jython", !.exes = <<"jython", "jython">>]}

PlainRun == [clear |-> FALSE, no_site_packages |-> FALSE, distribute |-> FALSE,
             never_download |-> FALSE, prompt |-> "", by |-> "system", dest |-> "absolute",
             exe |-> 1, relocatable |-> FALSE, python |-> "found", verbosity |-> 0]
MCOptions ==
  {PlainRun,
   [PlainRun EXCEPT !.no_site_packages = TRUE, !.prompt = "(p)", !.verbosity = 1],
   [PlainRun EXCEPT !.clear = TRUE, !.exe = 2, !.distribute = TRUE],
   [PlainRun EXCEPT !.never_download = TRUE, !.by = "outer"],
   [PlainRun EXCEPT !.by = "env", !.dest = "absolute", !.clear = TRUE],
   [PlainRun EXCEPT !.by = "env", !.dest = "relative"],
   [PlainRun EXCEPT !.relocatable = TRUE],
   [PlainRun EXCEPT !.relocatable = TRUE, !.by = "env"],
   [PlainRun EXCEPT !.python = "missing"]}

MCHomes == {<<"work", "env">>, <<"opt">>}
=============================================================================
