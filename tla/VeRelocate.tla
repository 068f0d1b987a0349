----------------------------- MODULE VeRelocate -----------------------------
(***************************************************************************)
(* What --relocatable does to one script, .pth file or .egg-link file.     *)
(* Paths are sequences of names; an absolute one starts with "/".          *)
(***************************************************************************)
EXTENDS Integers, Sequences, SequencesExt, FiniteSetsExt, VeFiles

IsAbs(p) == p # <<>> /\ p[1] = "/"
Abs(p)   == <<"/">> \o p

\* How many names two paths have in common at their start.
Common(p, q) ==
  Max({n \in 0..Len(p) : n <= Len(q) /\ SubSeq(p, 1, n) = SubSeq(q, 1, n)})

make_relative_path_FromFile(source, dest) ==
  LET n == Common(source, dest)
  IN [i \in 1..(Len(source) - n) |-> ".."] \o SubSeq(dest, n + 1, Len(dest))
\* The path of directory dest as seen from the file source.
make_relative_path(source, dest) ==
  LET dir  == Front(source)
      n    == Common(dir, dest)
      full == [i \in 1..(Len(dir) - n) |-> ".."] \o SubSeq(dest, n + 1, Len(dest))
  IN IF full = <<>> THEN <<"./">> ELSE full

\* How often a line leads upwards.
Ups(line) == Cardinality({i \in DOMAIN line : line[i] = ".."})

\* What a line of the file source stands for (site.py joins it to the directory).
Resolve(source, line) ==
  LET ups == Ups(line)
      dir == Front(source)
  IN IF IsAbs(line) THEN Tail(line)
     ELSE IF line = <<"./">> THEN dir
     ELSE SubSeq(dir, 1, Len(dir) - ups) \o SubSeq(line, ups + 1, Len(line))

\* fixup_pth_file and fixup_egg_link on the one line of the file at source.
fixup_line(f, source) ==
  IF f.is = "text" /\ IsAbs(f.text)
    THEN Text(make_relative_path(source, Tail(f.text))) ELSE f

Shebang(home, bin, exe) == <<"#!">> \o home \o <<bin, exe>>
NewShebang == <<"#!/usr/bin/env", "python", "activate_this.py">>

\* fixup_scripts on one file: its first line starts with "#!<home>/bin/python", which
\* bin/python2.6 does and Scripts\python.exe or bin/pypy does not.
fixup_script(f, home) ==
  IF f.is = "text" /\ \E exe \in {"python", "python2.6"} : f.text = Shebang(home, "bin", exe)
    THEN Text(NewShebang) ELSE f
=============================================================================
