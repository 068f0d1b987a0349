------------------------------- MODULE VeFiles -------------------------------
(***************************************************************************)
(* The file primitives of virtualenv.py, on one file.  A file is what it   *)
(* is and the text one reads in it; a symbolic link is read through.       *)
(* "torn" is a file whose writing was interrupted.                         *)
(***************************************************************************)
EXTENDS Sequences

Absent == [is |-> "absent", text |-> <<>>]
Torn   == [is |-> "torn", text |-> <<>>]
Text(t) == [is |-> "text", text |-> t]

\* A link into the environment itself is absolute: "@" and the environment's path.
LinkTo(home) == [is |-> "link", text |-> <<"@">> \o home]
IsSelfLink(f) == f.is = "link" /\ f.text # <<>> /\ f.text[1] = "@"
Dangling(f, home) == IsSelfLink(f) /\ f # LinkTo(home)

\* os.path.exists.
Exists(f, home) == f.is # "absent" /\ ~Dangling(f, home)

\* copyfile: whatever is there already is left alone, complete or not.
copyfile(f, src, home) == IF Exists(f, home) THEN f ELSE src

\* Behind a dangling link neither os.symlink nor copytree can create the file.
copyfile_raises(f, home) == Dangling(f, home)

writefile_Keeps(f, content, overwrite) == IF f.is = "absent" THEN Text(content) ELSE f
writefile_Overwrites(f, content, overwrite) == Text(content)
\* writefile: compares before it overwrites, if it may overwrite at all.
writefile(f, content, overwrite) ==
  IF f.is = "absent" \/ (overwrite /\ (f.is = "torn" \/ f.text # content))
    THEN Text(content) ELSE f
=============================================================================
