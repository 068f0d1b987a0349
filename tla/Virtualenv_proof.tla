--------------------------- MODULE Virtualenv_proof ---------------------------
(***************************************************************************)
(* Whatever was interrupted before and wherever the directory was then, a  *)
(* run that ends well leaves a whole environment: proofs of the properties *)
(* of Virtualenv, for any computers, command lines, paths and any number   *)
(* of runs.                                                                *)
(*                                                                         *)
(* What a run has still to do is a list, so the invariant says of each     *)
(* duty of a run that it is on the list or has been done (Progress), and   *)
(* of the list that nothing on it undoes a duty unless the duty comes      *)
(* later (Order).  Both are kept when the first operation of the list is   *)
(* taken off.  What the operation does to a file is Outcome.               *)
(***************************************************************************)
EXTENDS Virtualenv, Induction_proof, SequenceTheorems, FiniteSetTheorems, TLAPS

-----------------------------------------------------------------------------
(* Lists of operations. *)

OpNames == {"copyfile", "linkself", "writefile", "writenew", "unlink", "rmtree", "executable",
            "secondary", "framework_exe", "tool", "rename", "test", "exit_3", "raise", "call",
            "linkdir", "fixup_script", "fixup_pth_file"}
\* What texts are made of, and paths.
Part == Names \union {"src", "bin", "Scripts", "lib", "python2.6", "site-packages",
                      "easy-install.pth"}
Word == STRING \union Part \union Files
          \union {"/", "..", "./", "usr", "SITE_PY", "DISTUTILS_INIT", "DISTUTILS_CFG", "OUTER_CFG",
                  "edited",
                  "#!", "#!/usr/bin/env", "activate_this.py", "@", "", "distribute"}
File == [is : {"absent", "torn", "link", "copy", "text"}, text : Seq(Word)]
Operation == [op : OpNames, file : Files \union {"distribute"}, text : Seq(Word)]

\* The operations of a run by options o, which each function yields with its own files.
Lawful(p, o) ==
  /\ p.op = "copyfile" => /\ p.file \in {"stdlib", "include", "flag", "jars", "dylib"}
                          /\ p.file = "flag" => o.by = "outer" /\ host.outer_flag
                          /\ p.file = "dylib" => host.platform = "framework"
  /\ p.op = "linkself" => p.file \in {"lib64", "local", "python"}
  /\ p.op = "linkdir" => p.file = "distutils"
  /\ p.op = "writefile" =>
       \/ p.file = "site" /\ p.text = <<"SITE_PY">>
       \/ p.file = "orig_prefix" /\ p.text = RealPrefix
       \/ p.file = "distutils" /\ p.text = <<"DISTUTILS_INIT">>
       \/ p.file = "activate" /\ p.text = ActivateText(o)
       \/ p.file = "flag" /\ p.text = <<"">> /\ o.no_site_packages
  /\ p.op = "writenew" => p.file = "distutils_cfg"
  /\ p.op = "unlink" => \/ p.file = "flag" /\ ~o.no_site_packages
                        \/ p.file = "dylib" /\ host.platform = "framework"
  /\ p.op = "rmtree" => o.clear
  /\ p.op \in {"executable", "framework_exe", "tool", "test"} => p.file = py_executable(o)
  /\ p.op \in {"secondary", "rename"} => p.file \in Executables
  /\ p.op = "rename" => Len(p.text) = 1 /\ p.text[1] \in Executables
  /\ p.op = "call" => p.file \in {"setuptools", "distribute", "pip"}
  /\ p.op = "fixup_script" => p.file \in Scripts
  /\ p.op = "fixup_pth_file" => p.file = "pth"
  /\ o.relocatable <=> p.op \in {"fixup_script", "fixup_pth_file"}

\* An operation at which every run ends.
Fatal == {"exit_3", "raise"}
Doomed(s) == \E i \in DOMAIN s : s[i].op \in Fatal
Ahead(s, p) == \E i \in DOMAIN s : s[i] = p
\* After every operation of the kinds K there is still p to come.
Follows(s, K, p) == \A i \in DOMAIN s : s[i].op \in K => \E j \in DOMAIN s : i < j /\ s[j] = p

\* What a run by o must have done when it ends.
Clearing       == Op("rmtree", "site", <<>>)
WriteSite      == Op("writefile", "site", <<"SITE_PY">>)
WritePrefix    == Op("writefile", "orig_prefix", RealPrefix)
WriteDistutils == Op("writefile", "distutils", <<"DISTUTILS_INIT">>)
WriteActivate(o) == Op("writefile", "activate", ActivateText(o))
Flagging(o) == IF o.no_site_packages THEN Op("writefile", "flag", <<"">>)
               ELSE Op("unlink", "flag", <<>>)
Installing(o)  == Op("call", IF o.distribute THEN "distribute" ELSE "setuptools", <<>>)
InstallingPip  == Op("call", "pip", <<>>)
Testing(o)     == Op("test", py_executable(o), <<>>)
Dylib          == Op("unlink", "dylib", <<>>)
LinkLib64      == Op("linkself", "lib64", <<>>)
LinkLocal      == Op("linkself", "local", <<>>)

\* The duties that --clear undoes, and those every creation has.
Duties(o) == {WriteSite, WritePrefix, WriteDistutils, WriteActivate(o), Flagging(o),
              Installing(o), InstallingPip, Testing(o)} \union {p \in {LinkLocal} : host.local}
ExeOps == {"linkself", "executable", "secondary", "framework_exe", "rename"}

Fixups == {Op("fixup_script", f, <<>>) : f \in Scripts} \union {Op("fixup_pth_file", "pth", <<>>)}

Order(s, o) ==
  /\ \A p \in Duties(o) : Follows(s, {"rmtree"}, p)
  /\ Follows(s, ExeOps, Testing(o))

\* A list that main may begin with.
Program(s, o) ==
  /\ s \in Seq(Operation)
  /\ \A i \in DOMAIN s : s[i].op \in Fatal \/ Lawful(s[i], o)
  /\ ~o.relocatable => Order(s, o)
  /\ o.by = "env" /\ o.dest = "absolute" /\ ~o.relocatable =>
       s # <<>> /\ Head(s).op \in Fatal

\* Nothing a run must do is missing from the list.
Complete(s, o) ==
  IF o.relocatable THEN o.by = "env" => \A p \in Fixups : Ahead(s, p)
  ELSE /\ \A p \in Duties(o) : Ahead(s, p)
       /\ o.clear => Ahead(s, Clearing)
       /\ host.platform = "framework" => Ahead(s, Dylib)
       /\ host.lib64 => host.platform # "pypy" /\ Ahead(s, LinkLib64)

-----------------------------------------------------------------------------
(* The inductive invariant. *)

Plain == {"site", "orig_prefix", "distutils", "distutils_cfg", "setuptools", "easy_install",
          "pip", "script", "pth", "activate"}

\* What a file may be, by its name.
Kinds ==
  /\ fs \in [Files -> File]
  /\ \A f \in Plain : fs[f].is \in {"absent", "torn", "text"}
  /\ ~IsSelfLink(fs["flag"])
  /\ fs["dylib"].is = "torn" => host.platform = "framework"
  /\ \A f \in {"lib64", "local"} : fs[f].is = "absent" \/ IsSelfLink(fs[f])
  /\ IsAbs(fs["pth"].text) => Tail(fs["pth"].text) \in Seq(Part)

Types ==
  /\ host \in Hosts /\ home \in Homes /\ opts \in Options
  /\ Kinds
  /\ dev \in {"none", "in", "out"}
  /\ status \in Statuses
  /\ downloads \subseteq {"setuptools", "distribute", "pip"}
  /\ relocated \subseteq Movable /\ acts \in 0..MaxActs

Listed == IF status = "running" THEN Program(todo, opts) /\ relocated = {} ELSE todo = <<>>

\* The flag: whole, and as the run asked for unless another environment's leaks in.
Flagged ==
  /\ fs["flag"].is # "torn"
  /\ ~(opts.by = "outer" /\ host.outer_flag) => (fs["flag"].is # "absent" <=> opts.no_site_packages)

Progress ==
  status \in {"running", "done"} /\ ~opts.relocatable /\ ~Doomed(todo) =>
    /\ Ahead(todo, WriteSite) \/ fs["site"] = Text(<<"SITE_PY">>)
    /\ Ahead(todo, WritePrefix) \/ fs["orig_prefix"] = Text(RealPrefix)
    /\ Ahead(todo, WriteDistutils) \/ fs["distutils"] = Text(<<"DISTUTILS_INIT">>)
    /\ Ahead(todo, WriteActivate(opts)) \/ fs["activate"] = Text(ActivateText(opts))
    /\ Ahead(todo, Flagging(opts)) \/ Flagged
    /\ Ahead(todo, Installing(opts)) \/
         (fs["setuptools"].is = "text"
          /\ fs["easy_install"] = Text(Shebang(home, BinDir, py_executable(opts))))
    /\ Ahead(todo, InstallingPip) \/ (fs["pip"].is = "text" /\ fs["pth"].is = "text")
    /\ Ahead(todo, Testing(opts)) \/ Runs(py_executable(opts))
    /\ opts.clear => Ahead(todo, Clearing) \/ \A f \in path_locations : fs[f].is # "torn"
    /\ host.platform = "framework" => Ahead(todo, Dylib) \/ fs["dylib"].is # "torn"
    /\ host.local => Ahead(todo, LinkLocal) \/ fs["local"] = LinkTo(home)
    /\ host.lib64 => /\ host.platform # "pypy"
                     /\ Ahead(todo, LinkLib64) \/ fs["lib64"] = LinkTo(home)

\* Nothing is left for --relocatable to do for f.
Fixed(f) == IF f = "pth" THEN fs["pth"].is = "text" => ~IsAbs(fs["pth"].text)
            ELSE fixup_script(fs[f], home) = fs[f]
Fixup(f) == Op(IF f = "pth" THEN "fixup_pth_file" ELSE "fixup_script", f, <<>>)
Fixing ==
  status \in {"running", "done"} /\ opts.relocatable /\ opts.by = "env" /\ ~Doomed(todo) =>
    \A f \in Movable : Ahead(todo, Fixup(f)) \/ Fixed(f)

\* Works, if the environment were in h.
WorksIn(f, h) ==
  IF f = "pth" THEN /\ fs["pth"].is = "text"
                    /\ Resolve(PthFile(h), fs["pth"].text)
                         = (IF dev = "in" THEN h \o <<"src">> ELSE <<"src">>)
  ELSE \/ fs[f] = Text(NewShebang) /\ fs["activate"].is = "text"
       \/ fs[f] \in {Text(Shebang(h, BinDir, e)) : e \in Executables}
MovedWorks == \A f \in relocated : Relocatable(f) => \A h \in Homes : WorksIn(f, h)

\* Progress is under way while a command runs, or was when the directory could not be copied to.
InProgress == IF status = "running" THEN todo # <<>> /\ Head(todo).op = "call" ELSE ~host.writable
Logged ==
  /\ logger \in [level : Int, in_progress : BOOLEAN, in_progress_hanging : BOOLEAN,
                tty : {"start", "open"}]
  /\ logger.in_progress => InProgress
  /\ logger.in_progress_hanging => logger.in_progress /\ level_matches(logger, NOTIFY)
  /\ logger.tty = (IF logger.in_progress_hanging THEN "open" ELSE "start")

IInv == Types /\ Listed /\ Progress /\ Fixing /\ MovedWorks /\ Logged /\ NothingFetched
-----------------------------------------------------------------------------
(* Facts about lists. *)

Lists == Seq(Operation)
AllLawful(s, o) == \A i \in DOMAIN s : s[i].op \in Fatal \/ Lawful(s[i], o)
Without(s, K) == \A i \in DOMAIN s : s[i].op \notin K

LEMMA Places ==
  ASSUME NEW a \in Lists, NEW b \in Lists
  PROVE  /\ a \o b \in Lists
         /\ \A i \in DOMAIN (a \o b) :
              \/ i \in DOMAIN a /\ (a \o b)[i] = a[i]
              \/ i > Len(a) /\ i - Len(a) \in DOMAIN b /\ (a \o b)[i] = b[i - Len(a)]
         /\ \A i \in DOMAIN a : i \in DOMAIN (a \o b) /\ i <= Len(a) /\ (a \o b)[i] = a[i]
         /\ \A i \in DOMAIN b : /\ i \in Nat /\ Len(a) + i \in DOMAIN (a \o b)
                                /\ Len(a) < Len(a) + i /\ (a \o b)[Len(a) + i] = b[i]
<1>1. /\ Len(a) \in Nat /\ Len(b) \in Nat /\ DOMAIN a = 1..Len(a) /\ DOMAIN b = 1..Len(b)
  BY DEF Lists
<1>2. /\ a \o b \in Lists /\ Len(a \o b) = Len(a) + Len(b)
      /\ \A i \in 1..(Len(a) + Len(b)) : (a \o b)[i] = IF i <= Len(a) THEN a[i] ELSE b[i - Len(a)]
  BY ConcatProperties DEF Lists
<1>3. DOMAIN (a \o b) = 1..(Len(a) + Len(b))
  BY <1>2 DEF Lists
<1>4. ASSUME NEW i \in DOMAIN b
      PROVE  /\ i \in Nat /\ Len(a) + i \in 1..(Len(a) + Len(b)) /\ Len(a) < Len(a) + i
             /\ ~(Len(a) + i <= Len(a)) /\ (Len(a) + i) - Len(a) = i
  BY <1>1
<1>5. ASSUME NEW i \in 1..(Len(a) + Len(b))
      PROVE  IF i <= Len(a) THEN i \in 1..Len(a) ELSE i > Len(a) /\ i - Len(a) \in 1..Len(b)
  BY <1>1
<1>6. ASSUME NEW i \in 1..Len(a)
      PROVE  i \in 1..(Len(a) + Len(b)) /\ i <= Len(a)
  BY <1>1
<1> QED
  BY <1>1, <1>2, <1>3, <1>4, <1>5, <1>6

LEMMA Joined ==
  ASSUME NEW a \in Lists, NEW b \in Lists
  PROVE  /\ a \o b \in Lists
         /\ \A o : AllLawful(a, o) /\ AllLawful(b, o) => AllLawful(a \o b, o)
         /\ \A p : Ahead(a \o b, p) <=> Ahead(a, p) \/ Ahead(b, p)
         /\ Doomed(a \o b) <=> Doomed(a) \/ Doomed(b)
         /\ \A K : Without(a \o b, K) <=> Without(a, K) /\ Without(b, K)
<1> DEFINE c == a \o b
<1>1. /\ c \in Lists
      /\ \A i \in DOMAIN c : (\E j \in DOMAIN a : c[i] = a[j]) \/ (\E j \in DOMAIN b : c[i] = b[j])
      /\ \A j \in DOMAIN a : \E i \in DOMAIN c : c[i] = a[j]
      /\ \A j \in DOMAIN b : \E i \in DOMAIN c : c[i] = b[j]
  <2>1. /\ c \in Lists
        /\ \A i \in DOMAIN c : (\E j \in DOMAIN a : c[i] = a[j]) \/ (\E j \in DOMAIN b : c[i] = b[j])
    BY Places, ZenonT(60)
  <2>2. \A j \in DOMAIN a : \E i \in DOMAIN c : c[i] = a[j]
    BY Places, ZenonT(60)
  <2>3. \A j \in DOMAIN b : \E i \in DOMAIN c : c[i] = b[j]
    BY Places, ZenonT(60)
  <2> QED
    BY <2>1, <2>2, <2>3
<1> HIDE DEF c
<1>2. ASSUME NEW o, AllLawful(a, o), AllLawful(b, o) PROVE AllLawful(c, o)
  BY <1>1, <1>2, Zenon DEF AllLawful
<1>3. ASSUME NEW p PROVE Ahead(c, p) <=> Ahead(a, p) \/ Ahead(b, p)
  BY <1>1 DEF Ahead
<1>4. Doomed(c) <=> Doomed(a) \/ Doomed(b)
  BY <1>1 DEF Doomed
<1>5. ASSUME NEW K PROVE Without(c, K) <=> Without(a, K) /\ Without(b, K)
  BY <1>1 DEF Without
<1> QED
  BY <1>1, <1>2, <1>3, <1>4, <1>5 DEF c

\* What is still to come when b is put behind a.
LEMMA FollowsJoined ==
  ASSUME NEW a \in Lists, NEW b \in Lists, NEW K, NEW p, Without(b, K),
         Follows(a, K, p) \/ Ahead(b, p)
  PROVE  Follows(a \o b, K, p)
<1> SUFFICES ASSUME NEW i \in DOMAIN (a \o b), (a \o b)[i].op \in K
             PROVE  \E j \in DOMAIN (a \o b) : i < j /\ (a \o b)[j] = p
  BY DEF Follows
<1>1. i \in DOMAIN a /\ (a \o b)[i] = a[i]
  BY Places DEF Without
<1>2. CASE Follows(a, K, p)
  <2>1. PICK j \in DOMAIN a : i < j /\ a[j] = p
    BY <1>1, <1>2 DEF Follows
  <2>2. j \in DOMAIN (a \o b) /\ (a \o b)[j] = a[j]
    BY Places
  <2> QED
    BY <2>1, <2>2
<1>3. CASE Ahead(b, p)
  <2>1. PICK j \in DOMAIN b : b[j] = p
    BY <1>3 DEF Ahead
  <2> DEFINE k == Len(a) + j
  <2>2. k \in DOMAIN (a \o b) /\ (a \o b)[k] = p /\ j \in Nat /\ Len(a) < k
    BY <2>1, Places
  <2>3. i \in Nat /\ Len(a) \in Nat /\ k \in Nat /\ i <= Len(a)
    BY <1>1, <2>2 DEF Lists
  <2>4. i < k
    <3> HIDE DEF k
    <3> QED
      BY <2>2, <2>3
  <2> QED
    BY <2>2, <2>4
<1> QED
  BY <1>2, <1>3

LEMMA NothingFollows ==
  ASSUME NEW s, NEW K, Without(s, K) PROVE \A p : Follows(s, K, p)
  BY DEF Without, Follows

LEMMA Single ==
  ASSUME NEW p \in Operation
  PROVE  /\ <<p>> \in Lists
         /\ \A o : p.op \in Fatal \/ Lawful(p, o) => AllLawful(<<p>>, o)
         /\ \A q : Ahead(<<p>>, q) <=> q = p
         /\ Doomed(<<p>>) <=> p.op \in Fatal
         /\ \A K : Without(<<p>>, K) <=> p.op \notin K
<1> DEFINE s == <<p>>
<1>1. s \in Lists /\ DOMAIN s = {1} /\ s[1] = p
  BY DEF Lists
<1> HIDE DEF s
<1>2. ASSUME NEW o, p.op \in Fatal \/ Lawful(p, o) PROVE AllLawful(s, o)
  BY <1>1, <1>2, Zenon DEF AllLawful
<1>3. ASSUME NEW q PROVE Ahead(s, q) <=> q = p
  BY <1>1, Zenon DEF Ahead
<1>4. Doomed(s) <=> p.op \in Fatal
  BY <1>1, Zenon DEF Doomed
<1>5. ASSUME NEW K PROVE Without(s, K) <=> p.op \notin K
  BY <1>1, Zenon DEF Without
<1> QED
  BY <1>1, <1>2, <1>3, <1>4, <1>5 DEF s

LEMMA None ==
  /\ <<>> \in Lists /\ \A o : AllLawful(<<>>, o)
  /\ \A p : ~Ahead(<<>>, p)
  /\ ~Doomed(<<>>) /\ \A K : Without(<<>>, K)
<1>1. <<>> \in Lists /\ DOMAIN <<>> = {}
  BY DEF Lists
<1> QED
  BY <1>1 DEF AllLawful, Ahead, Doomed, Without

LEMMA TailFacts ==
  ASSUME NEW s \in Lists, s # <<>>
  PROVE  /\ Tail(s) \in Lists /\ Head(s) \in Operation
         /\ \A o : AllLawful(s, o) =>
              AllLawful(Tail(s), o) /\ (Head(s).op \in Fatal \/ Lawful(Head(s), o))
         /\ \A p : Ahead(s, p) <=> p = Head(s) \/ Ahead(Tail(s), p)
         /\ Doomed(s) <=> Head(s).op \in Fatal \/ Doomed(Tail(s))
         /\ \A K, p : Follows(s, K, p) =>
              Follows(Tail(s), K, p) /\ (Head(s).op \in K => Ahead(Tail(s), p))
<1> DEFINE t == Tail(s)
           h == Head(s)
<1>1. /\ t \in Lists /\ Len(s) \in Nat \ {0} /\ Len(t) = Len(s) - 1 /\ h = s[1] /\ h \in Operation
      /\ \A i \in 1..Len(t) : t[i] = s[i + 1]
      /\ DOMAIN s = 1..Len(s) /\ DOMAIN t = 1..Len(t)
  BY EmptySeq, HeadTailProperties DEF Lists
<1> HIDE DEF t, h
<1>2. /\ 1 \in DOMAIN s
      /\ \A i \in DOMAIN t : i + 1 \in DOMAIN s /\ i \in Nat /\ 1 < i + 1 /\ t[i] = s[i + 1]
      /\ \A i \in DOMAIN s : i \in Nat /\ (i = 1 \/ (i - 1 \in DOMAIN t /\ (i - 1) + 1 = i))
  BY <1>1
<1>3. /\ \A i \in DOMAIN t : \E j \in DOMAIN s : t[i] = s[j]
      /\ \A j \in DOMAIN s : s[j] = h \/ \E i \in DOMAIN t : t[i] = s[j]
      /\ \E j \in DOMAIN s : s[j] = h
  <2>1. ASSUME NEW j \in DOMAIN s, j # 1 PROVE \E i \in DOMAIN t : t[i] = s[j]
    <3>1. j - 1 \in DOMAIN t /\ t[j - 1] = s[j]
      BY <1>2, <2>1
    <3> QED
      BY <3>1
  <2> QED
    BY <1>1, <1>2, <2>1
<1>4. ASSUME NEW o, AllLawful(s, o)
      PROVE  AllLawful(t, o) /\ (h.op \in Fatal \/ Lawful(h, o))
  BY <1>3, <1>4, Zenon DEF AllLawful
<1>5. ASSUME NEW p PROVE Ahead(s, p) <=> p = h \/ Ahead(t, p)
  BY <1>3, Zenon DEF Ahead
<1>6. Doomed(s) <=> h.op \in Fatal \/ Doomed(t)
  BY <1>3 DEF Doomed
<1>7. ASSUME NEW K, NEW p, Follows(s, K, p)
      PROVE  Follows(t, K, p) /\ (h.op \in K => Ahead(t, p))
  <2>1. ASSUME NEW i \in DOMAIN t, t[i].op \in K
        PROVE  \E j \in DOMAIN t : i < j /\ t[j] = p
    <3>1. PICK j \in DOMAIN s : i + 1 < j /\ s[j] = p
      BY <1>2, <1>7, <2>1 DEF Follows
    <3>2. j - 1 \in DOMAIN t /\ i < j - 1 /\ t[j - 1] = s[j]
      BY <1>2, <3>1
    <3> QED
      BY <3>1, <3>2
  <2>2. ASSUME h.op \in K PROVE Ahead(t, p)
    <3>1. PICK j \in DOMAIN s : 1 < j /\ s[j] = p
      BY <1>1, <1>2, <1>7, <2>2 DEF Follows
    <3>2. j - 1 \in DOMAIN t /\ t[j - 1] = s[j]
      BY <1>2, <3>1
    <3> QED
      BY <3>1, <3>2 DEF Ahead
  <2> QED
    BY <2>1, <2>2 DEF Follows
<1> QED
  BY <1>1, <1>4, <1>5, <1>6, <1>7 DEF t, h

LEMMA FollowsBehind ==
  ASSUME NEW a \in Lists, NEW b \in Lists, NEW K, NEW p, Without(a, K), Follows(b, K, p)
  PROVE  Follows(a \o b, K, p)
<1> SUFFICES ASSUME NEW i \in DOMAIN (a \o b), (a \o b)[i].op \in K
             PROVE  \E j \in DOMAIN (a \o b) : i < j /\ (a \o b)[j] = p
  BY DEF Follows
<1>1. i > Len(a) /\ i - Len(a) \in DOMAIN b /\ (a \o b)[i] = b[i - Len(a)]
  BY Places DEF Without
<1>2. PICK j \in DOMAIN b : i - Len(a) < j /\ b[j] = p
  BY <1>1 DEF Follows
<1> DEFINE k == Len(a) + j
<1>3. k \in DOMAIN (a \o b) /\ (a \o b)[k] = p /\ j \in Nat
  BY <1>2, Places
<1>4. i < k
  <2>1. Len(a) \in Nat /\ i \in Int
    <3>1. a \o b \in Lists
      BY Places
    <3> QED
      BY <3>1 DEF Lists
  <2> QED
    BY <1>2, <1>3, <2>1
<1> QED
  BY <1>3, <1>4

\* A list that begins with the end of the run.
Begins(s) == s # <<>> /\ Head(s).op \in Fatal

LEMMA BeginsJoined ==
  ASSUME NEW a \in Lists, NEW b \in Lists
  PROVE  /\ Begins(a) => Begins(a \o b) /\ Doomed(a)
         /\ a = <<>> /\ Begins(b) => Begins(a \o b)
<1>1. ASSUME Begins(a) PROVE Begins(a \o b) /\ Doomed(a)
  <2>1. Len(a) \in Nat \ {0} /\ 1 \in DOMAIN a /\ Head(a) = a[1]
    BY <1>1, EmptySeq DEF Begins, Lists
  <2>2. 1 \in DOMAIN (a \o b) /\ (a \o b)[1] = a[1] /\ a \o b \in Lists
    BY <2>1, Places
  <2> QED
    BY <1>1, <2>1, <2>2 DEF Begins, Doomed, Lists
<1>2. ASSUME a = <<>> PROVE a \o b = b
  BY <1>2, ConcatEmptySeq DEF Lists
<1> QED
  BY <1>1, <1>2

-----------------------------------------------------------------------------
(* The list main begins with. *)

\* A piece of it, with none of the operations K.
Piece(s, o, K) == s \in Lists /\ AllLawful(s, o) /\ Without(s, K)

LEMMA PiecesJoined ==
  ASSUME NEW a, NEW b, NEW o, NEW K, Piece(a, o, K), Piece(b, o, K)
  PROVE  /\ Piece(a \o b, o, K)
         /\ \A p : Ahead(a \o b, p) <=> Ahead(a, p) \/ Ahead(b, p)
<1>1. a \in Lists /\ b \in Lists
  BY DEF Piece
<1>2. /\ a \o b \in Lists
      /\ AllLawful(a, o) /\ AllLawful(b, o) => AllLawful(a \o b, o)
      /\ \A p : Ahead(a \o b, p) <=> Ahead(a, p) \/ Ahead(b, p)
      /\ Without(a \o b, K) <=> Without(a, K) /\ Without(b, K)
  BY <1>1, Joined
<1> QED
  BY <1>2 DEF Piece

LEMMA PieceSingle ==
  ASSUME NEW p \in Operation, NEW o, NEW K, p.op \notin K, p.op \in Fatal \/ Lawful(p, o)
  PROVE  Piece(<<p>>, o, K) /\ Ahead(<<p>>, p)
  BY Single DEF Piece

LEMMA PieceNone ==
  ASSUME NEW o, NEW K PROVE Piece(<<>>, o, K)
  BY None DEF Piece

LEMMA PieceIf ==
  ASSUME NEW s, NEW o, NEW K, NEW c, c => Piece(s, o, K)
  PROVE  Piece(If(c, s), o, K)
  BY PieceNone DEF If

LEMMA Given ==
  ASSUME host \in Hosts, home \in Homes, NEW o \in Options
  PROVE  /\ host \in Host /\ o \in Option /\ home \in Seq(Part)
         /\ py_executable(o) \in Executables /\ expected_exe \in Executables
         /\ Executables \subseteq Files
         /\ BinDir \in Part /\ Part \subseteq Word /\ Files \subseteq Word /\ home \in Seq(Word)
<1>1. host \in Host /\ o \in Option /\ home \in Seq(Names) /\ o.exe \in DOMAIN host.exes
  BY VirtualenvAssumption DEF VirtualenvAssumption
<1>2. host.exes \in Seq(Executables)
  BY <1>1 DEF Host
<1>3. py_executable(o) \in Executables
  BY <1>1, <1>2, ElementOfSeq DEF py_executable
<1>4. Executables \subseteq Files /\ Part \subseteq Word /\ Files \subseteq Word /\ Names \subseteq Part
  BY DEF Files, Word, Part
<1>5. home \in Seq(Part)
  <2> QED
    BY <1>1, <1>4
<1>6. home \in Seq(Word)
  <2> QED
    BY <1>5, <1>4
<1>7. BinDir \in Part
  BY DEF BinDir, Part
<1>8. expected_exe \in Executables
  BY DEF expected_exe, Executables
<1> QED
  BY <1>1, <1>3, <1>4, <1>5, <1>6, <1>7, <1>8

\* The link lib64 is made, unless the run is one that ends at a raise.
Lib64On(s) == host.lib64 => Doomed(s) \/ (host.platform # "pypy" /\ Ahead(s, LinkLib64))

LEMMA Lib64Joined ==
  ASSUME NEW a, NEW b, NEW o, NEW K, NEW L, Piece(a, o, K), Piece(b, o, L), Lib64On(a) \/ Lib64On(b)
  PROVE  Lib64On(a \o b)
<1>1. a \in Lists /\ b \in Lists
  BY DEF Piece
<1>2. /\ Doomed(a \o b) <=> Doomed(a) \/ Doomed(b)
      /\ Ahead(a \o b, LinkLib64) <=> Ahead(a, LinkLib64) \/ Ahead(b, LinkLib64)
  BY <1>1, Joined
<1> QED
  BY <1>2 DEF Lib64On

LEMMA NotRelocatable ==
  ASSUME host \in Hosts, home \in Homes, NEW o \in Options, ~o.relocatable
  PROVE  o.relocatable = FALSE
<1>1. o.relocatable \in BOOLEAN
  BY Given DEF Option
<1> QED
  BY <1>1

LEMMA DutiesLawful ==
  ASSUME host \in Hosts, home \in Homes, NEW o \in Options, ~o.relocatable
  PROVE  /\ \A p \in Duties(o) : p \in Operation /\ Lawful(p, o) /\ p.op \notin Fatal \union {"rmtree"}
         /\ Clearing \in Operation /\ Clearing.op = "rmtree" /\ (o.clear => Lawful(Clearing, o))
         /\ Dylib \in Operation /\ Dylib.op = "unlink"
         /\ host.platform = "framework" => Lawful(Dylib, o)
         /\ LinkLib64 \in Operation /\ Lawful(LinkLib64, o) /\ LinkLib64.op = "linkself"
         /\ WriteActivate(o).op = "writefile" /\ WriteDistutils.op = "writefile"
         /\ Installing(o).op = "call" /\ InstallingPip.op = "call"
<1> USE DEF Op
<1>1. /\ o.prompt \in STRING /\ o.relocatable = FALSE /\ py_executable(o) \in Executables
      /\ home \in Seq(Word) /\ o.no_site_packages \in BOOLEAN
  BY Given DEF Option
<1>2. ActivateText(o) \in Seq(Word)
  <2>1. o.prompt \in Word
    BY <1>1 DEF Word
  <2> QED
    BY <1>1, <2>1, ConcatProperties DEF ActivateText
<1>3. /\ <<"SITE_PY">> \in Seq(Word) /\ RealPrefix \in Seq(Word) /\ <<"DISTUTILS_INIT">> \in Seq(Word)
      /\ <<"">> \in Seq(Word) /\ <<>> \in Seq(Word)
  BY DEF Word, RealPrefix
<1>4. WriteSite \in Operation /\ Lawful(WriteSite, o) /\ WriteSite.op = "writefile"
  <2> QED
    BY <1>1, <1>3 DEF WriteSite, Operation, OpNames, Files, LibFiles, Lawful
<1>5. WritePrefix \in Operation /\ Lawful(WritePrefix, o) /\ WritePrefix.op = "writefile"
  <2> QED
    BY <1>1, <1>3 DEF WritePrefix, Operation, OpNames, Files, LibFiles, Lawful
<1>6. WriteDistutils \in Operation /\ Lawful(WriteDistutils, o) /\ WriteDistutils.op = "writefile"
  BY <1>1, <1>3 DEF WriteDistutils, Operation, OpNames, Files, LibFiles, Lawful
<1>7. WriteActivate(o) \in Operation /\ Lawful(WriteActivate(o), o) /\ WriteActivate(o).op = "writefile"
  BY <1>1, <1>2 DEF WriteActivate, Operation, OpNames, Files, LibFiles, Lawful
<1>8. /\ Flagging(o) \in Operation /\ Lawful(Flagging(o), o)
      /\ Flagging(o).op \in {"writefile", "unlink"}
  BY <1>1, <1>3 DEF Flagging, Operation, OpNames, Files, LibFiles, Lawful
<1>9. /\ Installing(o) \in Operation /\ Lawful(Installing(o), o) /\ Installing(o).op = "call"
      /\ InstallingPip \in Operation /\ Lawful(InstallingPip, o) /\ InstallingPip.op = "call"
  BY <1>1, <1>3 DEF Installing, InstallingPip, Operation, OpNames, Files, LibFiles, Scripts, Lawful
<1>10. Testing(o) \in Operation /\ Lawful(Testing(o), o) /\ Testing(o).op = "test"
  BY <1>1, <1>3 DEF Testing, Operation, OpNames, Files, Lawful
<1>11. /\ Clearing \in Operation /\ Clearing.op = "rmtree" /\ (o.clear => Lawful(Clearing, o))
       /\ Dylib \in Operation /\ Dylib.op = "unlink"
       /\ host.platform = "framework" => Lawful(Dylib, o)
  BY <1>1, <1>3 DEF Clearing, Dylib, Operation, OpNames, Files, LibFiles, Lawful
<1>12. /\ LinkLib64 \in Operation /\ Lawful(LinkLib64, o) /\ LinkLib64.op = "linkself"
       /\ LinkLocal \in Operation /\ Lawful(LinkLocal, o) /\ LinkLocal.op = "linkself"
  BY <1>1, <1>3 DEF LinkLib64, LinkLocal, Operation, OpNames, Files, LibFiles, Lawful
<1> HIDE DEF Op
<1>13. ASSUME NEW p \in Duties(o)
       PROVE  p \in {WriteSite, WritePrefix, WriteDistutils, WriteActivate(o), Flagging(o),
                     Installing(o), InstallingPip, Testing(o), LinkLocal}
  BY <1>13 DEF Duties
<1> QED
  BY <1>4, <1>5, <1>6, <1>7, <1>8, <1>9, <1>10, <1>11, <1>12, <1>13 DEF Fatal

LEMMA Texts ==
  /\ <<>> \in Seq(Word)
  /\ \A f \in Files : <<"/", "usr", f>> \in Seq(Word) /\ <<f>> \in Seq(Word) /\ Len(<<f>>) = 1 /\ <<f>>[1] = f
  /\ <<"DISTUTILS_CFG">> \in Seq(Word)
<1>1. {"/", "usr", "DISTUTILS_CFG"} \subseteq Word /\ Files \subseteq Word
  BY DEF Word
<1> QED
  BY <1>1

\* The first half of install_files, up to the copies of the headers.
LEMMA FirstPieces ==
  ASSUME host \in Hosts, home \in Homes, NEW o \in Options, ~o.relocatable
  PROVE  /\ Piece(fix_lib64, o, {"rmtree"}) /\ Lib64On(fix_lib64)
         /\ Piece(fix_local_scheme, o, {"rmtree"})
         /\ host.local => Ahead(fix_local_scheme, LinkLocal)
         /\ Piece(copy_required_modules, o, {"rmtree"})
         /\ Piece(Write("site", <<"SITE_PY">>), o, {"rmtree"})
         /\ Ahead(Write("site", <<"SITE_PY">>), WriteSite)
         /\ Piece(Write("orig_prefix", RealPrefix), o, {"rmtree"})
         /\ Ahead(Write("orig_prefix", RealPrefix), WritePrefix)
         /\ Piece(site_packages_flag(o), o, {"rmtree"}) /\ Ahead(site_packages_flag(o), Flagging(o))
         /\ Piece(Copy("include"), o, {"rmtree"})
<1> DEFINE K == {"rmtree"}
<1>2. {"lib64", "local", "stdlib", "include"} \subseteq Files
  BY DEF Files, LibFiles
<1>3. Piece(fix_lib64, o, K) /\ Lib64On(fix_lib64)
  <2>1. Op("raise", "lib64", <<>>) \in Operation /\ Op("raise", "lib64", <<>>).op \in Fatal
        /\ Op("raise", "lib64", <<>>).op \notin K
    BY <1>2, Texts, NotRelocatable DEF Op, Operation, OpNames, Files, LibFiles, Lawful, Fatal
  <2>2. Op("linkself", "lib64", <<>>) \in Operation /\ Lawful(Op("linkself", "lib64", <<>>), o)
        /\ Op("linkself", "lib64", <<>>).op \notin K
    BY <1>2, Texts, NotRelocatable DEF Op, Operation, OpNames, Files, LibFiles, Lawful, Fatal
  <2>3. Piece(<<Op("raise", "lib64", <<>>)>>, o, K) /\ Piece(<<Op("linkself", "lib64", <<>>)>>, o, K)
    BY <2>1, <2>2, PieceSingle
  <2>4. Piece(fix_lib64, o, K)
    BY <2>3, PieceIf DEF fix_lib64
  <2>5. Doomed(<<Op("raise", "lib64", <<>>)>>) /\ Ahead(<<LinkLib64>>, LinkLib64)
    BY <2>1, <2>2, Single DEF LinkLib64
  <2>6. fix_lib64 = If(host.lib64, IF host.platform \in {"pypy", "win32", "jython"}
                                     THEN <<Op("raise", "lib64", <<>>)>> ELSE <<LinkLib64>>)
    BY DEF fix_lib64, LinkLib64
  <2>7. Lib64On(fix_lib64)
    BY <2>5, <2>6, Zenon DEF Lib64On, If
  <2> QED
    BY <2>4, <2>7
<1>4. Piece(fix_local_scheme, o, K) /\ (host.local => Ahead(fix_local_scheme, LinkLocal))
  <2>2. Op("linkself", "local", <<>>) \in Operation /\ Lawful(Op("linkself", "local", <<>>), o)
        /\ Op("linkself", "local", <<>>).op \notin K
    BY <1>2, Texts, NotRelocatable DEF Op, Operation, OpNames, Files, LibFiles, Lawful, Fatal
  <2>3. Piece(<<LinkLocal>>, o, K) /\ Ahead(<<LinkLocal>>, LinkLocal)
    BY <2>2, PieceSingle DEF LinkLocal
  <2>4. fix_local_scheme = If(host.local, <<LinkLocal>>)
    BY DEF fix_local_scheme, LinkLocal
  <2> QED
    BY <2>3, <2>4, PieceIf DEF If
<1>5. ASSUME NEW f \in {"stdlib", "include"} PROVE Piece(Copy(f), o, K)
  <2> DEFINE p == Op("copyfile", f, Source(f).text)
  <2>1. f \in Files /\ Source(f).text = <<"/", "usr", f>>
    BY <1>2 DEF Source
  <2>2. p \in Operation /\ Lawful(p, o) /\ p.op \notin K
    BY <1>2, <1>5, <2>1, Texts, NotRelocatable DEF Op, Operation, OpNames, Files, LibFiles, Lawful, Fatal
  <2> QED
    BY <2>2, PieceSingle DEF Copy
<1>6. \A p \in Duties(o) : Piece(<<p>>, o, K) /\ Ahead(<<p>>, p)
  BY DutiesLawful, PieceSingle
<1>7. WriteSite \in Duties(o) /\ WritePrefix \in Duties(o) /\ Flagging(o) \in Duties(o)
  BY DEF Duties
<1>8. /\ Write("site", <<"SITE_PY">>) = <<WriteSite>> /\ Write("orig_prefix", RealPrefix) = <<WritePrefix>>
      /\ site_packages_flag(o) = <<Flagging(o)>>
  BY DEF Write, WriteSite, WritePrefix, site_packages_flag, Flagging
<1>9. /\ Piece(Write("site", <<"SITE_PY">>), o, K) /\ Ahead(Write("site", <<"SITE_PY">>), WriteSite)
      /\ Piece(Write("orig_prefix", RealPrefix), o, K)
      /\ Ahead(Write("orig_prefix", RealPrefix), WritePrefix)
      /\ Piece(site_packages_flag(o), o, K) /\ Ahead(site_packages_flag(o), Flagging(o))
  BY <1>6, <1>7, <1>8
<1>10. Piece(copy_required_modules, o, K) /\ Piece(Copy("include"), o, K)
  BY <1>5 DEF copy_required_modules
<1> QED
  BY <1>3, <1>4, <1>9, <1>10

LEMMA LastPieces ==
  ASSUME host \in Hosts, home \in Homes, NEW o \in Options, ~o.relocatable
  PROVE  /\ Piece(exec_prefix_files(o), o, {"rmtree"}) /\ Piece(jython_files, o, {"rmtree"})
         /\ Piece(executables(o), o, {"rmtree"})
         /\ Piece(framework_files(o), o, {"rmtree"})
         /\ host.platform = "framework" => Ahead(framework_files(o), Dylib)
<1> DEFINE K == {"rmtree"}
           e == py_executable(o)
<1>1. /\ {"flag", "jars", "python", "dylib", "python2.6"} \subseteq Files
      /\ e \in Files /\ expected_exe \in Files /\ e \in Executables /\ expected_exe \in Executables
      /\ {"python", "python2.6"} \subseteq Executables
  BY Given DEF Files, LibFiles, Executables
<1> HIDE DEF e
<1>2. Piece(exec_prefix_files(o), o, K)
  <2> DEFINE p == Op("copyfile", "flag", Source("flag").text)
  <2>1. Source("flag").text = <<"/", "usr", "flag">>
    BY DEF Source
  <2>2. ASSUME o.by = "outer", host.outer_flag PROVE p \in Operation /\ Lawful(p, o) /\ p.op \notin K
    BY <1>1, <2>1, <2>2, Texts, NotRelocatable DEF Op, Operation, OpNames, Files, LibFiles, Lawful, Fatal
  <2>3. ASSUME o.by = "outer", host.outer_flag PROVE Piece(Copy("flag"), o, K)
    BY <2>2, <2>3, PieceSingle DEF Copy
  <2> DEFINE q == Op("linkdir", "distutils", <<>>)
             d == If(host.outer_flag, Copy("flag"))
  <2>4. q \in Operation /\ Lawful(q, o) /\ q.op \notin K
    BY Texts, NotRelocatable DEF Op, Operation, OpNames, Files, LibFiles, Lawful, Fatal
  <2> HIDE DEF q
  <2>5. ASSUME o.by = "outer" PROVE Piece(d, o, K)
    BY <2>3, <2>5, PieceIf
  <2>6. Piece(<<q>>, o, K)
    BY <2>4, PieceSingle
  <2> HIDE DEF d
  <2>7. ASSUME o.by = "outer" PROVE Piece(d \o <<q>>, o, K)
    BY <2>5, <2>6, <2>7, PiecesJoined
  <2>8. exec_prefix_files(o) = If(o.by = "outer" /\ host.platform # "pypy", d \o <<q>>)
    BY DEF exec_prefix_files, d, q
  <2> QED
    BY <2>7, <2>8, PieceIf
<1>3. Piece(jython_files, o, K)
  <2> DEFINE p == Op("copyfile", "jars", Source("jars").text)
  <2>1. Source("jars").text = <<"/", "usr", "jars">>
    BY DEF Source
  <2>2. p \in Operation /\ Lawful(p, o) /\ p.op \notin K
    BY <1>1, <2>1, Texts, NotRelocatable DEF Op, Operation, OpNames, Files, LibFiles, Lawful, Fatal
  <2>3. Piece(Copy("jars"), o, K)
    BY <2>2, PieceSingle DEF Copy
  <2> QED
    BY <2>3, PieceIf DEF jython_files
<1>4. Piece(executables(o), o, K)
  <2> DEFINE p1 == Op("executable", e, <<>>)
             p2 == Op("linkself", "python", <<>>)
             p3 == Op("secondary", expected_exe, <<>>)
             s2 == If(host.platform = "pypy" /\ e # "python", <<p2>>)
             s3 == If(e # expected_exe, <<p3>>)
  <2>1. p1 \in Operation /\ Lawful(p1, o) /\ p1.op \notin K
    BY <1>1, Texts, NotRelocatable DEF Op, Operation, OpNames, Files, LibFiles, Lawful, Fatal, e
  <2>2. p2 \in Operation /\ Lawful(p2, o) /\ p2.op \notin K
    BY <1>1, Texts, NotRelocatable DEF Op, Operation, OpNames, Files, LibFiles, Lawful, Fatal
  <2>3. p3 \in Operation /\ Lawful(p3, o) /\ p3.op \notin K
    BY <1>1, Texts, NotRelocatable DEF Op, Operation, OpNames, Files, LibFiles, Lawful, Fatal
  <2> HIDE DEF p1, p2, p3
  <2>4. Piece(<<p1>>, o, K) /\ Piece(s2, o, K) /\ Piece(s3, o, K)
    BY <2>1, <2>2, <2>3, PieceSingle, PieceIf
  <2> HIDE DEF s2, s3
  <2>5. Piece(<<p1>> \o s2 \o s3, o, K)
    BY <2>4, PiecesJoined
  <2> QED
    BY <2>5 DEF executables, p1, p2, p3, s2, s3, e
<1>5. Piece(framework_files(o), o, K) /\ (host.platform = "framework" => Ahead(framework_files(o), Dylib))
  <2> SUFFICES ASSUME host.platform = "framework"
               PROVE  Piece(framework_files(o), o, K) /\ Ahead(framework_files(o), Dylib)
    BY PieceNone DEF framework_files, If
  <2> DEFINE p1 == Op("framework_exe", e, <<>>)
             p3 == Op("copyfile", "dylib", Source("dylib").text)
             p4 == Op("tool", e, <<>>)
             p5 == Op("rename", OtherName(e), <<e>>)
  <2>1. p1 \in Operation /\ Lawful(p1, o) /\ p1.op \notin K
    BY <1>1, Texts, NotRelocatable DEF Op, Operation, OpNames, Files, LibFiles, Lawful, Fatal, e
  <2>2. Dylib \in Operation /\ Lawful(Dylib, o) /\ Dylib.op \notin K
    BY DutiesLawful
  <2>3. p3 \in Operation /\ Lawful(p3, o) /\ p3.op \notin K
    <3>1. Source("dylib").text = <<"/", "usr", "dylib">>
      BY DEF Source
    <3> QED
      BY <1>1, <3>1, Texts, NotRelocatable DEF Op, Operation, OpNames, Files, LibFiles, Lawful, Fatal
  <2>4. p4 \in Operation /\ Lawful(p4, o) /\ p4.op \notin K
    BY <1>1, Texts, NotRelocatable DEF Op, Operation, OpNames, Files, LibFiles, Lawful, Fatal, e
  <2>5. p5 \in Operation /\ Lawful(p5, o) /\ p5.op \notin K
    <3>1. OtherName(e) \in Executables /\ OtherName(e) \in Files
      BY <1>1 DEF OtherName
    <3> QED
      BY <1>1, <3>1, Texts, NotRelocatable DEF Op, Operation, OpNames, Files, LibFiles, Lawful, Fatal
  <2> HIDE DEF p1, p3, p4, p5
  <2>6. /\ Piece(<<p1>>, o, K) /\ Piece(<<Dylib>>, o, K) /\ Ahead(<<Dylib>>, Dylib)
        /\ Piece(<<p3>>, o, K) /\ Piece(<<p4>>, o, K) /\ Piece(<<p5>>, o, K)
    BY <2>1, <2>2, <2>3, <2>4, <2>5, PieceSingle
  <2>7. Piece(<<p1>> \o <<Dylib>>, o, K) /\ Ahead(<<p1>> \o <<Dylib>>, Dylib)
    BY <2>6, PiecesJoined
  <2>8. Piece(<<p1>> \o <<Dylib>> \o <<p3>>, o, K) /\ Ahead(<<p1>> \o <<Dylib>> \o <<p3>>, Dylib)
    BY <2>6, <2>7, PiecesJoined
  <2>9. Piece(<<p1>> \o <<Dylib>> \o <<p3>> \o <<p4>>, o, K) /\ Ahead(<<p1>> \o <<Dylib>> \o <<p3>> \o <<p4>>, Dylib)
    BY <2>6, <2>8, PiecesJoined
  <2>10. /\ Piece(<<p1>> \o <<Dylib>> \o <<p3>> \o <<p4>> \o <<p5>>, o, K)
         /\ Ahead(<<p1>> \o <<Dylib>> \o <<p3>> \o <<p4>> \o <<p5>>, Dylib)
    BY <2>6, <2>9, PiecesJoined
  <2>11. framework_files(o) = <<p1>> \o <<Dylib>> \o <<p3>> \o <<p4>> \o <<p5>>
    BY DEF framework_files, If, Copy, p1, Dylib, p3, p4, p5, e
  <2> QED
    BY <2>10, <2>11
<1> QED
  BY <1>2, <1>3, <1>4, <1>5

\* What install_files has on its list.
LEMMA InstallFiles ==
  ASSUME host \in Hosts, home \in Homes, NEW o \in Options, ~o.relocatable
  PROVE  /\ Piece(install_files(o), o, {"rmtree"}) /\ Lib64On(install_files(o))
         /\ host.local => Ahead(install_files(o), LinkLocal)
         /\ \A p \in {WriteSite, WritePrefix, Flagging(o), Testing(o)} : Ahead(install_files(o), p)
         /\ host.platform = "framework" => Ahead(install_files(o), Dylib)
         /\ Follows(install_files(o), ExeOps, Testing(o))
<1> DEFINE K == {"rmtree"}
           a1 == fix_lib64
           a2 == a1 \o fix_local_scheme
           a3 == a2 \o copy_required_modules
           a4 == a3 \o Write("site", <<"SITE_PY">>)
           a5 == a4 \o Write("orig_prefix", RealPrefix)
           a6 == a5 \o site_packages_flag(o)
           a7 == a6 \o Copy("include")
           a8 == a7 \o exec_prefix_files(o)
           a9 == a8 \o jython_files
           a10 == a9 \o executables(o)
           a11 == a10 \o framework_files(o)
           t == test_executable(o)
<1>1. install_files(o) = a11 \o t
  BY DEF install_files
<1>2. Piece(t, o, K) /\ Ahead(t, Testing(o)) /\ t = <<Testing(o)>>
  <2>1. t = <<Testing(o)>> /\ Testing(o) \in Duties(o)
    BY DEF test_executable, Testing, Duties
  <2> QED
    BY <2>1, DutiesLawful, PieceSingle
<1> HIDE DEF t
<1> DEFINE Links(s) == Lib64On(s) /\ (host.local => Ahead(s, LinkLocal))
<1>3. Piece(a1, o, K) /\ Lib64On(a1)
  BY FirstPieces
<1> HIDE DEF a1
<1>4. Piece(a2, o, K) /\ Links(a2)
  <2>1. Piece(fix_local_scheme, o, K) /\ (host.local => Ahead(fix_local_scheme, LinkLocal))
    BY FirstPieces
  <2>2. Piece(a2, o, K) /\ (host.local => Ahead(a2, LinkLocal))
    BY <1>3, <2>1, PiecesJoined
  <2>3. Lib64On(a2)
    BY <1>3, <2>1, Lib64Joined
  <2> QED
    BY <2>2, <2>3
<1> HIDE DEF a2
<1>a. ASSUME NEW a, NEW b, Piece(a, o, K), Piece(b, o, K), Links(a)
      PROVE  Links(a \o b)
  <2>1. \A p : Ahead(a \o b, p) <=> Ahead(a, p) \/ Ahead(b, p)
    BY <1>a, PiecesJoined
  <2>2. Lib64On(a \o b)
    BY <1>a, Lib64Joined
  <2> QED
    BY <1>a, <2>1, <2>2
<1> HIDE DEF Links
<1>5. Piece(a3, o, K) /\ Links(a3)
  BY <1>4, <1>a, FirstPieces, PiecesJoined
<1> HIDE DEF a3
<1>6. Piece(a4, o, K) /\ Ahead(a4, WriteSite) /\ Links(a4)
  BY <1>5, <1>a, FirstPieces, PiecesJoined
<1> HIDE DEF a4
<1>7. Piece(a5, o, K) /\ Ahead(a5, WriteSite) /\ Ahead(a5, WritePrefix) /\ Links(a5)
  <2>1. /\ Piece(Write("orig_prefix", RealPrefix), o, K)
        /\ Ahead(Write("orig_prefix", RealPrefix), WritePrefix)
    BY FirstPieces
  <2> QED
    BY <1>6, <1>a, <2>1, PiecesJoined
<1> HIDE DEF a5
<1>8. Piece(a6, o, K) /\ Links(a6) /\ \A p \in {WriteSite, WritePrefix, Flagging(o)} : Ahead(a6, p)
  <2>1. Piece(site_packages_flag(o), o, K) /\ Ahead(site_packages_flag(o), Flagging(o))
    BY FirstPieces
  <2> QED
    BY <1>7, <1>a, <2>1, PiecesJoined
<1> HIDE DEF a6
<1>9. Piece(a7, o, K) /\ Links(a7) /\ \A p \in {WriteSite, WritePrefix, Flagging(o)} : Ahead(a7, p)
  BY <1>8, <1>a, FirstPieces, PiecesJoined
<1> HIDE DEF a7
<1>10. Piece(a8, o, K) /\ Links(a8) /\ \A p \in {WriteSite, WritePrefix, Flagging(o)} : Ahead(a8, p)
  BY <1>9, <1>a, LastPieces, PiecesJoined
<1> HIDE DEF a8
<1>11. Piece(a9, o, K) /\ Links(a9) /\ \A p \in {WriteSite, WritePrefix, Flagging(o)} : Ahead(a9, p)
  BY <1>10, <1>a, LastPieces, PiecesJoined
<1> HIDE DEF a9
<1>12. Piece(a10, o, K) /\ Links(a10) /\ \A p \in {WriteSite, WritePrefix, Flagging(o)} : Ahead(a10, p)
  BY <1>11, <1>a, LastPieces, PiecesJoined
<1> HIDE DEF a10
<1>13. /\ Piece(a11, o, K) /\ Links(a11) /\ \A p \in {WriteSite, WritePrefix, Flagging(o)} : Ahead(a11, p)
       /\ host.platform = "framework" => Ahead(a11, Dylib)
  BY <1>12, <1>a, LastPieces, PiecesJoined
<1> HIDE DEF a11
<1>14. /\ Piece(a11 \o t, o, K)
       /\ \A p \in {WriteSite, WritePrefix, Flagging(o), Testing(o)} : Ahead(a11 \o t, p)
       /\ host.platform = "framework" => Ahead(a11 \o t, Dylib)
  <2>1. Piece(a11 \o t, o, K) /\ \A p : Ahead(a11 \o t, p) <=> Ahead(a11, p) \/ Ahead(t, p)
    BY <1>2, <1>13, PiecesJoined
  <2> QED
    BY <1>2, <1>13, <2>1
<1>15. Follows(a11 \o t, ExeOps, Testing(o))
  <2>1. Testing(o) \in Operation /\ Testing(o).op = "test"
    BY DutiesLawful DEF Duties, Testing, Op
  <2>2. Without(t, ExeOps)
    BY <1>2, <2>1, Single DEF ExeOps
  <2>3. a11 \in Lists /\ t \in Lists
    BY <1>2, <1>13 DEF Piece
  <2> QED
    BY <1>2, <2>2, <2>3, FollowsJoined
<1>16. Links(a11 \o t)
  BY <1>2, <1>13, <1>a
<1> QED
  BY <1>1, <1>14, <1>15, <1>16 DEF Links

\* What comes after it undoes nothing.
Undoing == {"rmtree"} \union ExeOps

LEMMA LaterPieces ==
  ASSUME host \in Hosts, home \in Homes, NEW o \in Options, ~o.relocatable
  PROVE  /\ Piece(install_distutils, o, Undoing) /\ Ahead(install_distutils, WriteDistutils)
         /\ Piece(_install_req(o), o, Undoing) /\ Ahead(_install_req(o), Installing(o))
         /\ Piece(install_pip, o, Undoing) /\ Ahead(install_pip, InstallingPip)
         /\ Piece(install_activate(o), o, Undoing) /\ Ahead(install_activate(o), WriteActivate(o))
<1>1. /\ {"writefile", "writenew", "call"} \intersect Undoing = {}
      /\ {WriteDistutils, Installing(o), InstallingPip, WriteActivate(o)} \subseteq Duties(o)
  BY DEF Undoing, ExeOps, Duties
<1>2. \A p \in {WriteDistutils, Installing(o), InstallingPip, WriteActivate(o)} :
        Piece(<<p>>, o, Undoing) /\ Ahead(<<p>>, p)
  BY <1>1, DutiesLawful, PieceSingle
<1>3. /\ Piece(install_distutils, o, Undoing) /\ Ahead(install_distutils, WriteDistutils)
  <2> DEFINE p == Op("writenew", "distutils_cfg", <<"DISTUTILS_CFG">>)
  <2>1. p \in Operation /\ Lawful(p, o) /\ p.op \notin Undoing
    BY Texts, NotRelocatable DEF Op, Operation, OpNames, Files, LibFiles, Lawful, Undoing, ExeOps
  <2> HIDE DEF p
  <2>2. Piece(<<p>>, o, Undoing) /\ Piece(<<WriteDistutils>>, o, Undoing)
        /\ Ahead(<<WriteDistutils>>, WriteDistutils)
    BY <1>2, <2>1, PieceSingle
  <2>3. Piece(<<WriteDistutils>> \o <<p>>, o, Undoing) /\ Ahead(<<WriteDistutils>> \o <<p>>, WriteDistutils)
    BY <2>2, PiecesJoined
  <2> QED
    BY <2>3 DEF install_distutils, Write, WriteDistutils, p
<1>4. /\ _install_req(o) = <<Installing(o)>> /\ install_pip = <<InstallingPip>>
      /\ install_activate(o) = <<WriteActivate(o)>>
  BY DEF _install_req, Installing, install_pip, InstallingPip, install_activate, Write, WriteActivate
<1> QED
  BY <1>2, <1>3, <1>4

\* Putting b behind a keeps what follows in a.
LEMMA Behind ==
  ASSUME NEW a, NEW b, NEW o, NEW K, NEW L, Piece(a, o, K), Piece(b, o, L),
         NEW P, NEW J, J \subseteq L, \A p \in P : Follows(a, J, p) \/ Ahead(b, p)
  PROVE  \A p \in P : Follows(a \o b, J, p)
<1>1. Without(b, J) /\ a \in Lists /\ b \in Lists
  BY DEF Piece, Without
<1> QED
  BY <1>1, FollowsJoined

LEMMA Weaker ==
  ASSUME NEW s, NEW o, NEW K, NEW L, Piece(s, o, L), K \subseteq L
  PROVE  Piece(s, o, K)
  BY DEF Piece, Without

\* A list of o with the duties P on it, which nothing on it undoes.
Good(s, o, P) ==
  /\ Piece(s, o, {}) /\ \A p \in P : Ahead(s, p) /\ Follows(s, {"rmtree"}, p)
  /\ o.clear => Ahead(s, Clearing)
  /\ host.platform = "framework" => Ahead(s, Dylib)
  /\ Follows(s, ExeOps, Testing(o)) /\ Lib64On(s)

LEMMA GoodJoined ==
  ASSUME NEW a, NEW s, NEW P, NEW q, NEW o, Good(a, o, P), Piece(s, o, Undoing), Ahead(s, q)
  PROVE  Good(a \o s, o, P \union {q})
<1>1. {"rmtree"} \subseteq Undoing /\ ExeOps \subseteq Undoing /\ {} \subseteq Undoing
  BY DEF Undoing
<1>2. Piece(a, o, {}) /\ Piece(s, o, {})
  BY <1>1, Weaker DEF Good
<1>3. Piece(a \o s, o, {}) /\ \A p : Ahead(a \o s, p) <=> Ahead(a, p) \/ Ahead(s, p)
  BY <1>2, PiecesJoined
<1>4. \A p \in P \union {q} : Follows(a \o s, {"rmtree"}, p)
  <2>1. \A p \in P \union {q} : Follows(a, {"rmtree"}, p) \/ Ahead(s, p)
    BY DEF Good
  <2> QED
    BY <1>1, <1>2, <2>1, Behind
<1>5. \A p \in {Testing(o)} : Follows(a \o s, ExeOps, p)
  <2>1. \A p \in {Testing(o)} : Follows(a, ExeOps, p) \/ Ahead(s, p)
    BY DEF Good
  <2> QED
    BY <1>1, <1>2, <2>1, Behind
<1>6. Lib64On(a \o s)
  BY <1>2, Lib64Joined DEF Good
<1> QED
  BY <1>3, <1>4, <1>5, <1>6 DEF Good

\* A creation that the interpreter of another computer or environment runs.
LEMMA CreationGood ==
  ASSUME host \in Hosts, home \in Homes, NEW o \in Options, ~o.relocatable,
         ~(o.by = "env" /\ o.dest = "absolute")
  PROVE  /\ create_environment(o) \in Lists /\ AllLawful(create_environment(o), o)
         /\ Order(create_environment(o), o)
         /\ \A p \in Duties(o) : Ahead(create_environment(o), p)
         /\ o.clear => Ahead(create_environment(o), Clearing)
         /\ host.platform = "framework" => Ahead(create_environment(o), Dylib)
         /\ Lib64On(create_environment(o))
<1> DEFINE c == If(o.clear, <<Clearing>>)
           i == install_files(o)
           b1 == c \o i
           b2 == b1 \o install_distutils
           b3 == b2 \o _install_req(o)
           b4 == b3 \o install_pip
           b5 == b4 \o install_activate(o)
           R == {"rmtree"}
           Di == {WriteSite, WritePrefix, Flagging(o), Testing(o)} \union {p \in {LinkLocal} : host.local}
<1>1. create_environment(o) = b5
  BY DEF create_environment, install_python, Clearing
<1>2. Piece(c, o, ExeOps) /\ (o.clear => Ahead(c, Clearing))
  <2>a. Clearing \in Operation /\ Clearing.op = "rmtree" /\ (o.clear => Lawful(Clearing, o))
    BY DutiesLawful
  <2>1. o.clear => Piece(<<Clearing>>, o, ExeOps) /\ Ahead(<<Clearing>>, Clearing)
    BY <2>a, PieceSingle DEF ExeOps
  <2> QED
    BY <2>1, PieceIf, PieceNone DEF If
<1>3. /\ Piece(i, o, R) /\ \A p \in Di : Ahead(i, p)
      /\ host.platform = "framework" => Ahead(i, Dylib)
      /\ Follows(i, ExeOps, Testing(o)) /\ Lib64On(i)
  BY InstallFiles
<1> HIDE DEF c, i
<1>4. Good(b1, o, Di)
  <2>1. Piece(c, o, {}) /\ Piece(i, o, {})
    BY <1>2, <1>3, Weaker
  <2>2. Piece(b1, o, {}) /\ \A p : Ahead(b1, p) <=> Ahead(c, p) \/ Ahead(i, p)
    BY <2>1, PiecesJoined
  <2>3. \A p \in Di : Follows(b1, R, p)
    BY <1>2, <1>3, Behind
  <2>4. Follows(b1, ExeOps, Testing(o))
    <3>1. Without(c, ExeOps) /\ c \in Lists /\ i \in Lists
      BY <1>2, <1>3 DEF Piece
    <3> QED
      BY <1>3, <3>1, FollowsBehind
  <2>5. Lib64On(b1)
    BY <1>3, <2>1, Lib64Joined
  <2> HIDE DEF b1
  <2> QED
    BY <1>2, <1>3, <2>2, <2>3, <2>4, <2>5 DEF Good
<1> HIDE DEF b1, Di
<1>5. Good(b2, o, Di \union {WriteDistutils})
  BY <1>4, LaterPieces, GoodJoined
<1> HIDE DEF b2
<1>6. Good(b3, o, Di \union {WriteDistutils} \union {Installing(o)})
  BY <1>5, LaterPieces, GoodJoined
<1> HIDE DEF b3
<1>7. Good(b4, o, Di \union {WriteDistutils} \union {Installing(o)} \union {InstallingPip})
  BY <1>6, LaterPieces, GoodJoined
<1> HIDE DEF b4
<1>8. Good(b5, o, Di \union {WriteDistutils} \union {Installing(o)} \union {InstallingPip}
                  \union {WriteActivate(o)})
  BY <1>7, LaterPieces, GoodJoined
<1> HIDE DEF b5
<1>9. \A p \in Duties(o) : p \in Di \union {WriteDistutils} \union {Installing(o)}
                                  \union {InstallingPip} \union {WriteActivate(o)}
  BY DEF Duties, Di
<1> QED
  BY <1>1, <1>8, <1>9 DEF Good, Order, Piece

\* The interpreter of the environment itself gives up at once.
LEMMA CreationRefused ==
  ASSUME host \in Hosts, home \in Homes, NEW o \in Options, ~o.relocatable,
         o.by = "env" /\ o.dest = "absolute"
  PROVE  /\ create_environment(o) \in Lists /\ AllLawful(create_environment(o), o)
         /\ Order(create_environment(o), o) /\ Begins(create_environment(o))
         /\ Doomed(create_environment(o))
<1> DEFINE p == Op("raise", "python", <<>>)
           b1 == <<p>>
           b2 == b1 \o install_distutils
           b3 == b2 \o _install_req(o)
           b4 == b3 \o install_pip
           b5 == b4 \o install_activate(o)
           U == Undoing
<1>1. create_environment(o) = b5
  BY DEF create_environment, install_python
<1>2. Piece(b1, o, U) /\ Begins(b1)
  <2>1. p \in Operation /\ p.op \in Fatal /\ p.op \notin U
    BY Texts DEF Op, Operation, OpNames, Files, Executables, Fatal, Undoing, ExeOps
  <2>2. Head(b1) = p /\ b1 # <<>>
    OBVIOUS
  <2> HIDE DEF p
  <2> QED
    BY <2>1, <2>2, PieceSingle DEF Begins
<1> HIDE DEF p, b1
<1>3. ASSUME NEW a, NEW b, Piece(a, o, U), Piece(b, o, U), Begins(a)
      PROVE  Piece(a \o b, o, U) /\ Begins(a \o b)
  <2>1. a \in Lists /\ b \in Lists
    BY <1>3 DEF Piece
  <2> QED
    BY <1>3, <2>1, PiecesJoined, BeginsJoined
<1>4. Piece(b2, o, U) /\ Begins(b2)
  BY <1>2, <1>3, LaterPieces
<1> HIDE DEF b2
<1>5. Piece(b3, o, U) /\ Begins(b3)
  BY <1>3, <1>4, LaterPieces
<1> HIDE DEF b3
<1>6. Piece(b4, o, U) /\ Begins(b4)
  BY <1>3, <1>5, LaterPieces
<1> HIDE DEF b4
<1>7. Piece(b5, o, U) /\ Begins(b5)
  BY <1>3, <1>6, LaterPieces
<1> HIDE DEF b5
<1>8. Without(b5, {"rmtree"}) /\ Without(b5, ExeOps) /\ b5 \in Lists /\ AllLawful(b5, o)
  BY <1>7 DEF Piece, Without, Undoing
<1>9. Doomed(b5)
  BY <1>7, <1>8, BeginsJoined, None
<1>10. Order(b5, o)
  BY <1>8, NothingFollows DEF Order
<1> QED
  BY <1>1, <1>7, <1>8, <1>9, <1>10

LEMMA RelocationGood ==
  ASSUME host \in Hosts, home \in Homes, NEW o \in Options, o.relocatable
  PROVE  /\ Piece(make_environment_relocatable(o), o, {})
         /\ ~Doomed(make_environment_relocatable(o)) /\ o.by = "env" =>
              \A p \in Fixups : Ahead(make_environment_relocatable(o), p)
<1> DEFINE r == Op("raise", "python", <<>>)
           s1 == Op("fixup_script", "easy_install", <<>>)
           s2 == Op("fixup_script", "pip", <<>>)
           s3 == Op("fixup_script", "script", <<>>)
           s4 == Op("fixup_pth_file", "pth", <<>>)
           e == \A f \in Executables : fs[f].is = "absent"
<1>1. o.relocatable = TRUE
  <2>1. o.relocatable \in BOOLEAN
    BY Given DEF Option
  <2> QED
    BY <2>1
<1>2. r \in Operation /\ r.op \in Fatal
  BY Texts DEF Op, Operation, OpNames, Files, Executables, Fatal
<1>3. /\ s1 \in Operation /\ s2 \in Operation /\ s3 \in Operation /\ s4 \in Operation
      /\ Lawful(s1, o) /\ Lawful(s2, o) /\ Lawful(s3, o) /\ Lawful(s4, o)
  BY <1>1, Texts DEF Op, Operation, OpNames, Files, LibFiles, Scripts, Lawful
<1>4. \A p \in Fixups : p = s1 \/ p = s2 \/ p = s3 \/ p = s4
  BY DEF Fixups, Scripts
<1>5. make_environment_relocatable(o) =
        IF e THEN <<r>> ELSE <<s1, s2, s3>> \o If(o.by = "env", <<s4>>)
  BY DEF make_environment_relocatable, fixup_scripts, fixup_pth_and_egg_link
<1> HIDE DEF r, s1, s2, s3, s4, e
<1>6. Piece(<<r>>, o, {}) /\ Doomed(<<r>>)
  BY <1>2, PieceSingle, Single
<1>7. Piece(<<s1, s2, s3>>, o, {}) /\ Ahead(<<s1, s2, s3>>, s1) /\ Ahead(<<s1, s2, s3>>, s2)
      /\ Ahead(<<s1, s2, s3>>, s3)
  <2> DEFINE s == <<s1, s2, s3>>
  <2>1. s \in Seq(Operation) /\ DOMAIN s = {1, 2, 3} /\ s[1] = s1 /\ s[2] = s2 /\ s[3] = s3
    BY <1>3
  <2> HIDE DEF s
  <2>2. \A i \in DOMAIN s : s[i].op \in Fatal \/ Lawful(s[i], o)
    BY <1>3, <2>1
  <2>3. Ahead(s, s1) /\ Ahead(s, s2) /\ Ahead(s, s3)
    BY <2>1 DEF Ahead
  <2> QED
    BY <2>1, <2>2, <2>3 DEF Piece, AllLawful, Without, Lists, s
<1>8. Piece(If(o.by = "env", <<s4>>), o, {}) /\ (o.by = "env" => Ahead(If(o.by = "env", <<s4>>), s4))
  <2>1. Piece(<<s4>>, o, {}) /\ Ahead(<<s4>>, s4)
    BY <1>3, PieceSingle
  <2> QED
    BY <2>1, PieceIf DEF If
<1> DEFINE t == If(o.by = "env", <<s4>>)
           s == <<s1, s2, s3>>
<1> HIDE DEF t, s
<1>9. Piece(s \o t, o, {}) /\ \A p : Ahead(s \o t, p) <=> Ahead(s, p) \/ Ahead(t, p)
  BY <1>7, <1>8, PiecesJoined DEF s, t
<1>10. make_environment_relocatable(o) = IF e THEN <<r>> ELSE s \o t
  BY <1>5 DEF s, t
<1>11. Ahead(s, s1) /\ Ahead(s, s2) /\ Ahead(s, s3) /\ (o.by = "env" => Ahead(t, s4))
  BY <1>7, <1>8 DEF s, t
<1> QED
  BY <1>4, <1>6, <1>9, <1>10, <1>11

LEMMA MainGood ==
  ASSUME host \in Hosts, home \in Homes, NEW o \in Options
  PROVE  Program(main(o), o) /\ (~Doomed(main(o)) => Complete(main(o), o))
<1> DEFINE r == resolve_interpreter(o)
           p == Op("exit_3", "python", <<>>)
           U == Undoing
<1>1. Piece(r, o, U) /\ (r = <<>> \/ Begins(r))
  <2>1. p \in Operation /\ p.op \in Fatal /\ p.op \notin U
    BY Texts DEF Op, Operation, OpNames, Files, Executables, Fatal, Undoing, ExeOps
  <2>2. Head(<<p>>) = p /\ <<p>> # <<>>
    OBVIOUS
  <2>3. r = If(o.python = "missing", <<p>>)
    BY DEF resolve_interpreter
  <2> HIDE DEF p
  <2>4. Piece(<<p>>, o, U) /\ Begins(<<p>>)
    BY <2>1, <2>2, PieceSingle DEF Begins
  <2> HIDE DEF r
  <2> QED
    BY <2>3, <2>4, PieceIf DEF If
<1> HIDE DEF r, p
<1>2. /\ r \in Lists /\ AllLawful(r, o) /\ Without(r, {"rmtree"}) /\ Without(r, ExeOps)
  BY <1>1 DEF Piece, Without, Undoing
<1>3. CASE o.relocatable
  <2> DEFINE s == make_environment_relocatable(o)
  <2>1. main(o) = r \o s
    BY <1>3 DEF main, r
  <2>2. s \in Lists /\ AllLawful(s, o) /\ (~Doomed(s) /\ o.by = "env" => \A q \in Fixups : Ahead(s, q))
    BY <1>3, RelocationGood DEF Piece
  <2> HIDE DEF s
  <2>3. /\ r \o s \in Lists /\ AllLawful(r \o s, o)
        /\ ~Doomed(r \o s) /\ o.by = "env" => \A q \in Fixups : Ahead(r \o s, q)
    BY <1>2, <2>2, Joined
  <2> QED
    BY <1>3, <2>1, <2>3 DEF Program, Complete, Lists, AllLawful
<1>4. CASE ~o.relocatable
  <2> DEFINE s == create_environment(o)
  <2>1. main(o) = r \o s
    BY <1>4 DEF main, r
  <2>2. s \in Lists /\ AllLawful(s, o) /\ Order(s, o)
    BY <1>4, CreationGood, CreationRefused
  <2>3. o.by = "env" /\ o.dest = "absolute" => Begins(s) /\ Doomed(s)
    BY <1>4, CreationRefused
  <2>4. ~Doomed(s) => Complete(s, o)
    BY <1>4, <2>3, CreationGood DEF Complete, Lib64On
  <2> HIDE DEF s
  <2>5. /\ r \o s \in Lists /\ AllLawful(r \o s, o)
        /\ Doomed(r \o s) <=> Doomed(r) \/ Doomed(s)
        /\ \A q : Ahead(s, q) => Ahead(r \o s, q)
    BY <1>2, <2>2, Joined
  <2>6. Order(r \o s, o)
    <3>1. \A q \in Duties(o) : Follows(r \o s, {"rmtree"}, q)
      BY <1>2, <2>2, FollowsBehind DEF Order
    <3>2. Follows(r \o s, ExeOps, Testing(o))
      BY <1>2, <2>2, FollowsBehind DEF Order
    <3> QED
      BY <3>1, <3>2 DEF Order
  <2>7. o.by = "env" /\ o.dest = "absolute" => Begins(r \o s)
    BY <1>1, <1>2, <2>2, <2>3, BeginsJoined
  <2>8. ~Doomed(r \o s) => Complete(r \o s, o)
    BY <1>4, <2>4, <2>5 DEF Complete
  <2> QED
    BY <1>4, <2>1, <2>5, <2>6, <2>7, <2>8 DEF Program, Lists, AllLawful, Begins
<1> QED
  BY <1>3, <1>4

-----------------------------------------------------------------------------
(* What a step of a run does. *)

\* How the operation p may change the file f.
Changes(p, f) ==
  \/ p.op = "copyfile" /\ f = p.file /\ fs'[f] = Source(f)
  \/ p.op = "linkself" /\ f = p.file /\ fs'[f] = LinkTo(home)
  \/ /\ p.op = "linkdir" /\ f \in {"distutils", "distutils_cfg"}
     /\ fs[f].is = "absent" /\ fs'[f].is = "text"
  \/ p.op = "writefile" /\ f = p.file /\ fs'[f] = Text(p.text)
  \/ p.op = "writenew" /\ f = p.file /\ fs'[f] = Text(p.text) /\ fs[f].is = "absent"
  \/ p.op = "unlink" /\ f = p.file /\ fs'[f] = Absent
  \/ p.op = "rmtree" /\ f \in path_locations /\ fs'[f] = Absent
  \/ p.op \in {"executable", "secondary", "framework_exe"} /\ f \in Executables /\ fs'[f] = Binary
  \/ p.op = "rename" /\ f = p.file /\ fs'[f] = NameLink(p.text[1])
  \/ p.op = "call" /\ f \in {"setuptools", "easy_install", "pip", "pth"} /\ fs'[f].is = "text"
  \/ p.op = "fixup_script" /\ f = p.file /\ fs'[f] = fixup_script(fs[f], home)
  \/ p.op = "fixup_pth_file" /\ f = p.file /\ fs'[f] = fixup_line(fs[f], PthFile(home))

\* What has come of it afterwards.
Result(p) ==
  /\ p.op = "writefile" => /\ fs'[p.file].is \notin {"absent", "torn"}
                           /\ p.file \in Plain => fs'[p.file] = Text(p.text)
  /\ p.op = "unlink" => fs'[p.file] = Absent
  /\ p.op = "rmtree" => \A f \in path_locations : fs'[f] = Absent
  /\ p.op = "test" => Runs(p.file)
  /\ p.op = "linkself" => \/ fs'[p.file] = LinkTo(home)
                          \/ fs'[p.file] = fs[p.file] /\ Exists(fs[p.file], home)
  /\ p.op = "call" => fs' \in Installed(p.file)
  /\ p.op = "fixup_script" => fs'[p.file] = fixup_script(fs[p.file], home)
  /\ p.op = "fixup_pth_file" => fs'["pth"] = fixup_line(fs["pth"], PthFile(home))

Consumes ==
  /\ status = "running" /\ todo # <<>> /\ Head(todo).op \notin Fatal
  /\ Head(todo).op # "rmtree" => UNCHANGED dev
  /\ dev' \in {dev, "none"}
  /\ todo' = Tail(todo) /\ UNCHANGED <<status, opts, downloads, relocated, host, home, acts>>
  /\ fs' \in [Files -> File]
  /\ \A f \in Files : fs'[f] = fs[f] \/ Changes(Head(todo), f)
  /\ Result(Head(todo))

Fails ==
  /\ status = "running" /\ status' \in {"raised", "exit_1", "exit_3", "exit_100"} /\ todo' = <<>>
  /\ UNCHANGED <<opts, downloads, relocated, fs, host, home, dev, acts>>

Stays == status = "running" /\ UNCHANGED <<fs, todo, status, opts, relocated, host, home, dev, acts>>

LEMMA Hd ==
  ASSUME Types, Listed, status = "running", todo # <<>>
  PROVE  /\ todo \in Lists /\ Head(todo) \in Operation
         /\ Head(todo).op \in Fatal \/ Lawful(Head(todo), opts)
         /\ host \in Hosts /\ home \in Homes /\ opts \in Options
         /\ fs \in [Files -> File]
         /\ \A f \in Plain : fs[f].is \in {"absent", "torn", "text"}
<1>1. todo \in Lists /\ AllLawful(todo, opts)
  BY DEF Listed, Program, Lists, AllLawful
<1>2. Head(todo) \in Operation /\ (Head(todo).op \in Fatal \/ Lawful(Head(todo), opts))
  BY <1>1, TailFacts
<1> QED
  BY <1>1, <1>2 DEF Types, Kinds

\* The values a file is given.
LEMMA Values ==
  ASSUME host \in Hosts, home \in Homes, NEW o \in Options
  PROVE  /\ \A f \in Files : Source(f) \in File /\ Source(f).is \in {"link", "copy"} /\ NameLink(f) \in File
         /\ LinkTo(home) \in File /\ Absent \in File /\ Torn \in File /\ Binary \in File
         /\ \A t \in Seq(Word) : Text(t) \in File
         /\ \A e \in Executables : Shebang(home, BinDir, e) \in Seq(Word)
         /\ NewShebang \in Seq(Word)
<1>1. /\ <<"@">> \in Seq(Word) /\ <<"#!">> \in Seq(Word) /\ NewShebang \in Seq(Word)
      /\ <<"/", "usr", "bin", "python">> \in Seq(Word) /\ <<>> \in Seq(Word)
  <2>1. /\ "/" \in Word /\ "usr" \in Word /\ "bin" \in Word /\ "python" \in Word /\ "@" \in Word
        /\ "#!" \in Word /\ "#!/usr/bin/env" \in Word /\ "activate_this.py" \in Word
    BY DEF Word, Part, Files, Executables
  <2>2. <<"@">> \in Seq(Word) /\ <<"#!">> \in Seq(Word)
    BY <2>1
  <2>3. NewShebang \in Seq(Word)
    BY <2>1 DEF NewShebang
  <2>4. <<"/", "usr", "bin", "python">> \in Seq(Word)
    BY <2>1
  <2> QED
    BY <2>2, <2>3, <2>4, Texts
<1>2. home \in Seq(Word) /\ BinDir \in Word
  <2>1. home \in Seq(Word) /\ BinDir \in Part /\ Part \subseteq Word
    BY Given
  <2> QED
    BY <2>1
<1>3. ASSUME NEW e \in Executables PROVE <<BinDir, e>> \in Seq(Word)
  <2>1. e \in Word
    BY <1>3 DEF Word, Files
  <2> QED
    BY <1>2, <2>1
<1>4. ASSUME NEW f \in Files
      PROVE  Source(f) \in File /\ Source(f).is \in {"link", "copy"} /\ NameLink(f) \in File
  <2>1. <<"/", "usr", f>> \in Seq(Word) /\ <<f>> \in Seq(Word)
    BY Texts
  <2> QED
    BY <2>1 DEF Source, File, NameLink
<1>5. Absent \in File /\ Torn \in File /\ Binary \in File
  BY <1>1 DEF Absent, Torn, Binary, File
<1>6. LinkTo(home) \in File
  <2>1. <<"@">> \o home \in Seq(Word)
    BY <1>1, <1>2, ConcatProperties
  <2> QED
    BY <2>1 DEF LinkTo, File
<1>7. \A t \in Seq(Word) : Text(t) \in File
  BY DEF Text, File
<1>8. ASSUME NEW e \in Executables PROVE Shebang(home, BinDir, e) \in Seq(Word)
  <2>1. <<"#!">> \o home \in Seq(Word)
    BY <1>1, <1>2, ConcatProperties
  <2>2. (<<"#!">> \o home) \o <<BinDir, e>> \in Seq(Word)
    BY <1>3, <2>1, ConcatProperties
  <2> QED
    BY <2>2 DEF Shebang
<1> QED
  BY <1>1, <1>4, <1>5, <1>6, <1>7, <1>8

\* One file is set.
LEMMA SetsOne ==
  ASSUME fs \in [Files -> File], NEW f \in Files, NEW v \in File, Sets(f, v)
  PROVE  /\ fs' \in [Files -> File] /\ fs'[f] = v /\ \A g \in Files : g # f => fs'[g] = fs[g]
         /\ todo' = Tail(todo)
         /\ UNCHANGED <<status, opts, downloads, relocated, host, home, acts, dev, logger>>
  BY DEF Sets, Goes, Steady

\* From one file that is set to Consumes.
LEMMA ConsumesOne ==
  ASSUME Types, Listed, status = "running", todo # <<>>, Head(todo).op \notin Fatal \union {"rmtree"},
         NEW f \in Files, NEW v \in File, Sets(f, v),
         fs'[f] = fs[f] \/ Changes(Head(todo), f), Result(Head(todo))
  PROVE  Consumes
<1>1. fs \in [Files -> File]
  BY DEF Types, Kinds
<1>2. /\ fs' \in [Files -> File] /\ \A g \in Files : g # f => fs'[g] = fs[g]
      /\ todo' = Tail(todo)
      /\ UNCHANGED <<status, opts, downloads, relocated, host, home, acts, dev, logger>>
  BY <1>1, SetsOne
<1>3. dev' \in {dev, "none"}
  BY <1>2
<1> QED
  BY <1>2, <1>3 DEF Consumes

LEMMA CopyFileDoes ==
  ASSUME Types, Listed, CopyFile PROVE Consumes
<1> DEFINE p == Head(todo)
           f == p.file
           v == copyfile(fs[f], Source(f), home)
<1>1. status = "running" /\ todo # <<>> /\ p.op = "copyfile" /\ Sets(f, v)
  BY DEF CopyFile, At, Current
<1>2. /\ f \in Files /\ fs \in [Files -> File] /\ host \in Hosts /\ home \in Homes /\ opts \in Options
  BY <1>1, Hd DEF Lawful, Fatal, Files, LibFiles
<1>3. v \in File /\ (v = fs[f] \/ v = Source(f))
  <2>1. Source(f) \in File
    BY <1>2, Values
  <2> QED
    BY <1>2, <2>1 DEF copyfile
<1>4. fs'[f] = v
  BY <1>1, <1>2, <1>3, SetsOne
<1>5. fs'[f] = fs[f] \/ Changes(p, f)
  BY <1>1, <1>3, <1>4 DEF Changes
<1>6. Result(p)
  BY <1>1 DEF Result
<1> HIDE DEF v
<1> QED
  BY <1>1, <1>2, <1>3, <1>5, <1>6, ConsumesOne DEF Fatal

LEMMA LinkSelfDoes ==
  ASSUME Types, Listed, LinkSelf PROVE Consumes \/ Fails
<1> DEFINE p == Head(todo)
           f == p.file
           v == copyfile(fs[f], LinkTo(home), home)
<1>1. status = "running" /\ todo # <<>> /\ p.op = "linkself" /\ (Raises \/ Sets(f, v))
  BY DEF LinkSelf, At, Current
<1>2. /\ f \in Files /\ fs \in [Files -> File] /\ host \in Hosts /\ home \in Homes /\ opts \in Options
  BY <1>1, Hd DEF Lawful, Fatal, Files, LibFiles, Executables
<1>3. v \in File /\ (v = fs[f] \/ v = LinkTo(home))
  <2>1. LinkTo(home) \in File
    BY <1>2, Values
  <2> QED
    BY <1>2, <2>1 DEF copyfile
<1>4. CASE Raises
  BY <1>1, <1>4 DEF Raises, Ends, Steady, Fails
<1>5. CASE Sets(f, v)
  <2>1. fs'[f] = v
    BY <1>2, <1>3, <1>5, SetsOne
  <2>2. fs'[f] = fs[f] \/ Changes(p, f)
    BY <1>1, <1>3, <2>1 DEF Changes
  <2>3. v = LinkTo(home) \/ (v = fs[f] /\ Exists(fs[f], home))
    BY DEF copyfile
  <2>4. Result(p)
    BY <1>1, <2>1, <2>3 DEF Result
  <2> HIDE DEF v
  <2> QED
    BY <1>1, <1>2, <1>3, <1>5, <2>2, <2>4, ConsumesOne DEF Fatal
<1> QED
  BY <1>1, <1>4, <1>5

LEMMA LinkDirDoes ==
  ASSUME Types, Listed, LinkDir PROVE Consumes
<1> DEFINE p == Head(todo)
           new == [fs EXCEPT !["distutils"] = Text(<<"DISTUTILS_INIT">>),
                             !["distutils_cfg"] = Text(<<"OUTER_CFG">>)]
<1>1. /\ status = "running" /\ todo # <<>> /\ p.op = "linkdir" /\ fs' = IF NoDistutils THEN new ELSE fs
      /\ todo' = Tail(todo) /\ UNCHANGED <<status, opts, downloads, relocated, host, home, acts, dev>>
  BY DEF LinkDir, At, Current, Goes, Steady
<1>2. /\ fs \in [Files -> File] /\ host \in Hosts /\ home \in Homes /\ opts \in Options
  BY <1>1, Hd
<1>3. /\ "distutils" \in Files /\ "distutils_cfg" \in Files
      /\ <<"DISTUTILS_INIT">> \in Seq(Word) /\ <<"OUTER_CFG">> \in Seq(Word)
  <2>1. "DISTUTILS_INIT" \in Word /\ "OUTER_CFG" \in Word
    BY DEF Word
  <2> QED
    BY <2>1 DEF Files, LibFiles
<1>4. Text(<<"DISTUTILS_INIT">>) \in File /\ Text(<<"OUTER_CFG">>) \in File
  BY <1>2, <1>3, Values
<1>5. /\ new \in [Files -> File]
      /\ new["distutils"].is = "text" /\ new["distutils_cfg"].is = "text"
      /\ \A f \in Files : f \notin {"distutils", "distutils_cfg"} => new[f] = fs[f]
  BY <1>2, <1>3, <1>4 DEF Text
<1> HIDE DEF new
<1>6. fs' \in [Files -> File] /\ \A f \in Files : fs'[f] = fs[f] \/ Changes(p, f)
  <2>1. CASE NoDistutils
    BY <1>1, <1>5, <2>1 DEF NoDistutils, Changes
  <2>2. CASE ~NoDistutils
    BY <1>1, <1>2, <2>2
  <2> QED
    BY <2>1, <2>2
<1>7. Result(p)
  BY <1>1 DEF Result
<1>8. dev' \in {dev, "none"} /\ p.op \notin Fatal
  BY <1>1 DEF Fatal
<1> QED
  BY <1>1, <1>6, <1>7, <1>8 DEF Consumes

LEMMA WriteFileDoes ==
  ASSUME Types, Listed, WriteFile PROVE Consumes
<1> DEFINE p == Head(todo)
           f == p.file
           v == writefile(fs[f], p.text, p.op = "writefile")
<1>1. status = "running" /\ todo # <<>> /\ p.op \in {"writefile", "writenew"} /\ Sets(f, v)
  BY DEF WriteFile, At, Current
<1>2. /\ f \in Files /\ fs \in [Files -> File] /\ host \in Hosts /\ home \in Homes /\ opts \in Options
      /\ p.text \in Seq(Word)
      /\ \A g \in Plain : fs[g].is \in {"absent", "torn", "text"}
  BY <1>1, Hd DEF Lawful, Fatal, Files, LibFiles, Operation
<1>3. Text(p.text) \in File /\ fs[f] \in File
  BY <1>2, Values
<1>4. v \in File /\ fs'[f] = v
  <2>1. v \in File
    BY <1>3 DEF writefile
  <2> QED
    BY <1>1, <1>2, <2>1, SetsOne
<1>5. fs'[f] = fs[f] \/ Changes(p, f)
  BY <1>1, <1>4 DEF Changes, writefile
<1>6. Result(p)
  <2>1. ASSUME p.op = "writefile"
        PROVE  fs'[f].is \notin {"absent", "torn"} /\ (f \in Plain => fs'[f] = Text(p.text))
    <3>1. CASE v = Text(p.text)
      BY <1>4, <3>1 DEF Text
    <3>2. CASE v # Text(p.text)
      <4>1. v = fs[f] /\ fs[f].is \notin {"absent", "torn"} /\ fs[f].text = p.text
        BY <2>1, <3>2 DEF writefile
      <4>2. f \in Plain => fs[f] = Text(p.text)
        <5>1. f \in Plain => fs[f].is = "text"
          BY <1>2, <4>1
        <5> QED
          BY <1>3, <4>1, <5>1 DEF Text, File
      <4> QED
        BY <1>4, <4>1, <4>2
    <3> QED
      BY <3>1, <3>2
  <2> QED
    BY <1>1, <2>1 DEF Result
<1> HIDE DEF v
<1> QED
  BY <1>1, <1>2, <1>4, <1>5, <1>6, ConsumesOne DEF Fatal

LEMMA UnlinkDoes ==
  ASSUME Types, Listed, Unlink PROVE Consumes
<1> DEFINE p == Head(todo)
           f == p.file
<1>1. status = "running" /\ todo # <<>> /\ p.op = "unlink" /\ Sets(f, Absent)
  BY DEF Unlink, At, Current
<1>2. /\ f \in Files /\ fs \in [Files -> File] /\ host \in Hosts /\ home \in Homes /\ opts \in Options
  BY <1>1, Hd DEF Lawful, Fatal, Files, LibFiles
<1>3. Absent \in File /\ fs'[f] = Absent
  <2>1. Absent \in File
    BY <1>2, Values
  <2> QED
    BY <1>1, <1>2, <2>1, SetsOne
<1>4. Changes(p, f)
  BY <1>1, <1>3 DEF Changes
<1>5. Result(p)
  BY <1>1, <1>3 DEF Result
<1> QED
  BY <1>1, <1>2, <1>3, <1>4, <1>5, ConsumesOne DEF Fatal

LEMMA RmtreeDoes ==
  ASSUME Types, Listed, Rmtree PROVE Consumes
<1> DEFINE p == Head(todo)
<1>1. /\ status = "running" /\ todo # <<>> /\ p.op = "rmtree"
      /\ fs' = [f \in Files |-> IF f \in path_locations THEN Absent ELSE fs[f]]
      /\ dev' = "none"
      /\ Goes /\ UNCHANGED <<host, home, acts, logger>>
  BY DEF Rmtree, At, Current
<1>2. fs \in [Files -> File] /\ Absent \in File /\ path_locations \subseteq Files
  <2>1. fs \in [Files -> File] /\ host \in Hosts /\ home \in Homes /\ opts \in Options
    BY <1>1, Hd
  <2> QED
    BY <2>1, Values DEF path_locations, Files
<1>3. fs' \in [Files -> File] /\ \A f \in Files : fs'[f] = fs[f] \/ (f \in path_locations /\ fs'[f] = Absent)
  BY <1>1, <1>2
<1>4. \A f \in Files : fs'[f] = fs[f] \/ Changes(p, f)
  BY <1>1, <1>3 DEF Changes
<1>5. Result(p)
  BY <1>1, <1>2 DEF Result
<1> QED
  BY <1>1, <1>3, <1>4, <1>5 DEF Consumes, Goes, Fatal

-----------------------------------------------------------------------------
(* Relative paths. *)

LinePart == Part \union {"..", "./"}

LEMMA NoSigns ==
  /\ "/" \notin Part /\ ".." \notin Part /\ "./" \notin Part /\ "/" \notin LinePart
  /\ Part \subseteq LinePart /\ LinePart \subseteq Word /\ ".." \in LinePart /\ "./" \in LinePart
  BY VirtualenvAssumption DEF VirtualenvAssumption, Part, LinePart, Word

LEMMA CommonIs ==
  ASSUME NEW p \in Seq(Part), NEW q \in Seq(Part)
  PROVE  /\ Common(p, q) \in 0..Len(p) /\ Common(p, q) <= Len(q)
         /\ SubSeq(p, 1, Common(p, q)) = SubSeq(q, 1, Common(p, q))
<1> DEFINE T == {n \in 0..Len(p) : n <= Len(q) /\ SubSeq(p, 1, n) = SubSeq(q, 1, n)}
<1>1. Len(p) \in Nat /\ Len(q) \in Nat
  OBVIOUS
<1>2. SubSeq(p, 1, 0) = <<>> /\ SubSeq(q, 1, 0) = <<>>
  BY SubSeqEmpty
<1>3. 0 \in T /\ T \subseteq 0..Len(p)
  BY <1>1, <1>2
<1> HIDE DEF T
<1>4. PICK m \in T : \A k \in T : k <= m
  BY <1>1, <1>3, GreatestBelow
<1>5. Max(T) \in T
  <2>1. \A x \in T, y \in T : x <= y => y >= x
    BY <1>3
  <2>2. \E x \in T : \A y \in T : x >= y
    BY <1>4, <2>1
  <2> QED
    BY <2>2 DEF Max
<1>6. Common(p, q) \in T
  BY <1>5 DEF Common, T
<1> QED
  BY <1>6 DEF T

\* How often a line leads upwards that begins by doing so.
LEMMA UpsIs ==
  ASSUME NEW s \in Seq(LinePart), NEW k \in 0..Len(s), \A i \in 1..k : s[i] = "..",
         \A i \in (k + 1)..Len(s) : s[i] # ".."
  PROVE  Ups(s) = k
<1>1. Len(s) \in Nat /\ DOMAIN s = 1..Len(s) /\ k \in Nat
  OBVIOUS
<1>2. \A i \in 1..Len(s) : i \in 1..k \/ i \in (k + 1)..Len(s)
  BY <1>1
<1>3. \A i \in 1..k : i \in 1..Len(s)
  BY <1>1
<1>4. {i \in DOMAIN s : s[i] = ".."} = 1..k
  BY <1>1, <1>2, <1>3
<1>5. Cardinality(1..k) = k
  <2>1. 1 \in Int /\ k \in Int /\ (IF 1 > k THEN 0 ELSE k - 1 + 1) = k
    BY <1>1
  <2> QED
    BY <2>1, FS_Interval
<1> QED
  BY <1>4, <1>5 DEF Ups

LEMMA Relative ==
  ASSUME NEW source \in Seq(Part), source # <<>>, NEW dest \in Seq(Part)
  PROVE  /\ make_relative_path(source, dest) \in Seq(LinePart)
         /\ ~IsAbs(make_relative_path(source, dest))
         /\ Resolve(source, make_relative_path(source, dest)) = dest
<1> DEFINE dir  == Front(source)
           n    == Common(dir, dest)
           k    == Len(dir) - n
           up   == [i \in 1..k |-> ".."]
           rest == SubSeq(dest, n + 1, Len(dest))
           full == up \o rest
           r    == IF full = <<>> THEN <<"./">> ELSE full
<1>1. make_relative_path(source, dest) = r
  BY DEF make_relative_path
<1>2. dir \in Seq(Part)
  <2>1. Len(source) \in Nat
    OBVIOUS
  <2>2. \A i \in 1..(Len(source) - 1) : source[i] \in Part
    OBVIOUS
  <2> QED
    BY <2>1, <2>2, SubSeqProperties DEF Front
<1> HIDE DEF dir
<1>3. n \in 0..Len(dir) /\ n <= Len(dest) /\ SubSeq(dir, 1, n) = SubSeq(dest, 1, n)
  BY <1>2, CommonIs
<1> HIDE DEF n
<1>4. /\ Len(dir) \in Nat /\ Len(dest) \in Nat /\ n \in Nat
      /\ k \in Nat /\ Len(dir) - k = n
  BY <1>2, <1>3
<1> HIDE DEF k
<1>5. up \in Seq(LinePart) /\ Len(up) = k /\ \A i \in 1..k : up[i] = ".."
  BY <1>4, NoSigns
<1> HIDE DEF up
<1>6. /\ rest \in Seq(Part) /\ Len(rest) = Len(dest) - n
  <2>1. \A i \in (n + 1)..Len(dest) : dest[i] \in Part
    BY <1>4
  <2>2. Len(rest) = IF n + 1 <= Len(dest) THEN Len(dest) - (n + 1) + 1 ELSE 0
    BY <1>4, <2>1, SubSeqProperties
  <2>3. rest \in Seq(Part)
    BY <1>4, <2>1, SubSeqProperties
  <2> HIDE DEF rest
  <2> QED
    BY <1>3, <1>4, <2>2, <2>3
<1> HIDE DEF rest
<1>7. rest \in Seq(LinePart) /\ \A i \in 1..Len(rest) : rest[i] \in Part
  BY <1>6, NoSigns
<1>8. /\ full \in Seq(LinePart) /\ Len(full) = k + Len(rest)
      /\ \A i \in 1..(k + Len(rest)) : full[i] = IF i <= k THEN up[i] ELSE rest[i - k]
  BY <1>5, <1>7, ConcatProperties
<1> HIDE DEF full
<1>9. Len(rest) \in Nat
  BY <1>7
<1>10. /\ k \in 0..Len(full)
       /\ \A i \in 1..k : full[i] = ".."
       /\ \A i \in (k + 1)..Len(full) : full[i] \in Part
  <2>1. ASSUME NEW i \in 1..k PROVE full[i] = ".."
    <3>1. i \in 1..(k + Len(rest)) /\ i <= k
      BY <1>4, <1>9
    <3> QED
      BY <1>5, <1>8, <3>1
  <2>2. ASSUME NEW i \in (k + 1)..(k + Len(rest)) PROVE full[i] \in Part
    <3>1. i \in 1..(k + Len(rest)) /\ ~(i <= k) /\ i - k \in 1..Len(rest)
      BY <1>4, <1>9
    <3> QED
      BY <1>7, <1>8, <3>1
  <2> QED
    BY <1>4, <1>8, <1>9, <2>1, <2>2
<1>11. Ups(full) = k
  BY <1>8, <1>10, UpsIs, NoSigns
<1>12. CASE full = <<>>
  <2>1. k = 0 /\ Len(rest) = 0
    BY <1>4, <1>8, <1>9, <1>12
  <2>2. n = Len(dir) /\ n = Len(dest)
    BY <1>4, <1>6, <2>1
  <2>3. dir = dest
    BY <1>2, <1>3, <2>2, SubSeqFull
  <2>4. r = <<"./">> /\ <<"./">> \in Seq(LinePart) /\ ~IsAbs(<<"./">>)
    BY <1>12, NoSigns DEF IsAbs
  <2>5. Resolve(source, <<"./">>) = dir
    BY <2>4 DEF Resolve, dir
  <2> HIDE DEF r
  <2> QED
    BY <1>1, <2>3, <2>4, <2>5
<1>13. CASE full # <<>>
  <2>1. r = full
    BY <1>13
  <2>2. Len(full) \in Nat \ {0} /\ full[1] \in LinePart
    BY <1>8, <1>13, EmptySeq
  <2>3. ~IsAbs(full)
    BY <2>2, NoSigns DEF IsAbs
  <2>4. full # <<"./">>
    <3>1. 1 \in 1..k \/ 1 \in (k + 1)..Len(full)
      BY <1>4, <2>2
    <3>2. full[1] # "./"
      BY <1>10, <3>1, NoSigns
    <3> QED
      BY <3>2
  <2>5. SubSeq(full, k + 1, Len(full)) = rest
    <3> DEFINE q == SubSeq(full, k + 1, Len(full))
    <3>1. \A i \in (k + 1)..Len(full) : full[i] \in LinePart
      BY <1>10, NoSigns
    <3>2. k + 1 \in Int /\ Len(full) \in Int
      BY <1>4, <2>2
    <3>3. /\ q \in Seq(LinePart)
          /\ Len(q) = IF k + 1 <= Len(full) THEN Len(full) - (k + 1) + 1 ELSE 0
          /\ \A i \in 1..(Len(full) - (k + 1) + 1) : q[i] = full[(k + 1) + i - 1]
      BY <3>1, <3>2, SubSeqProperties
    <3> HIDE DEF q
    <3>4. Len(q) = Len(rest) /\ Len(full) - (k + 1) + 1 = Len(rest)
      BY <1>4, <1>8, <1>9, <3>3
    <3>5. ASSUME NEW i \in 1..Len(rest) PROVE q[i] = rest[i]
      <4>2. q[i] = full[(k + 1) + i - 1]
        BY <3>3, <3>4
      <4>3. PICK j \in Int : j = (k + 1) + i - 1
        BY <1>4
      <4>4. q[i] = full[j]
        BY <4>2, <4>3
      <4>5. j \in 1..(k + Len(rest)) /\ ~(j <= k) /\ j - k = i
        BY <1>4, <1>9, <4>3
      <4>6. full[j] = rest[j - k]
        BY <1>8, <4>5
      <4> QED
        BY <4>4, <4>5, <4>6
    <3>6. q = rest
      BY <1>7, <3>3, <3>4, <3>5, SeqEqual
    <3> QED
      BY <3>6 DEF q
  <2>6. SubSeq(dest, 1, n) \o rest = dest
    <3>1. 1 \in 1..(Len(dest) + 1) /\ n \in (1 - 1)..Len(dest) /\ Len(dest) \in n..Len(dest)
      BY <1>3, <1>4
    <3>2. SubSeq(dest, 1, n) \o SubSeq(dest, n + 1, Len(dest)) = SubSeq(dest, 1, Len(dest))
      BY <3>1, ConcatAdjacentSubSeq
    <3> QED
      BY <3>2, SubSeqFull DEF rest
  <2>7. Resolve(source, full) = SubSeq(dir, 1, Len(dir) - k) \o SubSeq(full, k + 1, Len(full))
    BY <1>11, <2>3, <2>4 DEF Resolve, dir
  <2> HIDE DEF r
  <2> QED
    BY <1>1, <1>3, <1>4, <1>8, <2>1, <2>3, <2>5, <2>6, <2>7
<1> QED
  BY <1>12, <1>13

LEMMA NamedIs == ASSUME NEW f \in Executables PROVE Named(f) \in Executables
  BY DEF Named

LEMMA ExecutableDoes ==
  ASSUME Types, Listed, CopyExecutable \/ FrameworkExecutable PROVE Consumes \/ Fails
<1> DEFINE p == Head(todo)
           f == Named(p.file)
<1>1. /\ status = "running" /\ todo # <<>> /\ p.op \in {"executable", "framework_exe"}
      /\ Raises \/ Sets(f, Binary)
  BY DEF CopyExecutable, FrameworkExecutable, At, Current
<1>2. /\ fs \in [Files -> File] /\ host \in Hosts /\ home \in Homes /\ opts \in Options
      /\ p.file = py_executable(opts)
  BY <1>1, Hd DEF Lawful, Fatal
<1>3. f \in Executables /\ f \in Files /\ Binary \in File
  <2>1. p.file \in Executables /\ Executables \subseteq Files
    BY <1>2, Given
  <2> QED
    BY <1>2, <2>1, NamedIs, Values
<1> HIDE DEF f
<1>4. CASE Raises
  BY <1>1, <1>4 DEF Raises, Ends, Steady, Fails
<1>5. CASE Sets(f, Binary)
  <2>1. fs'[f] = Binary
    BY <1>2, <1>3, <1>5, SetsOne
  <2>2. Changes(p, f)
    BY <1>1, <1>3, <2>1 DEF Changes
  <2>3. Result(p)
    BY <1>1 DEF Result
  <2> QED
    BY <1>1, <1>2, <1>3, <1>5, <2>2, <2>3, ConsumesOne DEF Fatal
<1> QED
  BY <1>1, <1>4, <1>5

LEMMA SecondaryDoes ==
  ASSUME Types, Listed, Secondary PROVE Consumes
<1> DEFINE p == Head(todo)
           f == p.file
           v == IF Present(f) THEN fs[f] ELSE Binary
<1>1. status = "running" /\ todo # <<>> /\ p.op = "secondary" /\ Sets(f, v)
  BY DEF Secondary, At, Current
<1>2. /\ f \in Executables /\ fs \in [Files -> File] /\ host \in Hosts /\ home \in Homes /\ opts \in Options
  BY <1>1, Hd DEF Lawful, Fatal
<1>3. v \in File /\ (v = fs[f] \/ v = Binary) /\ f \in Files
  <2>1. Binary \in File /\ f \in Files
    BY <1>2, Values, Given
  <2> QED
    BY <1>2, <2>1
<1>4. fs'[f] = v
  BY <1>1, <1>2, <1>3, SetsOne
<1>5. fs'[f] = fs[f] \/ Changes(p, f)
  BY <1>1, <1>2, <1>3, <1>4 DEF Changes
<1>6. Result(p)
  BY <1>1 DEF Result
<1> HIDE DEF v
<1> QED
  BY <1>1, <1>3, <1>5, <1>6, ConsumesOne DEF Fatal

LEMMA RenameDoes ==
  ASSUME Types, Listed, Rename PROVE Consumes \/ Fails
<1> DEFINE p == Head(todo)
           f == p.file
           v == NameLink(p.text[1])
<1>1. status = "running" /\ todo # <<>> /\ p.op = "rename" /\ (Raises \/ Sets(f, v))
  BY DEF Rename, At, Current
<1>2. /\ f \in Executables /\ fs \in [Files -> File] /\ host \in Hosts /\ home \in Homes /\ opts \in Options
      /\ p.text[1] \in Executables
  BY <1>1, Hd DEF Lawful, Fatal
<1>3. v \in File /\ f \in Files
  BY <1>2, Values, Given
<1> HIDE DEF v
<1>4. CASE Raises
  BY <1>1, <1>4 DEF Raises, Ends, Steady, Fails
<1>5. CASE Sets(f, v)
  <2>1. fs'[f] = v
    BY <1>2, <1>3, <1>5, SetsOne
  <2>2. Changes(p, f)
    BY <1>1, <2>1 DEF Changes, v
  <2>3. Result(p)
    BY <1>1 DEF Result
  <2> QED
    BY <1>1, <1>2, <1>3, <1>5, <2>2, <2>3, ConsumesOne DEF Fatal
<1> QED
  BY <1>1, <1>4, <1>5

\* Asking the interpreter, or having a tool change it, writes no other file.
LEMMA LooksDoes ==
  ASSUME Types, Listed, RunTool \/ TestExecutable PROVE Consumes \/ Fails
<1> DEFINE p == Head(todo)
           f == p.file
<1>1. /\ status = "running" /\ todo # <<>> /\ p.op \in {"tool", "test"}
      /\ \/ Raises
         \/ Ends("exit_100") /\ UNCHANGED <<fs, logger>> /\ Steady
         \/ Sets(f, fs[f]) /\ (p.op = "test" => Runs(f))
  BY DEF RunTool, TestExecutable, At, Current
<1>2. /\ fs \in [Files -> File] /\ host \in Hosts /\ home \in Homes /\ opts \in Options
      /\ f = py_executable(opts)
  BY <1>1, Hd DEF Lawful, Fatal
<1>3. f \in Files
  BY <1>2, Given
<1>4. CASE Raises
  BY <1>1, <1>4 DEF Raises, Ends, Steady, Fails
<1>5. CASE Ends("exit_100") /\ UNCHANGED <<fs, logger>> /\ Steady
  BY <1>1, <1>5 DEF Ends, Steady, Fails
<1>6. CASE Sets(f, fs[f]) /\ (p.op = "test" => Runs(f))
  <2>1. fs[f] \in File
    BY <1>2, <1>3
  <2>2. fs'[f] = fs[f]
    BY <1>2, <1>3, <1>6, <2>1, SetsOne
  <2>3. Result(p)
    BY <1>1, <1>6 DEF Result
  <2> QED
    BY <1>1, <1>3, <1>6, <2>1, <2>2, <2>3, ConsumesOne DEF Fatal
<1> QED
  BY <1>1, <1>4, <1>5, <1>6

LEMMA EndsDoes ==
  ASSUME Exit \/ Raise \/ CallFails \/ CopyFails PROVE Fails
  BY DEF Exit, Raise, Raises, CallFails, CopyFails, Ends, Steady, Fails, At, Calling

LEMMA CallBeginsDoes ==
  ASSUME CallBegins PROVE Fails \/ Stays
  BY DEF CallBegins, Ends, Steady, Fails, Stays, At

LEMMA CallLineDoes ==
  ASSUME CallLine PROVE Stays /\ UNCHANGED downloads
  BY DEF CallLine, Steady, Stays, Calling

LEMMA SrcPath ==
  ASSUME NEW h \in Seq(Part)
  PROVE  /\ h \o <<"src">> \in Seq(Part) /\ <<"src">> \in Seq(Part)
         /\ Len(h \o <<"src">>) = Len(h) + 1 /\ (h \o <<"src">>)[Len(h) + 1] = "src"
<1>1. <<"src">> \in Seq(Part) /\ Len(<<"src">>) = 1 /\ <<"src">>[1] = "src"
  <2>1. "src" \in Part
    BY DEF Part
  <2> QED
    BY <2>1
<1>2. Len(h) \in Nat
  OBVIOUS
<1> DEFINE t == <<"src">>
<1> HIDE DEF t
<1>3. /\ h \o t \in Seq(Part) /\ Len(h \o t) = Len(h) + 1
      /\ \A i \in 1..Len(h) + 1 : (h \o t)[i] = IF i <= Len(h) THEN h[i] ELSE t[i - Len(h)]
  BY <1>1, ConcatProperties DEF t
<1>4. (h \o t)[Len(h) + 1] = t[1]
  BY <1>2, <1>3
<1> QED
  BY <1>1, <1>3, <1>4 DEF t

LEMMA AbsIs ==
  ASSUME NEW p \in Seq(Part)
  PROVE  Abs(p) \in Seq(Word) /\ IsAbs(Abs(p)) /\ Tail(Abs(p)) = p
<1> DEFINE W == Part \union {"/"}
<1>1. <<"/">> \in Seq(W) /\ p \in Seq(W)
  OBVIOUS
<1>2. W \subseteq Word
  BY NoSigns DEF Word
<1> HIDE DEF W
<1>3. Len(p) \in Nat
  OBVIOUS
<1> DEFINE a == <<"/">> \o p
<1>4. a \in Seq(W) /\ Len(a) = 1 + Len(p)
      /\ \A i \in 1..1 + Len(p) : a[i] = IF i <= 1 THEN <<"/">>[i] ELSE p[i - 1]
  BY <1>1, ConcatProperties
<1> HIDE DEF a
<1>5. a # <<>> /\ a[1] = "/"
  BY <1>3, <1>4
<1>6. Tail(a) \in Seq(W) /\ Len(Tail(a)) = Len(p) /\ \A i \in 1..Len(Tail(a)) : Tail(a)[i] = a[i + 1]
  <2>1. Tail(a) \in Seq(W) /\ Len(Tail(a)) = Len(a) - 1 /\ \A i \in 1..Len(Tail(a)) : Tail(a)[i] = a[i + 1]
    BY <1>4, <1>5, HeadTailProperties
  <2> QED
    BY <1>3, <1>4, <2>1
<1>7. ASSUME NEW i \in 1..Len(p) PROVE Tail(a)[i] = p[i]
  <2>1. Tail(a)[i] = a[i + 1]
    BY <1>6
  <2>2. i + 1 \in 1..1 + Len(p) /\ ~(i + 1 <= 1) /\ (i + 1) - 1 = i
    BY <1>3
  <2>3. a[i + 1] = p[(i + 1) - 1]
    BY <1>4, <2>2
  <2> QED
    BY <2>1, <2>2, <2>3
<1>8. Tail(a) = p
  BY <1>1, <1>6, <1>7, SeqEqual
<1>9. a \in Seq(Word)
  BY <1>2, <1>4
<1> QED
  BY <1>5, <1>8, <1>9 DEF Abs, IsAbs, a

\* What easy_install makes of easy-install.pth.
LEMMA PthLinesAre ==
  ASSUME Types
  PROVE  \A l \in PthLines : /\ l \in File /\ l.is = "text"
                             /\ IsAbs(l.text) => Tail(l.text) \in Seq(Part)
<1>1. /\ Kinds /\ fs \in [Files -> File] /\ host \in Hosts /\ home \in Homes /\ opts \in Options
      /\ "pth" \in Files
  BY DEF Types, Kinds, Files, LibFiles
<1>2. home \in Seq(Part)
  BY <1>1, Given
<1>3. Package \in Seq(Part)
  BY <1>2, SrcPath DEF Package
<1> DEFINE q == Package
           l1 == Text(Abs(q))
           l2 == Text(<<>>)
<1> HIDE DEF q
<1>4. Abs(q) \in Seq(Word) /\ Tail(Abs(q)) = q
  BY <1>3, AbsIs DEF q
<1>5. l1 \in File /\ l2 \in File
  BY <1>1, <1>4, Values, Texts
<1>6. l1.is = "text" /\ l1.text = Abs(q) /\ l2.is = "text" /\ ~IsAbs(l2.text)
  BY DEF Text, IsAbs
<1>7. ASSUME Works("pth") PROVE fs["pth"].is = "text"
  BY <1>7 DEF Works
<1>8. \A l \in PthLines : l = l1 \/ l = l2 \/ (l = fs["pth"] /\ Works("pth"))
  BY DEF PthLines, q
<1> HIDE DEF l1, l2
<1> QED
  BY <1>1, <1>3, <1>4, <1>5, <1>6, <1>7, <1>8 DEF Kinds, q

LEMMA CallEndsDoes ==
  ASSUME Types, Listed, CallEnds PROVE Consumes
<1> DEFINE p == Head(todo)
           s == Text(Shebang(home, BinDir, py_executable(opts)))
<1>1. /\ status = "running" /\ todo # <<>> /\ p.op = "call" /\ fs' \in Installed(p.file)
      /\ Goes /\ Steady
  BY DEF CallEnds, Calling, Current
<1>2. /\ p.file \in {"setuptools", "distribute", "pip"} /\ p.file \in Word
      /\ fs \in [Files -> File] /\ host \in Hosts /\ home \in Homes /\ opts \in Options
  BY <1>1, Hd DEF Lawful, Fatal, Word, Files, LibFiles, Scripts
<1> DEFINE t == Text(<<p.file>>)
<1>3. s \in File /\ t \in File /\ s.is = "text" /\ t.is = "text"
  <2>1. py_executable(opts) \in Executables
    BY <1>2, Given
  <2>2. Shebang(home, BinDir, py_executable(opts)) \in Seq(Word) /\ <<p.file>> \in Seq(Word)
    BY <1>2, <2>1, Values
  <2> QED
    BY <1>2, <2>2, Values DEF Text
<1>4. {"setuptools", "easy_install", "pip", "pth"} \subseteq Files
  BY DEF Files, LibFiles, Scripts
<1> DEFINE one == [fs EXCEPT !["pip"] = s]
           two == [fs EXCEPT !["setuptools"] = t, !["easy_install"] = s]
<1>5. PICK lines \in PthLines, g \in {one, two} : fs' = [g EXCEPT !["pth"] = lines]
  BY <1>1 DEF Installed
<1>6. lines \in File /\ lines.is = "text"
  BY <1>5, PthLinesAre
<1> HIDE DEF s, t
<1>a. /\ one \in [Files -> File] /\ one["pip"] = s
      /\ \A f \in Files : f # "pip" => one[f] = fs[f]
  BY <1>2, <1>3, <1>4
<1>b. /\ two \in [Files -> File] /\ two["setuptools"] = t /\ two["easy_install"] = s
      /\ \A f \in Files : f \notin {"setuptools", "easy_install"} => two[f] = fs[f]
  BY <1>2, <1>3, <1>4
<1> HIDE DEF one, two
<1>7. /\ g \in [Files -> File]
      /\ \A f \in Files : g[f] = fs[f] \/ (f \in {"setuptools", "easy_install", "pip"} /\ g[f].is = "text")
  <2>1. /\ one \in [Files -> File]
        /\ \A f \in Files : one[f] = fs[f] \/ (f = "pip" /\ one[f] = s)
    BY <1>a
  <2>2. /\ two \in [Files -> File]
        /\ \A f \in Files : two[f] = fs[f] \/ (f \in {"setuptools", "easy_install"} /\ two[f] \in {s, t})
    BY <1>b
  <2> QED
    BY <1>3, <1>5, <2>1, <2>2
<1>8. /\ fs' \in [Files -> File]
      /\ \A f \in Files : \/ fs'[f] = fs[f]
                          \/ f \in {"setuptools", "easy_install", "pip", "pth"} /\ fs'[f].is = "text"
  BY <1>4, <1>5, <1>6, <1>7
<1>9. \A f \in Files : fs'[f] = fs[f] \/ Changes(p, f)
  BY <1>1, <1>8 DEF Changes
<1>10. Result(p)
  BY <1>1 DEF Result
<1>11. dev' \in {dev, "none"}
  BY <1>1 DEF Steady
<1> QED
  BY <1>1, <1>8, <1>9, <1>10, <1>11 DEF Consumes, Goes, Steady, Fatal

LEMMA PthFileIs ==
  ASSUME host \in Hosts, NEW h \in Seq(Part)
  PROVE  PthFile(h) \in Seq(Part) /\ PthFile(h) # <<>>
<1> DEFINE t == IF host.platform = "pypy" THEN <<"site-packages", "easy-install.pth">>
                ELSE <<"lib", "python2.6", "site-packages", "easy-install.pth">>
<1>1. t \in Seq(Part) /\ t # <<>>
  <2>1. "lib" \in Part /\ "python2.6" \in Part /\ "site-packages" \in Part /\ "easy-install.pth" \in Part
    BY DEF Part
  <2> QED
    BY <2>1
<1>2. PthFile(h) = h \o t
  BY DEF PthFile
<1> HIDE DEF t
<1> QED
  BY <1>1, <1>2, ConcatProperties, ConcatEqualIffEmpty

LEMMA FixupScriptDoes ==
  ASSUME Types, Listed, FixupScript PROVE Consumes
<1> DEFINE p == Head(todo)
           f == p.file
           v == fixup_script(fs[f], home)
<1>1. status = "running" /\ todo # <<>> /\ p.op = "fixup_script" /\ Sets(f, v)
  BY DEF FixupScript, At, Current
<1>2. /\ f \in Files /\ fs \in [Files -> File] /\ host \in Hosts /\ home \in Homes /\ opts \in Options
  BY <1>1, Hd DEF Lawful, Fatal, Files
<1>3. v \in File
  <2>1. NewShebang \in Seq(Word)
    BY <1>2, Values
  <2>2. Text(NewShebang) \in File
    BY <1>2, <2>1, Values
  <2> QED
    BY <1>2, <2>2 DEF fixup_script
<1>4. fs'[f] = v
  BY <1>1, <1>2, <1>3, SetsOne
<1>5. Changes(p, f)
  BY <1>1, <1>4 DEF Changes
<1>6. Result(p)
  BY <1>1, <1>4 DEF Result
<1> HIDE DEF v
<1> QED
  BY <1>1, <1>2, <1>3, <1>5, <1>6, ConsumesOne DEF Fatal

LEMMA LineFixed ==
  ASSUME Types
  PROVE  /\ fixup_line(fs["pth"], PthFile(home)) \in File
         /\ fixup_line(fs["pth"], PthFile(home)).is = fs["pth"].is
         /\ fs["pth"].is = "text" => ~IsAbs(fixup_line(fs["pth"], PthFile(home)).text)
         /\ fs["pth"].is = "text" /\ IsAbs(fs["pth"].text) =>
              Resolve(PthFile(home), fixup_line(fs["pth"], PthFile(home)).text) = Tail(fs["pth"].text)
<1> DEFINE t == fs["pth"]
           s == PthFile(home)
           r == make_relative_path(s, Tail(t.text))
<1>1. t \in File /\ (IsAbs(t.text) => Tail(t.text) \in Seq(Part)) /\ s \in Seq(Part) /\ s # <<>>
  <2>1. "pth" \in Files /\ fs \in [Files -> File] /\ host \in Hosts /\ home \in Homes /\ opts \in Options
    BY DEF Files, LibFiles, Types, Kinds
  <2>2. home \in Seq(Part)
    BY <2>1, Given
  <2> QED
    BY <2>1, <2>2, PthFileIs DEF Types, Kinds
<1>2. ASSUME t.is = "text", IsAbs(t.text)
      PROVE  r \in Seq(Word) /\ ~IsAbs(r) /\ Resolve(s, r) = Tail(t.text)
  <2>1. r \in Seq(LinePart) /\ ~IsAbs(r) /\ Resolve(s, r) = Tail(t.text)
    BY <1>1, <1>2, Relative
  <2> QED
    BY <2>1, NoSigns
<1>3. fixup_line(t, s) = IF t.is = "text" /\ IsAbs(t.text) THEN [is |-> "text", text |-> r] ELSE t
  BY DEF fixup_line, Text
<1> HIDE DEF t, s, r
<1>4. CASE t.is = "text" /\ IsAbs(t.text)
  <2>1. [is |-> "text", text |-> r] \in File
    BY <1>2, <1>4 DEF File
  <2> QED
    BY <1>2, <1>3, <1>4, <2>1 DEF t, s
<1>5. CASE ~(t.is = "text" /\ IsAbs(t.text))
  BY <1>1, <1>3, <1>5 DEF t, s
<1> QED
  BY <1>4, <1>5

LEMMA FixupPthFileDoes ==
  ASSUME Types, Listed, FixupPthFile PROVE Consumes
<1> DEFINE p == Head(todo)
           f == p.file
           v == fixup_line(fs[f], PthFile(home))
<1>1. status = "running" /\ todo # <<>> /\ p.op = "fixup_pth_file" /\ Sets(f, v)
  BY DEF FixupPthFile, At, Current
<1>2. /\ f = "pth" /\ f \in Files /\ fs \in [Files -> File]
  BY <1>1, Hd DEF Lawful, Fatal, Files, LibFiles
<1>3. v \in File
  BY <1>2, LineFixed
<1>4. fs'[f] = v
  BY <1>1, <1>2, <1>3, SetsOne
<1>5. Changes(p, f)
  BY <1>1, <1>4 DEF Changes
<1>6. Result(p)
  BY <1>1, <1>2, <1>4 DEF Result
<1> HIDE DEF v
<1> QED
  BY <1>1, <1>2, <1>3, <1>5, <1>6, ConsumesOne DEF Fatal

\* Every step of a run.
LEMMA RunStepDoes ==
  ASSUME Types, Listed, RunStep PROVE Consumes \/ Fails \/ Stays \/ RunEnds
<1>1. CASE CopyFile BY <1>1, CopyFileDoes
<1>2. CASE LinkSelf BY <1>2, LinkSelfDoes
<1>3. CASE WriteFile BY <1>3, WriteFileDoes
<1>4. CASE Unlink BY <1>4, UnlinkDoes
<1>5. CASE Rmtree BY <1>5, RmtreeDoes
<1>6. CASE CopyExecutable \/ FrameworkExecutable BY <1>6, ExecutableDoes
<1>7. CASE Secondary BY <1>7, SecondaryDoes
<1>8. CASE RunTool \/ TestExecutable BY <1>8, LooksDoes
<1>9. CASE Rename BY <1>9, RenameDoes
<1>10. CASE Exit \/ Raise \/ CallFails \/ CopyFails BY <1>10, EndsDoes
<1>11. CASE CallBegins BY <1>11, CallBeginsDoes
<1>12. CASE CallLine BY <1>12, CallLineDoes
<1>13. CASE CallEnds BY <1>13, CallEndsDoes
<1>14. CASE FixupScript BY <1>14, FixupScriptDoes
<1>15. CASE FixupPthFile BY <1>15, FixupPthFileDoes
<1>16. CASE LinkDir BY <1>16, LinkDirDoes
<1> QED
  BY <1>1, <1>2, <1>3, <1>4, <1>5, <1>6, <1>7, <1>8, <1>9, <1>10, <1>11, <1>12, <1>13, <1>14,
     <1>15, <1>16 DEF RunStep

-----------------------------------------------------------------------------
(* The invariant is kept. *)

\* The rules of a run depend on the computer and the directory alone.
LEMMA SameRules ==
  ASSUME host' = host, home' = home
  PROVE  /\ \A o : py_executable(o)' = py_executable(o) /\ ActivateText(o)' = ActivateText(o)
         /\ BinDir' = BinDir
         /\ \A p, o : Lawful(p, o)' <=> Lawful(p, o)
         /\ \A o : Duties(o)' = Duties(o) /\ Testing(o)' = Testing(o)
                   /\ WriteActivate(o)' = WriteActivate(o)
         /\ \A s, o : Program(s, o)' <=> Program(s, o)
<1>1. \A o : py_executable(o)' = py_executable(o) /\ ActivateText(o)' = ActivateText(o)
  BY DEF py_executable, ActivateText
<1>2. ASSUME NEW p, NEW o PROVE Lawful(p, o)' <=> Lawful(p, o)
  <2>1. py_executable(o)' = py_executable(o) /\ ActivateText(o)' = ActivateText(o)
    BY <1>1
  <2> QED
    BY <2>1 DEF Lawful
<1>3. \A o : Testing(o)' = Testing(o) /\ WriteActivate(o)' = WriteActivate(o)
  BY <1>1 DEF Testing, WriteActivate
<1>4. \A o : Duties(o)' = Duties(o)
  BY <1>3 DEF Duties
<1>5. \A s, o : Order(s, o)' <=> Order(s, o)
  BY <1>3, <1>4 DEF Order
<1>6. \A s, o : Program(s, o)' <=> Program(s, o)
  BY <1>2, <1>5 DEF Program
<1>7. BinDir' = BinDir
  BY DEF BinDir
<1> QED
  BY <1>1, <1>2, <1>3, <1>4, <1>6, <1>7

\* Taking the first operation off keeps the rules.
LEMMA TailProgram ==
  ASSUME NEW s, NEW o, Program(s, o), s # <<>>, Head(s).op \notin Fatal
  PROVE  Program(Tail(s), o)
<1>1. s \in Lists /\ AllLawful(s, o)
  BY DEF Program, Lists, AllLawful
<1>2. /\ Tail(s) \in Lists /\ AllLawful(Tail(s), o)
      /\ \A K, p : Follows(s, K, p) => Follows(Tail(s), K, p)
  BY <1>1, TailFacts
<1>3. Order(s, o) => Order(Tail(s), o)
  BY <1>2 DEF Order
<1> QED
  BY <1>2, <1>3 DEF Program, Lists, AllLawful

LEMMA ListedStep ==
  ASSUME Types, Listed, [Next]_vars
  PROVE  Listed'
<1>1. ASSUME NEW o \in Options, Start(o) PROVE Listed'
  <2>1. Program(main(o), o) /\ host' = host /\ home' = home /\ todo' = main(o) /\ opts' = o
        /\ relocated' = {} /\ status' = "running"
    BY <1>1, MainGood DEF Start, Types
  <2>2. Program(todo', opts')
    BY <2>1
  <2> QED
    BY <2>1, <2>2, SameRules DEF Listed
<1>2. CASE Consumes
  <2>1. Program(todo, opts) /\ todo # <<>> /\ Head(todo).op \notin Fatal /\ relocated = {}
        /\ status' = "running" /\ relocated' = {} /\ todo' = Tail(todo) /\ opts' = opts
        /\ host' = host /\ home' = home
    BY <1>2 DEF Consumes, Listed
  <2>2. Program(todo', opts')
    BY <2>1, TailProgram
  <2> QED
    BY <2>1, <2>2, SameRules DEF Listed
<1>3. CASE Stays \/ UNCHANGED vars
  <2>1. /\ todo' = todo /\ opts' = opts /\ host' = host /\ home' = home /\ status' = status
        /\ relocated' = relocated
    BY <1>3 DEF Stays, vars
  <2> QED
    BY <2>1, SameRules DEF Listed
<1>4. CASE Fails \/ Interrupt
  BY <1>4 DEF Fails, Interrupt, Listed
<1>5. CASE RunEnds
  BY <1>5 DEF RunEnds, Listed
<1>6. CASE InstallPackage \/ EditConfig \/ Move
  BY <1>6 DEF InstallPackage, EditConfig, Move, Owner, Rests, Listed
<1> QED
  BY <1>1, <1>2, <1>3, <1>4, <1>5, <1>6, RunStepDoes DEF Next

\* The step of a run that is left over when its ends are taken away.
LEMMA Consumed ==
  ASSUME Types, Listed, Consumes
  PROVE  LET p == Head(todo)
         IN  /\ p \in Operation /\ Lawful(p, opts) /\ todo \in Lists /\ Tail(todo) \in Lists
             /\ status = "running" /\ status' = "running" /\ todo' = Tail(todo) /\ opts' = opts
             /\ host' = host /\ home' = home /\ host \in Hosts /\ home \in Homes /\ opts \in Options
             /\ fs \in [Files -> File] /\ fs' \in [Files -> File]
             /\ \A f \in Files : fs'[f] = fs[f] \/ Changes(p, f)
             /\ Result(p)
             /\ \A q : Ahead(todo, q) <=> q = p \/ Ahead(todo', q)
             /\ ~Doomed(todo') => ~Doomed(todo)
             /\ ~opts.relocatable => \A q \in Duties(opts) : p.op = "rmtree" => Ahead(todo', q)
             /\ ~opts.relocatable /\ p.op \in ExeOps => Ahead(todo', Testing(opts))
<1> DEFINE p == Head(todo)
<1>1. /\ status = "running" /\ todo # <<>> /\ p.op \notin Fatal /\ Program(todo, opts)
      /\ todo' = Tail(todo) /\ UNCHANGED <<status, opts, host, home>>
      /\ fs' \in [Files -> File]
      /\ \A f \in Files : fs'[f] = fs[f] \/ Changes(p, f)
      /\ Result(p)
  BY DEF Consumes, Listed
<1>2. p \in Operation /\ Lawful(p, opts) /\ todo \in Lists /\ host \in Hosts /\ home \in Homes /\ opts \in Options
      /\ fs \in [Files -> File]
  BY <1>1, Hd
<1>3. /\ Tail(todo) \in Lists
      /\ \A q : Ahead(todo, q) <=> q = p \/ Ahead(Tail(todo), q)
      /\ Doomed(todo) <=> p.op \in Fatal \/ Doomed(Tail(todo))
      /\ \A K, q : Follows(todo, K, q) => (p.op \in K => Ahead(Tail(todo), q))
  BY <1>1, <1>2, TailFacts
<1>4. ~opts.relocatable => Order(todo, opts)
  BY <1>1 DEF Program
<1>5. ~opts.relocatable => \A q \in Duties(opts) : p.op = "rmtree" => Ahead(Tail(todo), q)
  BY <1>3, <1>4 DEF Order
<1>6. ~opts.relocatable /\ p.op \in ExeOps => Ahead(Tail(todo), Testing(opts))
  BY <1>3, <1>4 DEF Order
<1> HIDE DEF p
<1> QED
  BY <1>1, <1>2, <1>3, <1>5, <1>6 DEF p

\* No operation that is completed leaves a torn file.
LEMMA NothingTorn ==
  ASSUME Types, Listed, Consumes
  PROVE  \A f \in Files : fs'[f].is = "torn" => fs[f].is = "torn"
<1> SUFFICES ASSUME NEW f \in Files, fs'[f].is = "torn", Changes(Head(todo), f)
             PROVE  fs[f].is = "torn"
  BY Consumed
<1>1. Source(f).is # "torn" /\ LinkTo(home).is # "torn" /\ Absent.is # "torn" /\ Binary.is # "torn"
      /\ (\A t : Text(t).is # "torn") /\ (\A t : NameLink(t).is # "torn")
  BY DEF Source, LinkTo, Absent, Binary, Text, NameLink
<1>2. \/ Head(todo).op = "fixup_script" /\ fs'[f] = fixup_script(fs[f], home)
      \/ Head(todo).op = "fixup_pth_file" /\ fs'[f] = fixup_line(fs[f], PthFile(home))
  BY <1>1 DEF Changes
<1>3. CASE fs'[f] = fixup_script(fs[f], home)
  BY <1>1, <1>3 DEF fixup_script
<1>4. CASE fs'[f] = fixup_line(fs[f], PthFile(home))
  BY <1>1, <1>4 DEF fixup_line
<1> QED
  BY <1>2, <1>3, <1>4

\* A link into the environment.
LEMMA LinkToIs ==
  ASSUME host \in Hosts, home \in Homes, opts \in Options
  PROVE  IsSelfLink(LinkTo(home)) /\ LinkTo(home).is = "link"
<1>1. home \in Seq(Word) /\ "@" \in Word
  BY Given DEF Word
<1> DEFINE a == <<"@">>
           t == a \o home
<1>2. a \in Seq(Word) /\ Len(a) = 1 /\ a[1] = "@"
  BY <1>1
<1> HIDE DEF a
<1> DEFINE b == home
<1>5. b \in Seq(Word)
  BY <1>1
<1> HIDE DEF b
<1>3. /\ Len(a \o b) = Len(a) + Len(b) /\ a \o b \in Seq(Word)
      /\ \A i \in 1..Len(a) + Len(b) : (a \o b)[i] = IF i <= Len(a) THEN a[i] ELSE b[i - Len(a)]
  BY <1>2, <1>5, ConcatProperties
<1>6. Len(b) \in Nat /\ 1 \in 1..Len(a) + Len(b)
  BY <1>2, <1>5
<1>4. t # <<>> /\ t[1] = "@"
  BY <1>2, <1>3, <1>6 DEF b
<1> QED
  BY <1>4 DEF LinkTo, IsSelfLink, a, t

LEMMA InstalledIs ==
  ASSUME fs \in [Files -> File], NEW project, fs' \in Installed(project)
  PROVE  LET s == Text(Shebang(home, BinDir, py_executable(opts)))
         IN /\ fs'["pth"] \in PthLines
            /\ project = "pip" => /\ fs'["pip"] = s /\ fs'["setuptools"] = fs["setuptools"]
                                  /\ fs'["easy_install"] = fs["easy_install"]
            /\ project # "pip" => /\ fs'["setuptools"] = Text(<<project>>) /\ fs'["easy_install"] = s
                                  /\ fs'["pip"] = fs["pip"]
            /\ \A f \in Files : f \notin {"setuptools", "easy_install", "pip", "pth"} => fs'[f] = fs[f]
<1> DEFINE s == Text(Shebang(home, BinDir, py_executable(opts)))
           t == Text(<<project>>)
           one == [fs EXCEPT !["pip"] = s]
           two == [fs EXCEPT !["setuptools"] = t, !["easy_install"] = s]
           g == IF project = "pip" THEN one ELSE two
<1>1. PICK lines \in PthLines : fs' = [g EXCEPT !["pth"] = lines]
  BY DEF Installed
<1>2. {"setuptools", "easy_install", "pip", "pth"} \subseteq Files
  BY DEF Files, LibFiles, Scripts
<1> HIDE DEF s, t
<1>3. /\ DOMAIN one = Files /\ one["pip"] = s
      /\ \A f \in Files : f # "pip" => one[f] = fs[f]
  BY <1>2
<1>4. /\ DOMAIN two = Files /\ two["setuptools"] = t /\ two["easy_install"] = s
      /\ \A f \in Files : f \notin {"setuptools", "easy_install"} => two[f] = fs[f]
  BY <1>2
<1> HIDE DEF one, two
<1>5. DOMAIN g = Files /\ g = IF project = "pip" THEN one ELSE two
  BY <1>3, <1>4
<1> HIDE DEF g
<1>6. fs'["pth"] = lines /\ \A f \in Files : f # "pth" => fs'[f] = g[f]
  BY <1>1, <1>2, <1>5
<1>7. CASE project = "pip"
  BY <1>1, <1>2, <1>3, <1>5, <1>6, <1>7 DEF s
<1>8. CASE project # "pip"
  BY <1>1, <1>2, <1>4, <1>5, <1>6, <1>8 DEF s, t
<1> QED
  BY <1>7, <1>8

LEMMA KindsConsumed ==
  ASSUME Types, Listed, Consumes PROVE Kinds'
<1> DEFINE p == Head(todo)
<1>1. /\ Lawful(p, opts) /\ fs \in [Files -> File] /\ fs' \in [Files -> File]
      /\ \A f \in Files : fs'[f] = fs[f] \/ Changes(p, f)
      /\ host' = host /\ opts \in Options /\ host \in Hosts /\ home \in Homes
      /\ py_executable(opts) \in Executables
  BY Consumed, Given
<1> HIDE DEF p
<1>2. Kinds
  BY DEF Types
<1>3. ASSUME NEW f \in Plain PROVE fs'[f].is \in {"absent", "torn", "text"}
  <2>1. f \in Files /\ f \notin Executables
        /\ f \notin {"stdlib", "include", "flag", "jars", "dylib", "lib64", "local", "python"}
    BY <1>3 DEF Plain, Files, LibFiles, Scripts, Executables
  <2>2. CASE fs'[f] = fs[f]
    BY <1>2, <1>3, <2>2 DEF Kinds
  <2>3. CASE Changes(p, f)
    <3>1. \/ \E t : fs'[f] = Text(t)
          \/ fs'[f] = Absent \/ fs'[f].is = "text"
          \/ fs'[f] = fixup_script(fs[f], home)
          \/ fs'[f] = fixup_line(fs[f], PthFile(home))
      BY <1>1, <2>1, <2>3 DEF Changes, Lawful
    <3>2. fs[f].is \in {"absent", "torn", "text"}
      BY <1>2, <1>3 DEF Kinds
    <3>3. fixup_script(fs[f], home).is \in {"absent", "torn", "text"}
      BY <3>2 DEF fixup_script, Text
    <3>4. fixup_line(fs[f], PthFile(home)).is \in {"absent", "torn", "text"}
      BY <3>2 DEF fixup_line, Text
    <3>5. Absent.is = "absent" /\ \A t : Text(t).is = "text"
      BY DEF Absent, Text
    <3> QED
      BY <3>1, <3>3, <3>4, <3>5
  <2> QED
    BY <1>1, <2>1, <2>2, <2>3
<1>4. ~IsSelfLink(fs'["flag"])
  <2>1. "flag" \in Files /\ "flag" \notin Executables \union Scripts
    BY DEF Files, LibFiles, Scripts, Executables
  <2>2. CASE fs'["flag"] = fs["flag"]
    BY <1>2, <2>2 DEF Kinds, IsSelfLink
  <2>3. CASE Changes(p, "flag")
    <3>1. \/ fs'["flag"] = Source("flag") \/ fs'["flag"] = Absent
          \/ \E t : fs'["flag"] = Text(t)
      BY <1>1, <2>1, <2>3 DEF Changes, Lawful
    <3>2. ~IsSelfLink(Source("flag"))
      BY DEF IsSelfLink, Source
    <3>3. ~IsSelfLink(Absent) /\ \A t : ~IsSelfLink(Text(t))
      BY DEF IsSelfLink, Absent, Text
    <3> QED
      BY <3>1, <3>2, <3>3 DEF IsSelfLink
  <2> QED
    BY <1>1, <2>1, <2>2, <2>3
<1>5. fs'["dylib"].is = "torn" => host'.platform = "framework"
  <2>1. "dylib" \in Files
    BY DEF Files
  <2> QED
    BY <1>1, <1>2, <2>1, NothingTorn DEF Kinds
<1>7. ASSUME NEW f \in {"lib64", "local"} PROVE fs'[f].is = "absent" \/ IsSelfLink(fs'[f])
  <2>1. /\ f \in Files /\ f \notin Executables \union Scripts
        /\ f \notin {"stdlib", "include", "flag", "jars", "dylib", "pth", "distutils", "distutils_cfg",
                    "setuptools", "site", "orig_prefix", "activate"}
    BY DEF Files, Scripts, Executables
  <2>2. CASE fs'[f] = fs[f]
    <3>1. fs[f].is = "absent" \/ IsSelfLink(fs[f])
      BY <1>2 DEF Kinds
    <3> QED
      BY <2>2, <3>1
  <2>3. CASE Changes(p, f)
    <3>1. fs'[f] = LinkTo(home) \/ fs'[f] = Absent
      BY <1>1, <2>1, <2>3 DEF Changes, Lawful, Scripts
    <3>2. IsSelfLink(LinkTo(home))
      BY <1>1, LinkToIs
    <3>3. Absent.is = "absent"
      BY DEF Absent
    <3> QED
      BY <3>1, <3>2, <3>3
  <2> QED
    BY <1>1, <2>1, <2>2, <2>3
<1>6. IsAbs(fs'["pth"].text) => Tail(fs'["pth"].text) \in Seq(Part)
  <2>1. "pth" \in Files /\ "pth" \notin Executables \union Scripts
    BY DEF Files, LibFiles, Scripts, Executables
  <2>2. CASE fs'["pth"] = fs["pth"]
    BY <1>2, <2>2 DEF Kinds
  <2>3. CASE Changes(p, "pth")
    <3>1. fs'["pth"] = Absent \/ fs'["pth"] = fixup_line(fs["pth"], PthFile(home)) \/ p.op = "call"
      BY <1>1, <2>1, <2>3 DEF Changes, Lawful
    <3>4. CASE p.op = "call"
      <4>1. fs' \in Installed(p.file)
        BY <3>4, Consumed DEF Result, p
      <4>2. fs'["pth"] \in PthLines
        BY <1>1, <4>1, InstalledIs
      <4> QED
        BY <4>2, PthLinesAre
    <3>2. ~IsAbs(Absent.text)
      BY DEF Absent, IsAbs
    <3>3. CASE fs'["pth"] = fixup_line(fs["pth"], PthFile(home))
      <4>1. CASE fs["pth"].is = "text"
        BY <3>3, <4>1, LineFixed
      <4>2. CASE fs["pth"].is # "text"
        <5>1. fs'["pth"] = fs["pth"]
          BY <3>3, <4>2 DEF fixup_line
        <5> QED
          BY <2>2, <5>1
      <4> QED
        BY <4>1, <4>2
    <3> QED
      BY <3>1, <3>2, <3>3, <3>4
  <2> QED
    BY <1>1, <2>1, <2>2, <2>3
<1> QED
  BY <1>1, <1>3, <1>4, <1>5, <1>6, <1>7 DEF Kinds

\* A file that is torn is one a run may have been writing.
LEMMA KindsInterrupted ==
  ASSUME Types, Listed, Interrupt PROVE Kinds'
<1>1. /\ Kinds /\ fs \in [Files -> File] /\ host' = host /\ home \in Homes /\ host \in Hosts
      /\ opts \in Options
  BY DEF Types, Kinds, Interrupt, Steady
<1>2. CASE UNCHANGED fs
  BY <1>1, <1>2 DEF Kinds
<1>3. Torn \in File /\ Torn.is = "torn" /\ Torn.text = <<>> /\ ~IsSelfLink(Torn) /\ ~IsAbs(Torn.text)
  <2>1. Torn \in File
    BY <1>1, Values
  <2> QED
    BY <2>1 DEF Torn, IsSelfLink, IsAbs
<1>4. ASSUME NEW f \in Files \ {"lib64", "local"}, fs' = [fs EXCEPT ![f] = Torn],
             f = "dylib" => host.platform = "framework"
      PROVE  Kinds'
  <2>1. fs' \in [Files -> File] /\ \A g \in Files : fs'[g] = fs[g] \/ (g = f /\ fs'[g] = Torn)
    BY <1>1, <1>3, <1>4
  <2>2. /\ Plain \subseteq Files /\ {"flag", "dylib", "lib64", "local", "pth"} \subseteq Files
    BY DEF Plain, Files, LibFiles, Scripts
  <2>3. ~IsSelfLink(fs'["flag"])
    BY <1>1, <1>3, <2>1, <2>2 DEF Kinds
  <2> QED
    BY <1>1, <1>3, <1>4, <2>1, <2>2, <2>3 DEF Kinds
<1>5. CASE status = "running" /\ todo # <<>> /\ Current.op \in Writes
           /\ fs' = [fs EXCEPT ![Named(Current.file)] = Torn]
  <2> DEFINE p == Head(todo)
  <2>1. /\ Lawful(p, opts) /\ p.op \in Writes
        /\ fs' = [fs EXCEPT ![Named(p.file)] = Torn]
    BY <1>5, Hd DEF Current, Fatal, Writes
  <2> HIDE DEF p
  <2>2. py_executable(opts) \in Executables
    BY <1>1, Given
  <2>3. CASE p.file \in Executables
    <3>1. Named(p.file) \in Executables
      BY <2>3, NamedIs
    <3>2. Named(p.file) \in Files \ {"lib64", "local"} /\ Named(p.file) # "dylib"
      BY <3>1 DEF Executables, Files
    <3> QED
      BY <1>4, <2>1, <3>2
  <2>4. CASE p.file \notin Executables
    <3>1. Named(p.file) = p.file
      BY <2>4 DEF Named
    <3>2. /\ p.file \in Files \ {"lib64", "local"}
          /\ p.file = "dylib" => host.platform = "framework"
      BY <2>1, <2>2, <2>4 DEF Lawful, Writes, Files, LibFiles, Scripts
    <3> QED
      BY <1>4, <2>1, <3>1, <3>2
  <2> QED
    BY <2>3, <2>4
<1>6. ASSUME NEW f \in {"pth", "setuptools"}, fs' = [fs EXCEPT ![f] = Torn] PROVE Kinds'
  <2>1. f \in Files \ {"lib64", "local"} /\ f # "dylib"
    BY DEF Files, LibFiles
  <2> QED
    BY <1>4, <1>6, <2>1
<1> QED
  BY <1>2, <1>5, <1>6 DEF Interrupt

LEMMA KindsOwner ==
  ASSUME Types, InstallPackage \/ EditConfig PROVE Kinds'
<1>1. /\ Kinds /\ fs \in [Files -> File] /\ host' = host /\ home \in Homes /\ host \in Hosts
      /\ opts \in Options /\ home \in Seq(Part)
  <2>1. /\ Kinds /\ fs \in [Files -> File] /\ host' = host /\ home \in Homes /\ host \in Hosts /\ opts \in Options
    BY DEF Types, Kinds, InstallPackage, EditConfig, Rests
  <2> QED
    BY <2>1, Given
<1>2. /\ Plain \subseteq Files /\ {"flag", "dylib", "lib64", "local", "pth", "script", "distutils_cfg"} \subseteq Files
      /\ {"pth", "script", "distutils_cfg"} \subseteq Plain
  BY DEF Plain, Files, LibFiles, Scripts
<1>3. \A t : Text(t).is = "text" /\ Text(t).text = t
  BY DEF Text
<1>4. CASE EditConfig
  <2>1. fs' = [fs EXCEPT !["distutils_cfg"] = Text(<<"edited">>)]
    BY <1>4 DEF EditConfig
  <2>2. Text(<<"edited">>) \in File
    <3>1. "edited" \in Word
      BY DEF Word
    <3>2. <<"edited">> \in Seq(Word)
      BY <3>1
    <3> QED
      BY <1>1, <3>2, Values
  <2>3. /\ fs' \in [Files -> File]
        /\ \A f \in Files : f # "distutils_cfg" => fs'[f] = fs[f]
        /\ fs'["distutils_cfg"].is = "text"
    BY <1>1, <1>2, <1>3, <2>1, <2>2
  <2>4. ~IsSelfLink(fs'["flag"])
    BY <1>1, <1>2, <2>3 DEF Kinds
  <2> QED
    BY <1>1, <1>2, <2>3, <2>4 DEF Kinds
<1>5. CASE InstallPackage
  <2>1. PICK where \in {"in", "out"} :
           fs' = [fs EXCEPT !["script"] = Text(Shebang(home, BinDir, py_executable(opts))),
                            !["pth"] = Text(Abs(IF where = "in" THEN home \o <<"src">> ELSE <<"src">>))]
    BY <1>5 DEF InstallPackage
  <2> DEFINE q == IF where = "in" THEN home \o <<"src">> ELSE <<"src">>
             s == Shebang(home, BinDir, py_executable(opts))
  <2>2. q \in Seq(Part)
    BY <1>1, SrcPath
  <2>3. Text(s) \in File
    BY <1>1, Given, Values
  <2> HIDE DEF q, s
  <2>4. Text(Abs(q)) \in File /\ Tail(Abs(q)) = q
    BY <1>1, <2>2, AbsIs, Values
  <2>5. fs' = [fs EXCEPT !["script"] = Text(s), !["pth"] = Text(Abs(q))]
    BY <2>1 DEF q, s
  <2>6. /\ fs' \in [Files -> File]
        /\ \A f \in Files : f \notin {"script", "pth"} => fs'[f] = fs[f]
        /\ fs'["script"].is = "text" /\ fs'["pth"].is = "text" /\ fs'["pth"].text = Abs(q)
    BY <1>1, <1>2, <1>3, <2>3, <2>4, <2>5
  <2>7. ~IsSelfLink(fs'["flag"])
    BY <1>1, <1>2, <2>6 DEF Kinds
  <2>8. Tail(fs'["pth"].text) \in Seq(Part)
    BY <2>2, <2>4, <2>6
  <2> QED
    BY <1>1, <1>2, <2>6, <2>7, <2>8 DEF Kinds
<1> QED
  BY <1>4, <1>5

LEMMA TypesStep ==
  ASSUME Types, Listed, [Next]_vars
  PROVE  Types'
<1>1. /\ Kinds /\ host \in Hosts /\ home \in Homes /\ opts \in Options /\ dev \in {"none", "in", "out"}
      /\ status \in Statuses /\ downloads \subseteq {"setuptools", "distribute", "pip"}
      /\ relocated \subseteq Movable /\ acts \in 0..MaxActs /\ MaxActs \in Nat
  BY VirtualenvAssumption DEF Types, VirtualenvAssumption
<1>2. ASSUME NEW o \in Options, Start(o) PROVE Types'
  <2>1. Kinds'
    BY <1>1, <1>2 DEF Start, Kinds
  <2> QED
    BY <1>1, <1>2, <2>1 DEF Start, Types, Statuses
<1>3. CASE Consumes
  <2>1. dev' \in {"none", "in", "out"}
    BY <1>1, <1>3 DEF Consumes
  <2> QED
    BY <1>1, <1>3, <2>1, KindsConsumed DEF Consumes, Types
<1>4. CASE Fails \/ RunEnds \/ UNCHANGED vars
  <2>1. Kinds'
    BY <1>1, <1>4 DEF Fails, RunEnds, vars, Kinds
  <2>2. /\ UNCHANGED <<host, home, dev, downloads, acts, opts>>
        /\ status' \in Statuses
        /\ relocated' \subseteq Movable
    BY <1>1, <1>4 DEF Fails, RunEnds, vars, Statuses
  <2> QED
    BY <1>1, <2>1, <2>2 DEF Types
<1>5. CASE Stays /\ (CallBegins \/ CallLine)
  <2>1. Kinds'
    BY <1>1, <1>5 DEF Stays, Kinds
  <2>2. downloads' \subseteq {"setuptools", "distribute", "pip"}
    <3>1. CASE CallLine
      BY <1>1, <3>1, CallLineDoes
    <3>2. CASE CallBegins
      <4>1. status = "running" /\ todo # <<>> /\ Head(todo).op = "call"
        BY <3>2 DEF CallBegins, At, Current
      <4>2. Head(todo).file \in {"setuptools", "distribute", "pip"}
        BY <4>1, Hd DEF Lawful, Fatal
      <4> QED
        BY <1>1, <3>2, <4>2 DEF CallBegins, Ends, Current
    <3> QED
      BY <1>5, <3>1, <3>2
  <2> QED
    BY <1>1, <1>5, <2>1, <2>2 DEF Stays, Types
<1>6. CASE Interrupt
  BY <1>1, <1>6, KindsInterrupted DEF Interrupt, Steady, Types, Statuses
<1>7. CASE InstallPackage
  <2>1. dev' \in {"in", "out"} /\ Kinds'
    BY <1>7, KindsOwner DEF InstallPackage
  <2>2. /\ home' = home /\ host' = host /\ opts' = opts /\ downloads' = downloads
        /\ relocated' = {} /\ status' = "idle" /\ acts' = acts + 1 /\ acts < MaxActs
    BY <1>7 DEF InstallPackage, Owner, Rests
  <2>3. acts' \in 0..MaxActs
    BY <1>1, <2>2
  <2> QED
    BY <1>1, <2>1, <2>2, <2>3 DEF Types, Statuses
<1>8. CASE EditConfig
  BY <1>1, <1>8, KindsOwner DEF EditConfig, Owner, Rests, Types, Statuses
<1>9. CASE Move
  <2>1. Kinds'
    BY <1>1, <1>9 DEF Move, Rests, Kinds
  <2> QED
    BY <1>1, <1>9, <2>1 DEF Move, Owner, Rests, Types, Statuses
<1>10. RunStep => Consumes \/ Fails \/ RunEnds \/ (Stays /\ (CallBegins \/ CallLine))
  <2>1. ASSUME RunStep, ~CallBegins, ~CallLine PROVE Consumes \/ Fails \/ RunEnds
    BY <2>1, CopyFileDoes, LinkSelfDoes, WriteFileDoes, UnlinkDoes, RmtreeDoes, ExecutableDoes,
       SecondaryDoes, LooksDoes, RenameDoes, EndsDoes, CallEndsDoes, FixupScriptDoes, FixupPthFileDoes,
       LinkDirDoes DEF RunStep
  <2> QED
    BY <2>1, CallBeginsDoes, CallLineDoes
<1> QED
  BY <1>2, <1>3, <1>4, <1>5, <1>6, <1>7, <1>8, <1>9, <1>10 DEF Next

\* A file that creation writes is written, or will be again.
LEMMA WrittenKept ==
  ASSUME Types, Listed, Consumes, ~opts.relocatable,
         NEW f \in {"site", "orig_prefix", "distutils", "activate"}, NEW t,
         Op("writefile", f, t) \in Duties(opts),
         \A p : Lawful(p, opts) /\ p.op = "writefile" /\ p.file = f => p.text = t,
         Ahead(todo, Op("writefile", f, t)) \/ fs[f] = Text(t)
  PROVE  Ahead(todo', Op("writefile", f, t)) \/ fs'[f] = Text(t)
<1> DEFINE p == Head(todo)
           q == Op("writefile", f, t)
<1>1. /\ Lawful(p, opts) /\ host \in Hosts /\ home \in Homes /\ opts \in Options
      /\ \A g \in Files : fs'[g] = fs[g] \/ Changes(p, g)
      /\ Result(p)
      /\ Ahead(todo, q) <=> q = p \/ Ahead(todo', q)
      /\ p.op = "rmtree" => Ahead(todo', q)
  BY Consumed
<1>2. /\ f \in Files /\ f \in Plain
      /\ f \notin Executables \union Scripts \union {"setuptools", "distutils_cfg", "pth"}
  BY DEF Files, LibFiles, Scripts, Executables, Plain
<1>3. CASE q = p
  <2>1. p.op = "writefile" /\ p.file = f /\ p.text = t
    BY <1>3 DEF Op
  <2> QED
    BY <1>1, <1>2, <2>1 DEF Result
<1>4. CASE fs[f] = Text(t)
  <2> SUFFICES ASSUME Changes(p, f), p.op # "rmtree" PROVE fs'[f] = Text(t)
    BY <1>1, <1>2, <1>4
  <2> HIDE DEF p
  <2>1. py_executable(opts) \in Executables
    BY <1>1, Given
  <2>2. p.op = "writefile" /\ p.file = f /\ fs'[f] = Text(p.text)
    <3>1. fs[f].is # "absent"
      BY <1>4 DEF Text
    <3> QED
      BY <1>1, <1>2, <2>1, <3>1 DEF Changes, Lawful, Scripts
  <2> QED
    BY <1>1, <2>2
<1> QED
  BY <1>1, <1>3, <1>4

LEMMA WritesKept ==
  ASSUME Types, Listed, Consumes, ~opts.relocatable
  PROVE  /\ Ahead(todo, WriteSite) \/ fs["site"] = Text(<<"SITE_PY">>) =>
              Ahead(todo', WriteSite) \/ fs'["site"] = Text(<<"SITE_PY">>)
         /\ Ahead(todo, WritePrefix) \/ fs["orig_prefix"] = Text(RealPrefix) =>
              Ahead(todo', WritePrefix) \/ fs'["orig_prefix"] = Text(RealPrefix)
         /\ Ahead(todo, WriteDistutils) \/ fs["distutils"] = Text(<<"DISTUTILS_INIT">>) =>
              Ahead(todo', WriteDistutils) \/ fs'["distutils"] = Text(<<"DISTUTILS_INIT">>)
         /\ Ahead(todo, WriteActivate(opts)) \/ fs["activate"] = Text(ActivateText(opts)) =>
              Ahead(todo', WriteActivate(opts)) \/ fs'["activate"] = Text(ActivateText(opts))
<1>1. /\ WriteSite \in Duties(opts) /\ WritePrefix \in Duties(opts)
      /\ WriteDistutils \in Duties(opts) /\ WriteActivate(opts) \in Duties(opts)
  BY DEF Duties
<1>2. ASSUME NEW p, Lawful(p, opts), p.op = "writefile"
      PROVE  /\ p.file = "site" => p.text = <<"SITE_PY">>
             /\ p.file = "orig_prefix" => p.text = RealPrefix
             /\ p.file = "distutils" => p.text = <<"DISTUTILS_INIT">>
             /\ p.file = "activate" => p.text = ActivateText(opts)
  BY <1>2 DEF Lawful
<1>3. /\ WriteSite = Op("writefile", "site", <<"SITE_PY">>)
      /\ WritePrefix = Op("writefile", "orig_prefix", RealPrefix)
      /\ WriteDistutils = Op("writefile", "distutils", <<"DISTUTILS_INIT">>)
      /\ WriteActivate(opts) = Op("writefile", "activate", ActivateText(opts))
  BY DEF WriteSite, WritePrefix, WriteDistutils, WriteActivate
<1>4. ASSUME Ahead(todo, WriteSite) \/ fs["site"] = Text(<<"SITE_PY">>)
      PROVE  Ahead(todo', WriteSite) \/ fs'["site"] = Text(<<"SITE_PY">>)
  BY <1>1, <1>2, <1>3, <1>4, WrittenKept
<1>5. ASSUME Ahead(todo, WritePrefix) \/ fs["orig_prefix"] = Text(RealPrefix)
      PROVE  Ahead(todo', WritePrefix) \/ fs'["orig_prefix"] = Text(RealPrefix)
  BY <1>1, <1>2, <1>3, <1>5, WrittenKept
<1>6. ASSUME Ahead(todo, WriteDistutils) \/ fs["distutils"] = Text(<<"DISTUTILS_INIT">>)
      PROVE  Ahead(todo', WriteDistutils) \/ fs'["distutils"] = Text(<<"DISTUTILS_INIT">>)
  BY <1>1, <1>2, <1>3, <1>6, WrittenKept
<1>7. ASSUME Ahead(todo, WriteActivate(opts)) \/ fs["activate"] = Text(ActivateText(opts))
      PROVE  Ahead(todo', WriteActivate(opts)) \/ fs'["activate"] = Text(ActivateText(opts))
  BY <1>1, <1>2, <1>3, <1>7, WrittenKept
<1> QED
  BY <1>4, <1>5, <1>6, <1>7

LEMMA FlagKept ==
  ASSUME Types, Listed, Consumes, ~opts.relocatable, Ahead(todo, Flagging(opts)) \/ Flagged
  PROVE  Ahead(todo', Flagging(opts)) \/ Flagged'
<1> DEFINE p == Head(todo)
           q == Flagging(opts)
           leaks == opts.by = "outer" /\ host.outer_flag
<1>1. /\ Lawful(p, opts) /\ host \in Hosts /\ home \in Homes /\ opts \in Options
      /\ \A g \in Files : fs'[g] = fs[g] \/ Changes(p, g)
      /\ Result(p) /\ host' = host /\ opts' = opts
      /\ Ahead(todo, q) <=> q = p \/ Ahead(todo', q)
      /\ p.op = "rmtree" => Ahead(todo', q)
  BY Consumed DEF Duties
<1>2. opts.no_site_packages \in BOOLEAN /\ "flag" \in Files /\ "flag" \notin Executables \union Scripts
  <2>1. opts.no_site_packages \in BOOLEAN
    BY <1>1, Given DEF Option
  <2> QED
    BY <2>1 DEF Files, LibFiles, Executables, Scripts
<1>3. CASE q = p
  <2>1. CASE opts.no_site_packages
    <3>1. p.op = "writefile" /\ p.file = "flag"
      <4>1. q = Op("writefile", "flag", <<"">>)
        BY <2>1 DEF Flagging
      <4>2. p = Op("writefile", "flag", <<"">>)
        BY <1>3, <4>1
      <4> HIDE DEF p, q
      <4> QED
        BY <4>2 DEF Op
    <3>2. fs'["flag"].is \notin {"absent", "torn"}
      BY <1>1, <3>1 DEF Result
    <3> QED
      BY <1>1, <1>2, <2>1, <3>2 DEF Flagged
  <2>2. CASE ~opts.no_site_packages
    <3>1. p.op = "unlink" /\ p.file = "flag"
      <4>1. q = Op("unlink", "flag", <<>>)
        BY <2>2 DEF Flagging
      <4>2. p = Op("unlink", "flag", <<>>)
        BY <1>3, <4>1
      <4> HIDE DEF p, q
      <4> QED
        BY <4>2 DEF Op
    <3>2. fs'["flag"].is = "absent"
      BY <1>1, <3>1 DEF Result, Absent
    <3> QED
      BY <1>1, <1>2, <2>2, <3>2 DEF Flagged
  <2> QED
    BY <2>1, <2>2
<1>4. CASE Flagged
  <2> SUFFICES ASSUME p.op # "rmtree" PROVE Flagged'
    BY <1>1
  <2>1. CASE fs'["flag"] = fs["flag"]
    BY <1>1, <1>4, <2>1 DEF Flagged
  <2>2. CASE Changes(p, "flag")
    <3> HIDE DEF p
    <3>1. py_executable(opts) \in Executables
      BY <1>1, Given
    <3>2. \/ leaks /\ fs'["flag"] = Source("flag")
          \/ opts.no_site_packages /\ fs'["flag"] = Text(p.text)
          \/ ~opts.no_site_packages /\ fs'["flag"] = Absent
      BY <1>1, <1>2, <2>2, <3>1 DEF Changes, Lawful
    <3>3. Source("flag").is \notin {"absent", "torn"}
      BY DEF Source
    <3>4. Text(p.text).is = "text" /\ Absent.is = "absent"
      BY DEF Text, Absent
    <3> QED
      BY <1>1, <1>2, <3>2, <3>3, <3>4 DEF Flagged
  <2> QED
    BY <1>1, <1>2, <2>1, <2>2
<1> QED
  BY <1>1, <1>3, <1>4

\* What easy_install leaves in its files.
ToolsIn(s, e) == s.is = "text" /\ e = Text(Shebang(home, BinDir, py_executable(opts)))
PipIn(p, l) == p.is = "text" /\ l.is = "text"

LEMMA ToolsKept ==
  ASSUME Types, Listed, Consumes, ~opts.relocatable
  PROVE  /\ Ahead(todo, Installing(opts)) \/ ToolsIn(fs["setuptools"], fs["easy_install"]) =>
              Ahead(todo', Installing(opts)) \/ ToolsIn(fs'["setuptools"], fs'["easy_install"])
         /\ Ahead(todo, InstallingPip) \/ PipIn(fs["pip"], fs["pth"]) =>
              Ahead(todo', InstallingPip) \/ PipIn(fs'["pip"], fs'["pth"])
<1> DEFINE p == Head(todo)
           q == Installing(opts)
           s == Text(Shebang(home, BinDir, py_executable(opts)))
<1>1. /\ Lawful(p, opts) /\ host \in Hosts /\ home \in Homes /\ opts \in Options /\ fs \in [Files -> File]
      /\ \A g \in Files : fs'[g] = fs[g] \/ Changes(p, g)
      /\ Result(p)
      /\ Ahead(todo, q) <=> q = p \/ Ahead(todo', q)
      /\ Ahead(todo, InstallingPip) <=> InstallingPip = p \/ Ahead(todo', InstallingPip)
      /\ p.op = "rmtree" => Ahead(todo', q) /\ Ahead(todo', InstallingPip)
  BY Consumed DEF Duties
<1>2. /\ {"setuptools", "easy_install", "pip", "pth"} \subseteq Files
      /\ {"setuptools", "easy_install", "pip", "pth"} \intersect Executables = {}
  BY DEF Files, LibFiles, Scripts, Executables
<1>3. py_executable(opts) \in Executables
  BY <1>1, Given
<1>4. q.op = "call" /\ q.file # "pip" /\ InstallingPip.op = "call" /\ InstallingPip.file = "pip"
  BY DEF Installing, InstallingPip, Op
<1> HIDE DEF p, q
<1>5. ASSUME p.op = "call"
      PROVE  /\ p.file # "pip" => ToolsIn(fs'["setuptools"], fs'["easy_install"])
             /\ p.file = "pip" => /\ fs'["pip"].is = "text"
                                  /\ fs'["setuptools"] = fs["setuptools"]
                                  /\ fs'["easy_install"] = fs["easy_install"]
             /\ p.file # "pip" => fs'["pip"] = fs["pip"]
             /\ fs'["pth"].is = "text"
  <2>1. fs' \in Installed(p.file)
    BY <1>1, <1>5 DEF Result
  <2>2. \A t : Text(t).is = "text"
    BY DEF Text
  <2>3. /\ fs'["pth"] \in PthLines
        /\ p.file = "pip" => /\ fs'["pip"] = s /\ fs'["setuptools"] = fs["setuptools"]
                             /\ fs'["easy_install"] = fs["easy_install"]
        /\ p.file # "pip" => /\ fs'["setuptools"] = Text(<<p.file>>) /\ fs'["easy_install"] = s
                             /\ fs'["pip"] = fs["pip"]
    BY <1>1, <2>1, InstalledIs
  <2>4. fs'["pth"].is = "text"
    BY <2>3, PthLinesAre
  <2> QED
    BY <2>2, <2>3, <2>4 DEF ToolsIn
<1>6. ASSUME p.op # "call", p.op # "rmtree", NEW f \in {"setuptools", "easy_install", "pip", "pth"}
      PROVE  fs'[f] = fs[f]
  <2>1. f \in Files /\ f \notin Executables
    BY <1>2, <1>6
  <2> SUFFICES ASSUME Changes(p, f) PROVE FALSE
    BY <1>1, <2>1
  <2> QED
    BY <1>1, <1>3, <1>6, <2>1 DEF Changes, Lawful
<1>7. ASSUME Ahead(todo, q) \/ ToolsIn(fs["setuptools"], fs["easy_install"])
      PROVE  Ahead(todo', q) \/ ToolsIn(fs'["setuptools"], fs'["easy_install"])
  BY <1>1, <1>4, <1>5, <1>6, <1>7
<1>8. ASSUME Ahead(todo, InstallingPip) \/ PipIn(fs["pip"], fs["pth"])
      PROVE  Ahead(todo', InstallingPip) \/ PipIn(fs'["pip"], fs'["pth"])
  <2>1. CASE p.op = "rmtree"
    BY <1>1, <2>1
  <2>2. CASE p.op = "call"
    BY <1>1, <1>4, <1>5, <1>8, <2>2 DEF PipIn
  <2>3. CASE p.op \notin {"rmtree", "call"}
    <3>1. fs'["pip"] = fs["pip"] /\ fs'["pth"] = fs["pth"]
      BY <1>6, <2>3
    <3> QED
      BY <1>1, <1>4, <1>8, <2>3, <3>1
  <2> QED
    BY <2>1, <2>2, <2>3
<1> QED
  BY <1>7, <1>8 DEF q

\* The links into the environment.
LEMMA LinksKept ==
  ASSUME Types, Listed, Consumes, ~opts.relocatable
  PROVE  /\ host.local /\ (Ahead(todo, LinkLocal) \/ fs["local"] = LinkTo(home)) =>
              Ahead(todo', LinkLocal) \/ fs'["local"] = LinkTo(home)
         /\ host.platform # "pypy" /\ (Ahead(todo, LinkLib64) \/ fs["lib64"] = LinkTo(home)) =>
              Ahead(todo', LinkLib64) \/ fs'["lib64"] = LinkTo(home)
<1> DEFINE p == Head(todo)
           l == LinkTo(home)
<1>1. /\ Lawful(p, opts) /\ host \in Hosts /\ home \in Homes /\ opts \in Options /\ fs \in [Files -> File]
      /\ \A g \in Files : fs'[g] = fs[g] \/ Changes(p, g)
      /\ Result(p)
      /\ \A q : Ahead(todo, q) <=> q = p \/ Ahead(todo', q)
      /\ p.op = "rmtree" => \A q \in Duties(opts) : Ahead(todo', q)
  BY Consumed
<1>2. py_executable(opts) \in Executables
  BY <1>1, Given
<1> HIDE DEF p
<1>3. ASSUME NEW f \in {"lib64", "local"}
      PROVE  /\ f \in Files /\ f \notin Executables \union Scripts \union LibFiles
             /\ f \notin {"include", "jars", "dylib", "activate"}
  BY DEF Files, LibFiles, Scripts, Executables
<1>4. ASSUME NEW f \in {"lib64", "local"}, p.op = "linkself", p.file = f PROVE fs'[f] = l
  <2>1. fs'[f] = l \/ (fs'[f] = fs[f] /\ Exists(fs[f], home))
    BY <1>1, <1>4 DEF Result
  <2>2. fs[f].is = "absent" \/ IsSelfLink(fs[f])
    BY DEF Types, Kinds
  <2>3. Exists(fs[f], home) => fs[f] = l
    BY <2>2 DEF Exists, Dangling
  <2> QED
    BY <2>1, <2>3
<1>5. ASSUME NEW f \in {"lib64", "local"}, fs[f] = l, p.op # "rmtree" PROVE fs'[f] = l
  <2>1. f \in Files /\ f \notin Executables \union Scripts \union LibFiles
        /\ f \notin {"include", "jars", "dylib", "activate"}
    BY <1>3
  <2>2. CASE Changes(p, f)
    <3>1. f \notin {"stdlib", "flag", "site", "orig_prefix", "distutils", "distutils_cfg", "setuptools",
                    "easy_install", "pip", "pth"}
      BY <2>1 DEF LibFiles, Scripts
    <3>2. p.op = "linkself" /\ f = p.file
      BY <1>1, <1>2, <1>5, <2>1, <2>2, <3>1 DEF Changes, Lawful
    <3> QED
      BY <1>4, <3>2
  <2> QED
    BY <1>1, <1>5, <2>1, <2>2
<1>6. ASSUME host.local, Ahead(todo, LinkLocal) \/ fs["local"] = l
      PROVE  Ahead(todo', LinkLocal) \/ fs'["local"] = l
  <2>1. LinkLocal \in Duties(opts)
    BY <1>6 DEF Duties
  <2>2. LinkLocal = p => p.op = "linkself" /\ p.file = "local"
    BY DEF LinkLocal, Op
  <2> QED
    BY <1>1, <1>4, <1>5, <1>6, <2>1, <2>2
<1>7. ASSUME host.platform # "pypy", Ahead(todo, LinkLib64) \/ fs["lib64"] = l
      PROVE  Ahead(todo', LinkLib64) \/ fs'["lib64"] = l
  <2>1. LinkLib64 = p => p.op = "linkself" /\ p.file = "lib64"
    BY DEF LinkLib64, Op
  <2>2. p.op = "rmtree" => fs'["lib64"] = fs["lib64"]
    <3>1. "lib64" \in Files /\ "lib64" \notin path_locations
      BY <1>3, <1>7 DEF path_locations
    <3> QED
      BY <1>1, <3>1 DEF Changes
  <2>3. p.op = "rmtree" => LinkLib64 # p
    BY <2>1
  <2> QED
    BY <1>1, <1>4, <1>5, <1>7, <2>1, <2>2, <2>3
<1> QED
  BY <1>6, <1>7

LEMMA RunsSame ==
  ASSUME NEW e \in Executables, home' = home, \A f \in Executables : fs'[f] = fs[f]
  PROVE  Runs(e)' <=> Runs(e)
<1>1. \A f \in Executables : Named(f)' = Named(f) /\ Named(f) \in Executables
  BY DEF Named
<1>2. \A f \in Executables : Loops(f)' <=> Loops(f)
  BY <1>1 DEF Loops
<1>3. \A f \in Executables : Present(f)' <=> Present(f)
  BY <1>1, <1>2 DEF Present
<1> QED
  BY <1>1, <1>3 DEF Runs

LEMMA TestKept ==
  ASSUME Types, Listed, Consumes, ~opts.relocatable,
         Ahead(todo, Testing(opts)) \/ Runs(py_executable(opts))
  PROVE  Ahead(todo', Testing(opts)) \/ Runs(py_executable(opts))'
<1> DEFINE p == Head(todo)
           q == Testing(opts)
           e == py_executable(opts)
<1>1. /\ Lawful(p, opts) /\ host \in Hosts /\ home \in Homes /\ opts \in Options
      /\ \A g \in Files : fs'[g] = fs[g] \/ Changes(p, g)
      /\ Result(p) /\ host' = host /\ home' = home /\ opts' = opts
      /\ Ahead(todo, q) <=> q = p \/ Ahead(todo', q)
      /\ p.op = "rmtree" => Ahead(todo', q)
      /\ p.op \in ExeOps => Ahead(todo', q)
  BY Consumed DEF Duties
<1>2. e \in Executables /\ Executables \subseteq Files
  BY <1>1, Given
<1>3. q.op = "test" /\ q.file = e
  BY DEF Testing, Op
<1> HIDE DEF p, q
<1> SUFFICES ASSUME p.op # "rmtree", p.op \notin ExeOps PROVE Ahead(todo', q) \/ Runs(e)'
  BY <1>1 DEF q
<1>4. ASSUME NEW f \in Executables PROVE fs'[f] = fs[f]
  <2>1. f \in Files
    BY <1>2
  <2> SUFFICES ASSUME Changes(p, f) PROVE FALSE
    BY <1>1, <2>1
  <2>2. f \notin {"stdlib", "include", "flag", "jars", "dylib", "site", "orig_prefix", "distutils",
                  "activate", "distutils_cfg", "setuptools", "easy_install", "pip", "pth"} \union Scripts
    BY DEF Executables, Scripts
  <2> QED
    BY <1>1, <2>2 DEF Changes, Lawful, ExeOps
<1>5. PICK c \in Executables : c = e
  BY <1>2
<1>6. Runs(c)' <=> Runs(c)
  BY <1>1, <1>4, RunsSame
<1>7. e' = c
  BY <1>1, <1>5 DEF py_executable
<1>8. Runs(e) => Runs(e)'
  BY <1>5, <1>6, <1>7
<1>9. q = p => Runs(e)
  BY <1>1, <1>3 DEF Result
<1> QED
  BY <1>1, <1>8, <1>9 DEF q

LEMMA TornKept ==
  ASSUME Types, Listed, Consumes, ~opts.relocatable
  PROVE  /\ Ahead(todo, Clearing) \/ (\A f \in path_locations : fs[f].is # "torn") =>
              Ahead(todo', Clearing) \/ \A f \in path_locations : fs'[f].is # "torn"
         /\ Ahead(todo, Dylib) \/ fs["dylib"].is # "torn" =>
              Ahead(todo', Dylib) \/ fs'["dylib"].is # "torn"
<1> DEFINE p == Head(todo)
<1>1. /\ Result(p)
      /\ \A q : Ahead(todo, q) <=> q = p \/ Ahead(todo', q)
      /\ host \in Hosts
  BY Consumed
<1>2. \A f \in Files : fs'[f].is = "torn" => fs[f].is = "torn"
  BY NothingTorn
<1>3. "dylib" \in Files /\ path_locations \subseteq Files
  BY DEF Files, path_locations
<1>4. p = Clearing => \A f \in path_locations : fs'[f].is # "torn"
  <2> HIDE DEF p
  <2>1. p = Clearing => p.op = "rmtree"
    BY DEF Clearing, Op
  <2> QED
    BY <1>1, <2>1 DEF Result, Absent
<1>5. p = Dylib => fs'["dylib"].is # "torn"
  <2> HIDE DEF p
  <2>1. p = Dylib => p.op = "unlink" /\ p.file = "dylib"
    BY DEF Dylib, Op
  <2> QED
    BY <1>1, <2>1 DEF Result, Absent
<1> HIDE DEF p
<1> QED
  BY <1>1, <1>2, <1>3, <1>4, <1>5

LEMMA SameDuties ==
  ASSUME host' = host, home' = home, opts' = opts
  PROVE  /\ Testing(opts)' = Testing(opts) /\ WriteActivate(opts)' = WriteActivate(opts)
         /\ Flagging(opts)' = Flagging(opts) /\ Installing(opts)' = Installing(opts)
         /\ py_executable(opts)' = py_executable(opts) /\ ActivateText(opts)' = ActivateText(opts)
         /\ BinDir' = BinDir /\ path_locations' = path_locations
<1>1. /\ py_executable(opts)' = py_executable(opts) /\ ActivateText(opts)' = ActivateText(opts)
  BY DEF py_executable, ActivateText
<1>2. Testing(opts)' = Testing(opts) /\ WriteActivate(opts)' = WriteActivate(opts)
  BY <1>1 DEF Testing, WriteActivate
<1>3. Flagging(opts)' = Flagging(opts) /\ Installing(opts)' = Installing(opts)
  OBVIOUS
<1>4. BinDir' = BinDir /\ path_locations' = path_locations
  BY DEF BinDir, path_locations
<1> QED
  BY <1>1, <1>2, <1>3, <1>4

LEMMA ProgressStep ==
  ASSUME Types, Listed, Progress, [Next]_vars
  PROVE  Progress'
<1>1. ASSUME NEW o \in Options, Start(o) PROVE Progress'
  <2>1. /\ host' = host /\ home' = home /\ todo' = main(o) /\ opts' = o /\ status' = "running"
        /\ host \in Hosts /\ home \in Homes
    BY <1>1 DEF Start, Types
  <2>2. ~Doomed(main(o)) => Complete(main(o), o)
    BY <2>1, MainGood
  <2> SUFFICES ASSUME ~Doomed(todo'), ~o.relocatable PROVE Progress'
    BY <2>1 DEF Progress
  <2>3. /\ \A p \in Duties(o) : Ahead(todo', p)
        /\ o.clear => Ahead(todo', Clearing)
        /\ host.platform = "framework" => Ahead(todo', Dylib)
        /\ host.lib64 => host.platform # "pypy" /\ Ahead(todo', LinkLib64)
    BY <2>1, <2>2 DEF Complete
  <2>4. /\ Ahead(todo', WriteSite) /\ Ahead(todo', WritePrefix) /\ Ahead(todo', WriteDistutils)
        /\ Ahead(todo', WriteActivate(o)) /\ Ahead(todo', Flagging(o)) /\ Ahead(todo', Installing(o))
        /\ Ahead(todo', InstallingPip) /\ Ahead(todo', Testing(o))
        /\ host.local => Ahead(todo', LinkLocal)
    BY <2>3 DEF Duties
  <2>5. Testing(opts)' = Testing(o) /\ WriteActivate(opts)' = WriteActivate(o)
    BY <2>1, SameRules
  <2> QED
    BY <2>1, <2>3, <2>4, <2>5 DEF Progress
<1>2. CASE Consumes
  <2>1. /\ host' = host /\ home' = home /\ opts' = opts /\ status = "running" /\ status' = "running"
        /\ ~Doomed(todo') => ~Doomed(todo)
    BY <1>2, Consumed
  <2> SUFFICES ASSUME ~Doomed(todo'), ~opts.relocatable PROVE Progress'
    BY <2>1 DEF Progress
  <2>2. /\ Ahead(todo, WriteSite) \/ fs["site"] = Text(<<"SITE_PY">>)
        /\ Ahead(todo, WritePrefix) \/ fs["orig_prefix"] = Text(RealPrefix)
        /\ Ahead(todo, WriteDistutils) \/ fs["distutils"] = Text(<<"DISTUTILS_INIT">>)
        /\ Ahead(todo, WriteActivate(opts)) \/ fs["activate"] = Text(ActivateText(opts))
        /\ Ahead(todo, Flagging(opts)) \/ Flagged
        /\ Ahead(todo, Installing(opts)) \/ ToolsIn(fs["setuptools"], fs["easy_install"])
        /\ Ahead(todo, InstallingPip) \/ PipIn(fs["pip"], fs["pth"])
        /\ Ahead(todo, Testing(opts)) \/ Runs(py_executable(opts))
        /\ opts.clear => Ahead(todo, Clearing) \/ \A f \in path_locations : fs[f].is # "torn"
        /\ host.platform = "framework" => Ahead(todo, Dylib) \/ fs["dylib"].is # "torn"
        /\ host.local => Ahead(todo, LinkLocal) \/ fs["local"] = LinkTo(home)
        /\ host.lib64 => /\ host.platform # "pypy"
                         /\ Ahead(todo, LinkLib64) \/ fs["lib64"] = LinkTo(home)
    BY <2>1 DEF Progress, ToolsIn, PipIn
  <2>3. /\ Ahead(todo', WriteSite) \/ fs'["site"] = Text(<<"SITE_PY">>)
        /\ Ahead(todo', WritePrefix) \/ fs'["orig_prefix"] = Text(RealPrefix)
        /\ Ahead(todo', WriteDistutils) \/ fs'["distutils"] = Text(<<"DISTUTILS_INIT">>)
        /\ Ahead(todo', WriteActivate(opts)) \/ fs'["activate"] = Text(ActivateText(opts))
    BY <1>2, <2>2, WritesKept
  <2>4. Ahead(todo', Flagging(opts)) \/ Flagged'
    BY <1>2, <2>2, FlagKept
  <2>5. /\ Ahead(todo', Installing(opts)) \/ ToolsIn(fs'["setuptools"], fs'["easy_install"])
        /\ Ahead(todo', InstallingPip) \/ PipIn(fs'["pip"], fs'["pth"])
    BY <1>2, <2>2, ToolsKept
  <2>6. Ahead(todo', Testing(opts)) \/ Runs(py_executable(opts))'
    BY <1>2, <2>2, TestKept
  <2>7. /\ opts.clear => Ahead(todo', Clearing) \/ \A f \in path_locations : fs'[f].is # "torn"
        /\ host.platform = "framework" => Ahead(todo', Dylib) \/ fs'["dylib"].is # "torn"
    BY <1>2, <2>2, TornKept
  <2>9. /\ host.local => Ahead(todo', LinkLocal) \/ fs'["local"] = LinkTo(home)
        /\ host.lib64 => /\ host.platform # "pypy"
                         /\ Ahead(todo', LinkLib64) \/ fs'["lib64"] = LinkTo(home)
    BY <1>2, <2>2, LinksKept
  <2>8. /\ Testing(opts)' = Testing(opts) /\ WriteActivate(opts)' = WriteActivate(opts)
        /\ Flagging(opts)' = Flagging(opts) /\ Installing(opts)' = Installing(opts)
        /\ py_executable(opts)' = py_executable(opts) /\ ActivateText(opts)' = ActivateText(opts)
        /\ BinDir' = BinDir /\ path_locations' = path_locations
    BY <2>1, SameDuties
  <2> QED
    BY <2>1, <2>3, <2>4, <2>5, <2>6, <2>7, <2>8, <2>9 DEF Progress, ToolsIn, PipIn
<1>3. CASE (Stays \/ RunEnds \/ UNCHANGED vars) /\ status' \in {"running", "done"}
  <2>1. /\ UNCHANGED <<host, home, opts, todo, fs>> /\ status \in {"running", "done"}
    BY <1>3 DEF Stays, RunEnds, vars
  <2>2. Runs(py_executable(opts))' <=> Runs(py_executable(opts))
    BY <2>1 DEF Runs, Present, Loops, Named, py_executable
  <2>3. /\ Testing(opts)' = Testing(opts) /\ WriteActivate(opts)' = WriteActivate(opts)
        /\ Flagging(opts)' = Flagging(opts) /\ Installing(opts)' = Installing(opts)
        /\ py_executable(opts)' = py_executable(opts) /\ ActivateText(opts)' = ActivateText(opts)
        /\ BinDir' = BinDir /\ path_locations' = path_locations
    BY <2>1, SameDuties
  <2>4. Flagged' <=> Flagged
    BY <2>1 DEF Flagged
  <2> QED
    BY <2>1, <2>2, <2>3, <2>4 DEF Progress
<1>4. CASE status' \notin {"running", "done"}
  BY <1>4 DEF Progress
<1>5. CASE Fails \/ Interrupt \/ InstallPackage \/ EditConfig \/ Move
  BY <1>4, <1>5 DEF Fails, Interrupt, InstallPackage, EditConfig, Move, Owner
<1> QED
  BY <1>1, <1>2, <1>3, <1>4, <1>5, RunStepDoes DEF Next

-----------------------------------------------------------------------------
(* Relocation. *)

LEMMA ShebangIs ==
  ASSUME NEW h \in Seq(Part), NEW b \in Part, NEW e \in Executables
  PROVE  /\ Shebang(h, b, e) # NewShebang /\ Last(Shebang(h, b, e)) = e
         /\ Shebang(h, b, e) \in Seq(Word)
<1> DEFINE s == <<"#!">> \o h
           t == <<b, e>>
           u == s \o t
<1>1. <<"#!">> \in Seq(Word) /\ h \in Seq(Word) /\ t \in Seq(Word)
  <2>1. "#!" \in Word /\ b \in Word /\ e \in Word
    BY DEF Word, Files
  <2>2. Part \subseteq Word
    BY DEF Word
  <2>3. h \in Seq(Word)
    BY <2>2
  <2> QED
    BY <2>1, <2>3
<1>2. Len(h) \in Nat /\ Len(<<"#!">>) = 1 /\ <<"#!">>[1] = "#!" /\ Len(t) = 2 /\ t[2] = e
  OBVIOUS
<1> HIDE DEF t
<1>3. /\ s \in Seq(Word) /\ Len(s) = 1 + Len(h)
      /\ \A i \in 1..Len(<<"#!">>) + Len(h) : s[i] = IF i <= Len(<<"#!">>) THEN <<"#!">>[i]
                                                     ELSE h[i - Len(<<"#!">>)]
  BY <1>1, <1>2, ConcatProperties
<1>4. s[1] = "#!"
  <2>1. 1 \in 1..Len(<<"#!">>) + Len(h) /\ 1 <= Len(<<"#!">>)
    BY <1>2
  <2> QED
    BY <1>2, <1>3, <2>1
<1> HIDE DEF s
<1>5. /\ u \in Seq(Word) /\ Len(u) = Len(s) + Len(t)
      /\ \A i \in 1..Len(s) + Len(t) : u[i] = IF i <= Len(s) THEN s[i] ELSE t[i - Len(s)]
  <2>1. s \in Seq(Word) /\ t \in Seq(Word)
    BY <1>1, <1>3
  <2> QED
    BY <2>1, ConcatProperties
<1> HIDE DEF u
<1>6. u[1] = "#!" /\ Len(u) = Len(s) + 2 /\ Len(s) \in Nat \ {0}
  <2>1. 1 \in 1..Len(s) + Len(t) /\ 1 <= Len(s)
    BY <1>2, <1>3
  <2> QED
    BY <1>2, <1>3, <1>4, <1>5, <2>1
<1>7. u[Len(u)] = e
  <2>1. PICK i \in Int : i = Len(u)
    BY <1>6
  <2>2. i \in 1..Len(s) + Len(t) /\ ~(i <= Len(s)) /\ i - Len(s) = 2
    BY <1>2, <1>6, <2>1
  <2>3. u[i] = t[i - Len(s)]
    BY <1>5, <2>2
  <2> QED
    BY <1>2, <2>1, <2>2, <2>3
<1>8. NewShebang[1] = "#!/usr/bin/env"
  BY DEF NewShebang
<1>9. u # NewShebang
  BY <1>6, <1>8
<1>10. Shebang(h, b, e) = u
  BY DEF Shebang, u, s, t
<1> QED
  BY <1>5, <1>7, <1>9, <1>10 DEF Last

\* The fixed script is fixed.
LEMMA ScriptFixed ==
  ASSUME NEW h \in Seq(Part), NEW x
  PROVE  /\ fixup_script(fixup_script(x, h), h) = fixup_script(x, h)
         /\ fixup_script(x, h) = x \/ fixup_script(x, h) = Text(NewShebang)
<1>1. "bin" \in Part /\ {"python", "python2.6"} \subseteq Executables
  BY DEF Part, Executables
<1>2. \A e \in {"python", "python2.6"} : NewShebang # Shebang(h, "bin", e)
  BY <1>1, ShebangIs
<1>3. Text(NewShebang).text = NewShebang
  BY DEF Text
<1>4. fixup_script(Text(NewShebang), h) = Text(NewShebang)
  BY <1>2, <1>3 DEF fixup_script
<1>5. fixup_script(x, h) = x \/ fixup_script(x, h) = Text(NewShebang)
  BY DEF fixup_script
<1> QED
  BY <1>4, <1>5

\* The directory of the .pth file, in the environment.
Inner == IF host.platform = "pypy" THEN <<"site-packages">>
         ELSE <<"lib", "python2.6", "site-packages">>

LEMMA FrontPth ==
  ASSUME NEW h \in Seq(Part)
  PROVE  /\ Inner \in Seq(Part) /\ Inner # <<"src">> /\ Len(PthFile(<<>>)) = Len(Inner) + 1
         /\ Front(PthFile(h)) = h \o Inner
<1> DEFINE f == <<"easy-install.pth">>
           t == IF host.platform = "pypy" THEN <<"site-packages", "easy-install.pth">>
                ELSE <<"lib", "python2.6", "site-packages", "easy-install.pth">>
<1>1. /\ Inner \in Seq(Part) /\ f \in Seq(Part) /\ t = Inner \o f
      /\ Inner # <<"src">>
  <2>1. "lib" \in Part /\ "python2.6" \in Part /\ "site-packages" \in Part /\ "easy-install.pth" \in Part
    BY DEF Part
  <2>2. Inner \in Seq(Part) /\ f \in Seq(Part)
    BY <2>1 DEF Inner
  <2>3. t = Inner \o f
    <3>1. <<"site-packages", "easy-install.pth">> = <<"site-packages">> \o <<"easy-install.pth">>
      OBVIOUS
    <3>2. <<"lib", "python2.6", "site-packages", "easy-install.pth">>
            = <<"lib", "python2.6", "site-packages">> \o <<"easy-install.pth">>
      OBVIOUS
    <3> QED
      BY <3>1, <3>2 DEF Inner
  <2>4. Inner # <<"src">>
    <3>1. Inner[1] \in {"site-packages", "lib"}
      BY DEF Inner
    <3> QED
      BY <3>1
  <2> QED
    BY <2>2, <2>3, <2>4
<1>2. PthFile(h) = h \o t /\ PthFile(<<>>) = <<>> \o t
  BY DEF PthFile
<1>3. Len(f) = 1 /\ <<>> \in Seq(Part) /\ Len(h) \in Nat /\ Len(Inner) \in Nat /\ f[1] = "easy-install.pth"
  BY <1>1
<1> HIDE DEF t, f
<1>4. t \in Seq(Part) /\ Len(t) = Len(Inner) + 1
  BY <1>1, <1>3, ConcatProperties
<1>5. <<>> \o t = t
  BY <1>4, ConcatEmptySeq
<1> DEFINE a == h \o Inner
<1>6. a \in Seq(Part) /\ PthFile(h) = a \o f
  BY <1>1, <1>2, ConcatProperties, ConcatAssociative, SMTT(60)
<1> HIDE DEF a
<1>7. /\ a \o f \in Seq(Part) /\ Len(a \o f) = Len(a) + 1 /\ Len(a) \in Nat
      /\ \A i \in 1..Len(a) + Len(f) : (a \o f)[i] = IF i <= Len(a) THEN a[i] ELSE f[i - Len(a)]
  <2>1. a \in Seq(Part) /\ f \in Seq(Part)
    BY <1>1, <1>6
  <2>2. /\ a \o f \in Seq(Part) /\ Len(a \o f) = Len(a) + Len(f)
        /\ \A i \in 1..Len(a) + Len(f) : (a \o f)[i] = IF i <= Len(a) THEN a[i] ELSE f[i - Len(a)]
    BY <2>1, ConcatProperties
  <2>3. Len(a) \in Nat
    BY <2>1
  <2> QED
    BY <1>3, <2>2, <2>3
<1> DEFINE b == SubSeq(a \o f, 1, Len(a \o f) - 1)
<1>8. b = a
  <2>1. PICK g \in Seq(Part) : g = a \o f
    BY <1>7
  <2>2. Len(g) - 1 = Len(a) /\ \A i \in 1..(Len(g) - 1) : g[i] = a[i] /\ g[i] \in Part
    BY <1>3, <1>6, <1>7, <2>1
  <2>3. 1 \in Int /\ Len(g) - 1 \in Int
    BY <1>7, <2>2
  <2>4. /\ SubSeq(g, 1, Len(g) - 1) \in Seq(Part)
        /\ Len(SubSeq(g, 1, Len(g) - 1)) = IF 1 <= Len(g) - 1 THEN Len(g) - 1 - 1 + 1 ELSE 0
        /\ \A i \in 1..Len(g) - 1 - 1 + 1 : SubSeq(g, 1, Len(g) - 1)[i] = g[1 + i - 1]
    BY <2>2, <2>3, SubSeqProperties
  <2>5. PICK w \in Seq(Part) : w = SubSeq(g, 1, Len(g) - 1)
    BY <2>4
  <2>6. Len(w) = Len(a)
    BY <1>7, <2>2, <2>4, <2>5
  <2>7. ASSUME NEW i \in 1..Len(w) PROVE w[i] = a[i]
    <3>1. i \in 1..(Len(g) - 1) /\ i \in 1..Len(g) - 1 - 1 + 1 /\ 1 + i - 1 = i
      BY <1>7, <2>2, <2>6
    <3> QED
      BY <2>2, <2>4, <2>5, <3>1
  <2>8. w = a
    BY <1>6, <2>6, <2>7, SeqEqual
  <2> QED
    BY <2>1, <2>5, <2>8
<1> QED
  BY <1>1, <1>2, <1>4, <1>5, <1>6, <1>8 DEF Front, a

LEMMA FixedConsumed ==
  ASSUME Types, Listed, Consumes, opts.relocatable, NEW f \in Movable,
         Ahead(todo, Fixup(f)) \/ Fixed(f)
  PROVE  Ahead(todo', Fixup(f)) \/ Fixed(f)'
<1> DEFINE p == Head(todo)
           q == Fixup(f)
<1>1. /\ Lawful(p, opts) /\ host \in Hosts /\ home \in Homes /\ opts \in Options /\ home' = home
      /\ host' = host
      /\ \A g \in Files : fs'[g] = fs[g] \/ Changes(p, g)
      /\ Result(p)
      /\ Ahead(todo, q) <=> q = p \/ Ahead(todo', q)
  BY Consumed
<1>2. f \in Files /\ "pth" \in Files /\ "pth" \notin Scripts /\ home \in Seq(Part)
  BY <1>1, Given DEF Movable, Files, LibFiles, Scripts
<1>3. p.op \in {"fixup_script", "fixup_pth_file"}
  BY <1>1 DEF Lawful
<1>4. CASE f = "pth"
  <2>1. q = p => p.op = "fixup_pth_file"
    <3> HIDE DEF p
    <3> QED
      BY <1>4 DEF Fixup, Op
  <2> HIDE DEF p, q
  <2>2. Changes(p, "pth") => p.op = "fixup_pth_file"
    BY <1>1, <1>2, <1>3 DEF Changes, Lawful
  <2>3. p.op = "fixup_pth_file" => fs'["pth"] = fixup_line(fs["pth"], PthFile(home))
    BY <1>1 DEF Result
  <2>4. p.op = "fixup_pth_file" => Fixed("pth")'
    BY <2>3, LineFixed DEF Fixed
  <2>5. Fixed("pth") /\ fs'["pth"] = fs["pth"] => Fixed("pth")'
    BY DEF Fixed
  <2> QED
    BY <1>1, <1>2, <1>4, <2>1, <2>2, <2>4, <2>5 DEF q
<1>5. CASE f # "pth"
  <2>1. q = p => p.op = "fixup_script" /\ p.file = f
    <3> HIDE DEF p
    <3> QED
      BY <1>5 DEF Fixup, Op
  <2> HIDE DEF p, q
  <2>2. Changes(p, f) => p.op = "fixup_script" /\ p.file = f
    BY <1>1, <1>3, <1>5 DEF Changes, Lawful
  <2>3. p.op = "fixup_script" /\ p.file = f => fs'[f] = fixup_script(fs[f], home)
    BY <1>1 DEF Result
  <2>4. fixup_script(fixup_script(fs[f], home), home) = fixup_script(fs[f], home)
    BY <1>2, ScriptFixed
  <2>5. p.op = "fixup_script" /\ p.file = f => Fixed(f)'
    BY <1>1, <1>5, <2>3, <2>4 DEF Fixed
  <2>6. Fixed(f) /\ fs'[f] = fs[f] => Fixed(f)'
    BY <1>1, <1>5 DEF Fixed
  <2> QED
    BY <1>1, <1>2, <2>1, <2>2, <2>5, <2>6 DEF q
<1> QED
  BY <1>4, <1>5

LEMMA FixingStep ==
  ASSUME Types, Listed, Fixing, [Next]_vars
  PROVE  Fixing'
<1>1. ASSUME NEW o \in Options, Start(o) PROVE Fixing'
  <2>1. /\ host' = host /\ home' = home /\ todo' = main(o) /\ opts' = o
        /\ host \in Hosts /\ home \in Homes
    BY <1>1 DEF Start, Types
  <2>2. ~Doomed(main(o)) => Complete(main(o), o)
    BY <2>1, MainGood
  <2> SUFFICES ASSUME ~Doomed(todo'), o.relocatable, o.by = "env"
               PROVE  \A f \in Movable : Ahead(todo', Fixup(f))
    BY <2>1 DEF Fixing
  <2>3. \A p \in Fixups : Ahead(todo', p)
    BY <2>1, <2>2 DEF Complete
  <2>4. \A f \in Movable : Fixup(f) \in Fixups
    BY DEF Movable, Fixup, Fixups
  <2> QED
    BY <2>3, <2>4
<1>2. CASE Consumes
  <2>1. /\ opts' = opts /\ status = "running" /\ ~Doomed(todo') => ~Doomed(todo)
    BY <1>2, Consumed
  <2>2. status = "running" /\ opts' = opts
    BY <1>2, Consumed
  <2> SUFFICES ASSUME ~Doomed(todo'), opts.relocatable, opts.by = "env", NEW f \in Movable
               PROVE  Ahead(todo', Fixup(f)) \/ Fixed(f)'
    BY <2>2 DEF Fixing
  <2>3. Ahead(todo, Fixup(f)) \/ Fixed(f)
    BY <2>1, <2>2 DEF Fixing
  <2> QED
    BY <1>2, <2>3, FixedConsumed
<1>3. CASE (Stays \/ RunEnds \/ UNCHANGED vars) /\ status' \in {"running", "done"}
  <2>1. /\ UNCHANGED <<host, home, opts, todo, fs>> /\ status \in {"running", "done"}
    BY <1>3 DEF Stays, RunEnds, vars
  <2>2. \A f : Fixed(f)' <=> Fixed(f)
    BY <2>1 DEF Fixed
  <2> QED
    BY <2>1, <2>2 DEF Fixing
<1>4. CASE status' \notin {"running", "done"}
  BY <1>4 DEF Fixing
<1>5. CASE Fails \/ Interrupt \/ InstallPackage \/ EditConfig \/ Move
  BY <1>4, <1>5 DEF Fails, Interrupt, InstallPackage, EditConfig, Move, Owner
<1> QED
  BY <1>1, <1>2, <1>3, <1>4, <1>5, RunStepDoes DEF Next

LEMMA WordsAssociative ==
  \A a, b, c \in Seq(Word) : (a \o b) \o c = a \o (b \o c)
  BY ConcatAssociative

\* A path that does not lead out of the environment leads to the same place in every one.
LEMMA PathMoves ==
  ASSUME NEW h \in Seq(Part), NEW d \in Seq(Part), NEW t \in Seq(Word), ~IsAbs(t),
         Ups(t) < Len(PthFile(<<>>)), Resolve(PthFile(h), t) = h \o <<"src">>
  PROVE  Resolve(PthFile(d), t) = d \o <<"src">>
<1> DEFINE u == Ups(t)
           I == Inner
           r == SubSeq(t, u + 1, Len(t))
           x == SubSeq(I, 1, Len(I) - u)
           g == <<"src">>
<1>1. /\ I \in Seq(Part) /\ I # g /\ Len(PthFile(<<>>)) = Len(I) + 1
      /\ Front(PthFile(h)) = h \o I /\ Front(PthFile(d)) = d \o I
  BY FrontPth
<1>2. g \in Seq(Part) /\ Part \subseteq Word
  BY SrcPath DEF Word
<1> HIDE DEF I, g
<1>3. u \in Nat /\ Len(I) \in Nat /\ u <= Len(I) /\ Len(t) \in Nat
  <2>1. Len(t) \in Nat /\ DOMAIN t = 1..Len(t) /\ Len(I) \in Nat
    BY <1>1
  <2>2. IsFiniteSet(1..Len(t))
    BY <2>1, FS_Interval
  <2>3. IsFiniteSet({i \in DOMAIN t : t[i] = ".."})
    BY <2>1, <2>2, FS_Subset
  <2>4. u \in Nat
    BY <2>3, FS_CardinalityType DEF Ups
  <2> HIDE DEF u
  <2>5. u < Len(I) + 1
    BY <1>1 DEF u
  <2> QED
    BY <2>1, <2>4, <2>5
<1> HIDE DEF u
<1>4. t # <<"./">>
  <2> SUFFICES ASSUME t = <<"./">> PROVE FALSE
    OBVIOUS
  <2>1. h \o I = h \o g
    BY <1>1 DEF Resolve, g
  <2>2. I = g
    BY <1>1, <1>2, <2>1, ConcatSimplifications
  <2> QED
    BY <1>1, <2>2
<1>5. r \in Seq(Word)
  <2>1. \A i \in (u + 1)..Len(t) : t[i] \in Word
    BY <1>3
  <2> QED
    BY <1>3, <2>1, SubSeqProperties
<1>6. x \in Seq(Part)
  <2>1. \A i \in 1..(Len(I) - u) : I[i] \in Part
    BY <1>1, <1>3
  <2> QED
    BY <1>3, <2>1, SubSeqProperties
<1>7. ASSUME NEW c \in Seq(Part), Front(PthFile(c)) = c \o I
      PROVE  Resolve(PthFile(c), t) = c \o (x \o r)
  <2> DEFINE y == c \o I
  <2>1. /\ y \in Seq(Part) /\ Len(y) = Len(c) + Len(I) /\ Len(c) \in Nat
        /\ \A i \in 1..Len(c) + Len(I) : y[i] = IF i <= Len(c) THEN c[i] ELSE I[i - Len(c)]
    BY <1>1, ConcatProperties
  <2>2. Resolve(PthFile(c), t) = SubSeq(y, 1, Len(y) - u) \o r
    BY <1>4, <1>7 DEF Resolve, u
  <2> HIDE DEF y
  <2>3. SubSeq(y, 1, Len(y) - u) = c \o x
    <3> DEFINE n == Len(I) - u
               z == c \o x
               w == SubSeq(y, 1, Len(y) - u)
    <3>1. n \in Nat /\ n <= Len(I) /\ Len(y) - u = Len(c) + n
      BY <1>3, <2>1
    <3>2. /\ x \in Seq(Part) /\ Len(x) = n /\ \A i \in 1..n : x[i] = I[i]
      <4>1. \A i \in 1..n : I[i] \in Part
        BY <1>1, <1>3
      <4>2. /\ Len(x) = (IF 1 <= n THEN n - 1 + 1 ELSE 0)
            /\ \A i \in 1..n - 1 + 1 : x[i] = I[1 + i - 1]
        BY <1>3, <4>1, SubSeqProperties
      <4> HIDE DEF x, n
      <4> QED
        BY <1>6, <3>1, <4>2
    <3> HIDE DEF x, n
    <3>3. /\ z \in Seq(Part) /\ Len(z) = Len(c) + Len(x)
          /\ \A i \in 1..Len(c) + Len(x) : z[i] = IF i <= Len(c) THEN c[i] ELSE x[i - Len(c)]
      BY <3>2, ConcatProperties, ZenonT(60)
    <3> HIDE DEF z
    <3>4. PICK m \in Nat : m = Len(c) + n /\ m = Len(y) - u /\ m <= Len(y)
      <4>1. Len(c) \in Nat /\ Len(y) \in Nat /\ Len(y) = Len(c) + Len(I)
        BY <2>1
      <4> QED
        BY <1>3, <3>1, <4>1, SMTT(60)
    <3>5. \A i \in 1..m : y[i] \in Part
      BY <2>1, <3>4
    <3>6. /\ w \in Seq(Part) /\ Len(w) = (IF 1 <= m THEN m - 1 + 1 ELSE 0)
          /\ \A i \in 1..m - 1 + 1 : w[i] = y[1 + i - 1]
      BY <3>4, <3>5, SubSeqProperties
    <3> HIDE DEF w
    <3>7. Len(w) = m /\ Len(z) = m
      BY <3>2, <3>3, <3>4, <3>6
    <3>8. ASSUME NEW i \in 1..m PROVE w[i] = z[i]
      <4>1. w[i] = y[i]
        <5>1. i \in 1..m - 1 + 1 /\ 1 + i - 1 = i
          BY <3>4
        <5> QED
          BY <3>6, <5>1
      <4>2. CASE i <= Len(c)
        <5>1. i \in 1..Len(c) + Len(I) /\ i \in 1..Len(c) + Len(x)
          BY <1>3, <2>1, <3>1, <3>2, <3>4, <4>2
        <5> QED
          BY <2>1, <3>3, <4>1, <4>2, <5>1
      <4>3. CASE ~(i <= Len(c))
        <5>1. i \in 1..Len(c) + Len(I) /\ i \in 1..Len(c) + Len(x) /\ i - Len(c) \in 1..n
          BY <1>3, <2>1, <3>1, <3>2, <3>4, <4>3
        <5>2. y[i] = I[i - Len(c)]
          BY <2>1, <4>3, <5>1
        <5>3. z[i] = x[i - Len(c)]
          BY <3>3, <4>3, <5>1
        <5> QED
          BY <3>2, <4>1, <5>1, <5>2, <5>3
      <4> QED
        BY <4>2, <4>3
    <3>9. w = z
      BY <3>3, <3>6, <3>7, <3>8, SeqEqual
    <3> QED
      BY <3>9 DEF w, z
  <2>4. (c \o x) \o r = c \o (x \o r)
    <3>1. c \in Seq(Word) /\ x \in Seq(Word) /\ r \in Seq(Word)
      BY <1>2, <1>5, <1>6
    <3> HIDE DEF x, r
    <3> QED
      BY <3>1, WordsAssociative
  <2> QED
    BY <2>2, <2>3, <2>4
<1>8. x \o r = g
  <2>1. Resolve(PthFile(h), t) = h \o (x \o r)
    BY <1>1, <1>7
  <2>2. h \o (x \o r) = h \o g
    BY <2>1 DEF g
  <2>3. h \in Seq(Word) /\ x \o r \in Seq(Word) /\ g \in Seq(Word)
    <3>1. x \in Seq(Word)
      BY <1>2, <1>6
    <3> QED
      BY <1>2, <1>5, <3>1, ConcatProperties
  <2>4. PICK k \in Seq(Word) : k = x \o r
    BY <2>3
  <2>5. h \o k = h \o g
    BY <2>2, <2>4
  <2>6. k = g
    BY <2>3, <2>5, ConcatSimplifications
  <2> QED
    BY <2>4, <2>6
<1>9. Resolve(PthFile(d), t) = d \o (x \o r)
  BY <1>1, <1>7
<1> QED
  BY <1>8, <1>9 DEF g

\* What a relocation has been through with.
LEMMA Relocating ==
  ASSUME Types, Listed, Fixing, RunEnds, NEW f \in relocated', Relocatable(f), NEW h \in Homes
  PROVE  WorksIn(f, h)
<1>1. /\ opts.relocatable /\ opts.by = "env" /\ f \in Movable /\ Works(f)
      /\ status = "running" /\ todo = <<>>
  BY DEF RunEnds
<1>2. Fixed(f)
  <2>1. ~Doomed(todo) /\ ~Ahead(todo, Fixup(f))
    BY <1>1, None
  <2> QED
    BY <1>1, <2>1 DEF Fixing
<1>3. home \in Seq(Part) /\ h \in Seq(Part) /\ host \in Hosts
  <2>1. home \in Homes /\ host \in Hosts /\ opts \in Options
    BY DEF Types
  <2>2. Homes \subseteq Seq(Names) /\ Names \subseteq Part
    BY VirtualenvAssumption DEF VirtualenvAssumption, Part
  <2>3. h \in Seq(Part)
    BY <2>2
  <2> QED
    BY <2>1, <2>3, Given
<1>4. CASE f = "pth"
  <2> DEFINE t == fs["pth"].text
  <2>1. dev = "in" /\ Ups(t) < Len(PthFile(<<>>))
    BY <1>4 DEF Relocatable
  <2>2. fs["pth"].is = "text" /\ Resolve(PthFile(home), t) = home \o <<"src">>
    BY <1>1, <1>4, <2>1 DEF Package, Works
  <2>3. ~IsAbs(t)
    BY <1>2, <1>4, <2>2 DEF Fixed
  <2>4. t \in Seq(Word)
    <3>1. "pth" \in Files /\ fs \in [Files -> File]
      BY DEF Types, Kinds, Files, LibFiles
    <3>2. fs["pth"] \in File
      BY <3>1
    <3> QED
      BY <3>2 DEF File
  <2> HIDE DEF t
  <2>5. Resolve(PthFile(h), t) = h \o <<"src">>
    BY <1>3, <2>1, <2>2, <2>3, <2>4, PathMoves
  <2> QED
    BY <1>4, <2>1, <2>2, <2>5 DEF WorksIn, t
<1>5. CASE f # "pth"
  <2>1. CASE fs[f] = Text(NewShebang) /\ fs["activate"].is = "text"
    BY <1>5, <2>1 DEF WorksIn
  <2>2. CASE fs[f] \in {Text(Shebang(home, BinDir, e)) : e \in Executables}
    <3>1. PICK e \in Executables : fs[f] = Text(Shebang(home, BinDir, e))
      BY <2>2
    <3>2. Posix /\ Last(fs[f].text) \in {"python", "python2.6", "activate_this.py"}
      BY <1>5 DEF Relocatable
    <3>3. BinDir = "bin" /\ BinDir \in Part
      BY <3>2 DEF Posix, BinDir, Part
    <3>4. /\ Shebang(home, BinDir, e) # NewShebang /\ Last(Shebang(home, BinDir, e)) = e
      BY <1>3, <3>3, ShebangIs
    <3>5. fs[f].is = "text" /\ fs[f].text = Shebang(home, BinDir, e)
      BY <3>1 DEF Text
    <3>6. e \in {"python", "python2.6"}
      <4>1. "activate_this.py" \notin Executables
        BY DEF Executables
      <4> QED
        BY <3>2, <3>4, <3>5, <4>1
    <3>7. fixup_script(fs[f], home) = Text(NewShebang)
      BY <3>3, <3>5, <3>6 DEF fixup_script
    <3>8. fs[f] = Text(NewShebang)
      BY <1>2, <1>5, <3>7 DEF Fixed
    <3>9. FALSE
      BY <3>4, <3>5, <3>8 DEF Text
    <3> QED
      BY <3>9
  <2> QED
    BY <1>1, <1>5, <2>1, <2>2 DEF Works
<1> QED
  BY <1>4, <1>5

\* Whether it works in a directory does not depend on where it is.
LEMMA WorksSame ==
  ASSUME NEW f \in Movable, NEW h, fs'[f] = fs[f], fs'["pth"] = fs["pth"],
         fs'["activate"] = fs["activate"], dev' = dev, host' = host
  PROVE  (Relocatable(f)' <=> Relocatable(f)) /\ (WorksIn(f, h)' <=> WorksIn(f, h))
<1>1. PthFile(<<>>)' = PthFile(<<>>) /\ PthFile(h)' = PthFile(h) /\ BinDir' = BinDir /\ (Posix' <=> Posix)
  BY DEF PthFile, BinDir, Posix
<1>2. Relocatable(f)' <=> Relocatable(f)
  BY <1>1 DEF Relocatable
<1>3. WorksIn(f, h)' <=> WorksIn(f, h)
  BY <1>1 DEF WorksIn
<1> QED
  BY <1>2, <1>3

LEMMA MovedWorksStep ==
  ASSUME Types, Listed, Fixing, MovedWorks, [Next]_vars
  PROVE  MovedWorks'
<1>1. CASE relocated' = {}
  BY <1>1 DEF MovedWorks
<1>2. CASE RunEnds
  <2> SUFFICES ASSUME NEW f \in relocated', Relocatable(f)', NEW h \in Homes PROVE WorksIn(f, h)'
    BY DEF MovedWorks
  <2>1. f \in Movable
    BY <1>2 DEF RunEnds
  <2>2. (Relocatable(f)' <=> Relocatable(f)) /\ (WorksIn(f, h)' <=> WorksIn(f, h))
    BY <1>2, <2>1, WorksSame DEF RunEnds
  <2> QED
    BY <1>2, <2>2, Relocating
<1>3. CASE EditConfig \/ Move \/ UNCHANGED vars
  <2>1. relocated' = relocated /\ relocated \subseteq Movable /\ dev' = dev /\ host' = host
    BY <1>3 DEF EditConfig, Move, Rests, vars, Types
  <2>2. \A f \in Movable \union {"activate", "pth"} : fs'[f] = fs[f]
    <3>1. "distutils_cfg" \notin Movable \union {"activate", "pth"} /\ Movable \union {"activate", "pth"} \subseteq Files
          /\ "distutils_cfg" \in Files
      BY DEF Movable, Scripts, Files, LibFiles
    <3>2. fs \in [Files -> File]
      BY DEF Types, Kinds
    <3> QED
      BY <1>3, <3>1, <3>2 DEF EditConfig, Move, vars
  <2> SUFFICES ASSUME NEW f \in relocated', Relocatable(f)', NEW h \in Homes PROVE WorksIn(f, h)'
    BY DEF MovedWorks
  <2>3. (Relocatable(f)' <=> Relocatable(f)) /\ (WorksIn(f, h)' <=> WorksIn(f, h))
    BY <2>1, <2>2, WorksSame
  <2> QED
    BY <2>1, <2>3 DEF MovedWorks
<1>4. ASSUME NEW o \in Options, Start(o) PROVE relocated' = {}
  BY <1>4 DEF Start
<1>5. Consumes \/ Fails \/ Stays \/ Interrupt \/ InstallPackage => relocated' = {}
  BY DEF Consumes, Fails, Stays, Interrupt, InstallPackage, Listed
<1> QED
  BY <1>1, <1>2, <1>3, <1>4, <1>5, RunStepDoes DEF Next

-----------------------------------------------------------------------------
(* The logger. *)

Loggers == [level : Int, in_progress : BOOLEAN, in_progress_hanging : BOOLEAN,
            tty : {"start", "open"}]

LEMMA NewLoggerIs ==
  ASSUME NEW n \in Int
  PROVE  /\ NewLogger(n) \in Loggers /\ NewLogger(n).tty = "start"
         /\ ~NewLogger(n).in_progress /\ ~NewLogger(n).in_progress_hanging
<1> DEFINE m == 2 - n
<1>1. m \in Int
  OBVIOUS
<1> HIDE DEF m
<1>2. level_for_integer(m) \in Int
  <2>1. CASE m \in 0..5
    <3>1. m \in {0, 1, 2, 3, 4, 5}
      BY <2>1
    <3>2. LEVELS[m + 1] \in Int
      BY <3>1 DEF LEVELS, DEBUG, INFO, NOTIFY, WARN, ERROR, FATAL
    <3> QED
      BY <2>1, <3>2 DEF level_for_integer
  <2>2. CASE m < 0 \/ m >= 6
    BY <1>1, <2>2 DEF level_for_integer, DEBUG, FATAL
  <2> QED
    BY <1>1, <2>1, <2>2
<1>3. NewLogger(n) = [level |-> level_for_integer(m), in_progress |-> FALSE,
                      in_progress_hanging |-> FALSE, tty |-> "start"]
  BY DEF NewLogger, m
<1> QED
  BY <1>2, <1>3 DEF Loggers

\* One line of the logger: as Logged, for a logger of which nothing else is known.
Whole(l) ==
  /\ l \in Loggers
  /\ l.in_progress_hanging => l.in_progress /\ level_matches(l, NOTIFY)
  /\ l.tty = (IF l.in_progress_hanging THEN "open" ELSE "start")

LEMMA LoggerDoes ==
  ASSUME NEW l, Whole(l)
  PROVE  /\ ~l.in_progress => Whole(start_progress(l))
         /\ \A level \in Int : Whole(log(l, level))
         /\ Whole(end_progress(l)) /\ ~end_progress(l).in_progress
<1>1. /\ l \in Loggers /\ l.level \in Int /\ NOTIFY \in Int
      /\ l.tty = (IF l.in_progress_hanging THEN "open" ELSE "start")
      /\ l.in_progress_hanging => l.in_progress /\ level_matches(l, NOTIFY)
  BY DEF Whole, Loggers, NOTIFY
<1>2. ASSUME ~l.in_progress PROVE Whole(start_progress(l))
  <2>1. ~l.in_progress_hanging /\ l.tty = "start"
    BY <1>1, <1>2
  <2>2. Line(l) = l
    BY <1>1, <2>1 DEF Line, Loggers
  <2> QED
    BY <1>1, <1>2, <2>1, <2>2 DEF start_progress, Whole, Loggers, level_matches
<1>3. ASSUME NEW level \in Int PROVE Whole(log(l, level))
  <2>1. ~l.in_progress_hanging => Line(l) = l
    BY <1>1 DEF Line, Loggers
  <2> QED
    BY <1>1, <2>1 DEF log, Whole, Loggers, level_matches
<1>4. Whole(end_progress(l)) /\ ~end_progress(l).in_progress
  <2>1. ~l.in_progress_hanging => Line(l) = l
    BY <1>1 DEF Line, Loggers
  <2>2. CASE level_matches(l, NOTIFY) /\ l.in_progress_hanging
    BY <1>1, <2>2 DEF end_progress, Whole, Loggers
  <2>3. CASE ~l.in_progress_hanging
    BY <1>1, <2>1, <2>3 DEF end_progress, Whole, Loggers
  <2> QED
    BY <1>1, <2>2, <2>3
<1> QED
  BY <1>2, <1>3, <1>4

\* The operations that are no command leave the logger alone.
LEMMA Quiet ==
  ASSUME CopyFile \/ LinkSelf \/ WriteFile \/ Unlink \/ Rmtree \/ CopyExecutable \/ Secondary
         \/ FrameworkExecutable \/ RunTool \/ Rename \/ TestExecutable \/ Exit \/ Raise
         \/ FixupScript \/ FixupPthFile \/ LinkDir
  PROVE  ~logger.in_progress /\ logger' = logger
<1>1. CASE CopyFile \/ LinkSelf \/ LinkDir \/ WriteFile \/ Unlink \/ Rmtree
  BY <1>1 DEF CopyFile, LinkSelf, LinkDir, WriteFile, Unlink, Rmtree, At, Sets, Raises
<1>2. CASE CopyExecutable \/ Secondary \/ FrameworkExecutable \/ RunTool
  BY <1>2 DEF CopyExecutable, Secondary, FrameworkExecutable, RunTool, At, Sets, Raises
<1>3. CASE Rename \/ TestExecutable \/ Exit \/ Raise \/ FixupScript \/ FixupPthFile
  BY <1>3 DEF Rename, TestExecutable, Exit, Raise, FixupScript, FixupPthFile, At, Sets, Raises
<1> QED
  BY <1>1, <1>2, <1>3

LEMMA LoggedStep ==
  ASSUME Types, Logged, [Next]_vars
  PROVE  Logged'
<1>1. /\ Whole(logger)
      /\ logger.in_progress => InProgress
  BY DEF Logged, Whole, Loggers
<1>2. ASSUME Whole(logger'), logger'.in_progress => InProgress'
      PROVE  Logged'
  BY <1>2 DEF Logged, Whole, Loggers, level_matches, InProgress
<1>3. ASSUME ~logger.in_progress, logger' = logger PROVE Logged'
  BY <1>1, <1>2, <1>3
<1>4. ASSUME NEW n \in Int, logger' = NewLogger(n) PROVE Logged'
  BY <1>2, <1>4, NewLoggerIs DEF Whole
<1>5. ASSUME NEW o \in Options, Start(o) PROVE Logged'
  <2>1. o.verbosity \in Int
    BY VirtualenvAssumption DEF VirtualenvAssumption, Option
  <2> QED
    BY <1>4, <1>5, <2>1 DEF Start
<1>6. CASE Interrupt
  BY <1>4, <1>6 DEF Interrupt
<1>7. CASE CallBegins
  <2>1. ~logger.in_progress /\ status = "running" /\ todo # <<>> /\ Head(todo).op = "call"
    BY <1>7 DEF CallBegins, At, Current
  <2>2. CASE logger' = logger
    BY <1>3, <2>1, <2>2
  <2>3. CASE logger' = start_progress(logger) /\ UNCHANGED <<todo, status>>
    BY <1>1, <1>2, <2>1, <2>3, LoggerDoes DEF InProgress
  <2> QED
    BY <1>7, <2>2, <2>3 DEF CallBegins
<1>8. CASE CallLine
  <2>1. /\ status = "running" /\ todo # <<>> /\ Head(todo).op = "call" /\ UNCHANGED <<todo, status>>
    BY <1>8 DEF CallLine, Calling, Current
  <2>2. PICK level \in Int : logger' \in {log(logger, level), logger}
    <3>1. \A f : filter_ez_setup(f) \subseteq Int
      BY DEF filter_ez_setup, DEBUG, INFO
    <3> QED
      BY <1>8, <3>1 DEF CallLine, show_progress
  <2> QED
    BY <1>1, <1>2, <2>1, <2>2, LoggerDoes DEF InProgress
<1>9. CASE CallEnds
  BY <1>1, <1>2, <1>9, LoggerDoes DEF CallEnds
<1>10. CASE CallFails
  <2>1. logger' = end_progress(log(logger, NOTIFY)) /\ Whole(log(logger, NOTIFY))
    BY <1>1, <1>10, LoggerDoes DEF CallFails, NOTIFY
  <2> QED
    BY <1>2, <2>1, LoggerDoes
<1>11. CASE RunEnds
  BY <1>1, <1>3, <1>11 DEF RunEnds, InProgress
<1>12. CASE InstallPackage \/ EditConfig \/ Move
  <2>1. status # "running" /\ status' = "idle" /\ host' = host /\ logger' = logger
    BY <1>12 DEF InstallPackage, EditConfig, Move, Owner, Rests
  <2> QED
    BY <1>1, <1>2, <2>1 DEF InProgress
<1>13. CASE UNCHANGED vars
  BY <1>1, <1>2, <1>13 DEF vars, InProgress
<1>14. CASE CopyFails
  <2>1. /\ ~logger.in_progress /\ ~host.writable /\ host' = host /\ status' = "raised"
        /\ logger' = start_progress(logger)
    BY <1>14 DEF CopyFails, At, Ends, Steady
  <2> QED
    BY <1>1, <1>2, <2>1, LoggerDoes DEF InProgress
<1> QED
  BY <1>3, <1>5, <1>6, <1>7, <1>8, <1>9, <1>10, <1>11, <1>12, <1>13, <1>14, Quiet DEF Next, RunStep

LEMMA NothingFetchedStep ==
  ASSUME Types, Listed, NothingFetched, [Next]_vars
  PROVE  NothingFetched'
<1>1. ASSUME UNCHANGED <<opts, host, downloads>> PROVE NothingFetched'
  BY <1>1 DEF NothingFetched
<1>2. ASSUME NEW o \in Options, Start(o) PROVE NothingFetched'
  BY <1>2 DEF Start, NothingFetched
<1>3. CASE CallBegins
  <2>1. status = "running" /\ todo # <<>> /\ Head(todo).op = "call" /\ opts' = opts /\ host' = host
    BY <1>3 DEF CallBegins, At, Current, Ends, Steady
  <2>2. Head(todo).file \in {"setuptools", "distribute", "pip"}
    <3>1. PICK p \in Operation : p = Head(todo)
      BY <2>1, Hd
    <3>2. Lawful(p, opts) /\ p.op = "call"
      BY <2>1, <3>1, Hd DEF Fatal
    <3>3. p.file \in {"setuptools", "distribute", "pip"}
      BY <3>2 DEF Lawful
    <3> QED
      BY <3>1, <3>3
  <2>3. opts.never_download /\ (host.found = "absolute" \/ host.writable) /\ ~GivesUp(Head(todo).file)
          => ~Fetches(Head(todo).file)
    BY <2>2 DEF GivesUp, Fetches, Reaches
  <2>4. opts.never_download /\ (host.found = "absolute" \/ host.writable) => downloads' = downloads
    BY <1>3, <2>3 DEF CallBegins, Ends, Current
  <2> QED
    BY <2>1, <2>4 DEF NothingFetched
<1>4. CASE CallLine
  BY <1>1, <1>4, CallLineDoes DEF Stays
<1>5. CASE Consumes \/ Fails
  BY <1>1, <1>5 DEF Consumes, Fails
<1>6. CASE RunEnds \/ Interrupt \/ InstallPackage \/ EditConfig \/ Move \/ UNCHANGED vars
  BY <1>1, <1>6 DEF RunEnds, Interrupt, Steady, InstallPackage, EditConfig, Move, Rests, vars
<1>7. RunStep => Consumes \/ Fails \/ RunEnds \/ CallBegins \/ CallLine
  BY CopyFileDoes, LinkSelfDoes, WriteFileDoes, UnlinkDoes, RmtreeDoes, ExecutableDoes,
     SecondaryDoes, LooksDoes, RenameDoes, EndsDoes, CallEndsDoes, FixupScriptDoes, FixupPthFileDoes,
     LinkDirDoes DEF RunStep
<1> QED
  BY <1>2, <1>3, <1>4, <1>5, <1>6, <1>7 DEF Next

-----------------------------------------------------------------------------
(* The theorems. *)

LEMMA InitIInv ==
  ASSUME Init PROVE IInv
<1>1. /\ host \in Hosts /\ home \in Homes /\ opts \in Options /\ fs = [f \in Files |-> Absent]
      /\ dev = "none" /\ todo = <<>> /\ status = "idle" /\ logger = NewLogger(0)
      /\ downloads = {} /\ relocated = {} /\ acts = 0
  BY DEF Init
<1>2. Absent \in File /\ Absent.is = "absent" /\ Absent.text = <<>>
  BY DEF Absent, File
<1>3. Plain \subseteq Files /\ {"flag", "dylib", "lib64", "local", "pth"} \subseteq Files
  BY DEF Plain, Files, LibFiles, Scripts
<1>4. Kinds
  BY <1>1, <1>2, <1>3 DEF Kinds, IsSelfLink, IsAbs
<1>5. Types
  <2>1. MaxActs \in Nat /\ 0 \in 0..MaxActs
    BY VirtualenvAssumption DEF VirtualenvAssumption
  <2> QED
    BY <1>1, <1>4, <2>1 DEF Types, Statuses
<1>6. Listed /\ Progress /\ Fixing /\ MovedWorks /\ NothingFetched
  BY <1>1 DEF Listed, Progress, Fixing, MovedWorks, NothingFetched
<1>7. Logged
  BY <1>1, NewLoggerIs DEF Logged, Loggers
<1> QED
  BY <1>5, <1>6, <1>7 DEF IInv

LEMMA IInvStep ==
  ASSUME IInv, [Next]_vars PROVE IInv'
<1>1. Types /\ Listed /\ Progress /\ Fixing /\ MovedWorks /\ Logged /\ NothingFetched
  BY DEF IInv
<1>2. Types' /\ Listed'
  BY <1>1, TypesStep, ListedStep
<1>3. Progress' /\ Fixing'
  BY <1>1, ProgressStep, FixingStep
<1>4. MovedWorks'
  BY <1>1, MovedWorksStep
<1>5. Logged' /\ NothingFetched'
  BY <1>1, LoggedStep, NothingFetchedStep
<1> QED
  BY <1>2, <1>3, <1>4, <1>5 DEF IInv

\* What a run has done and what it has still to do are, together, what was asked of it.
THEOREM Inductive == Spec => []IInv
<1>1. Init => IInv
  BY InitIInv
<1>2. IInv /\ [Next]_vars => IInv'
  BY IInvStep
<1> QED
  BY <1>1, <1>2, PTL DEF Spec

\* The variables keep their types whatever is interrupted, and a run that is over has
\* nothing left to do.
THEOREM TypeCorrect == Spec => []TypeOK
<1>1. IInv => TypeOK
  <2> SUFFICES ASSUME IInv PROVE TypeOK
    OBVIOUS
  <2>1. fs \in [Files -> File] /\ Types /\ Listed
    BY DEF IInv, Types, Kinds
  <2>2. \A f \in Files : fs[f].is \in {"absent", "torn", "link", "copy", "text"}
    BY <2>1 DEF File
  <2> QED
    BY <2>1, <2>2 DEF Types, Listed, TypeOK
<1> QED
  BY <1>1, Inductive, PTL

\* No message is printed into an open progress line, and no progress is under way when no
\* command runs, also after one that failed or was killed: start_progress's assertion
\* never fails.  The exception is a run that is over and had no directory to write to.
THEOREM LinesStayWhole == Spec => []LinesWhole
<1>1. IInv => LinesWhole
  BY DEF IInv, Logged, LinesWhole, Calling, Current, InProgress
<1> QED
  BY <1>1, Inductive, PTL

\* With --never-download no run fetches anything, however the packages were found, as long
\* as they can be named from every directory.
THEOREM NeverFetches == Spec => []NothingFetched
<1>1. IInv => NothingFetched
  BY DEF IInv
<1> QED
  BY <1>1, Inductive, PTL

\* After a run the mark that hides the global packages is there exactly if that run asked
\* for it, whatever was asked for and interrupted before.
THEOREM FlagAsAsked == Spec => []FlagMatches
<1>1. IInv => FlagMatches
  <2> SUFFICES ASSUME IInv, Created, ~(opts.by = "outer" /\ host.outer_flag)
               PROVE  Present("flag") <=> opts.no_site_packages
    BY DEF FlagMatches
  <2>1. status = "done" /\ ~opts.relocatable /\ todo = <<>> /\ ~IsSelfLink(fs["flag"])
    <3>1. ~IsSelfLink(fs["flag"])
      BY Zenon DEF IInv, Types, Kinds
    <3> QED
      BY <3>1 DEF IInv, Created, Listed
  <2>2. ~Doomed(todo) /\ ~Ahead(todo, Flagging(opts))
    BY <2>1, None
  <2>3. fs["flag"].is # "absent" <=> opts.no_site_packages
    BY <2>1, <2>2 DEF IInv, Progress, Flagged
  <2>4. "flag" \notin Executables
    BY DEF Executables
  <2>5. Named("flag") = "flag"
    BY <2>4 DEF Named
  <2>6. Present("flag") <=> fs["flag"].is # "absent"
    BY <2>1, <2>5 DEF Present, Loops, Exists, Dangling
  <2> QED
    BY <2>3, <2>6
<1> QED
  BY <1>1, Inductive, PTL

\* A run that ends well leaves a whole environment, for the directory it is in now, however
\* many runs before were killed in the middle of a file; what can still be torn is what no
\* run writes twice.
THEOREM WholeAfterSuccess == Spec => []SuccessIsWhole
<1>1. IInv => SuccessIsWhole
  <2> SUFFICES ASSUME IInv, Created PROVE SuccessIsWhole
    BY DEF SuccessIsWhole
  <2> DEFINE e == py_executable(opts)
  <2>1. /\ status = "done" /\ ~opts.relocatable /\ todo = <<>>
        /\ fs["lib64"].is # "torn" /\ fs["local"].is # "torn"
        /\ fs["dylib"].is = "torn" => host.platform = "framework"
    BY DEF IInv, Created, Listed, Types, Kinds, IsSelfLink
  <2>2. ~Doomed(todo) /\ \A p : ~Ahead(todo, p)
    BY <2>1, None
  <2>3. /\ fs["site"] = Text(<<"SITE_PY">>) /\ fs["orig_prefix"] = Text(RealPrefix)
        /\ fs["distutils"] = Text(<<"DISTUTILS_INIT">>) /\ fs["activate"] = Text(ActivateText(opts))
        /\ Flagged
        /\ fs["setuptools"].is = "text"
        /\ fs["easy_install"] = Text(Shebang(home, BinDir, e))
        /\ fs["pip"].is = "text" /\ fs["pth"].is = "text" /\ Runs(e)
        /\ host.local => fs["local"] = LinkTo(home)
        /\ host.lib64 => fs["lib64"] = LinkTo(home)
        /\ opts.clear => \A f \in path_locations : fs[f].is # "torn"
        /\ host.platform = "framework" => fs["dylib"].is # "torn"
    BY <2>1, <2>2 DEF IInv, Progress
  <2>4. fs[e].is # "torn"
    BY <2>3 DEF Runs, Named
  <2>5. \A f \in {"site", "orig_prefix", "distutils", "activate", "flag", "setuptools",
                  "easy_install", "pip", "pth", "lib64", "local", "dylib", e} : fs[f].is # "torn"
    BY <2>1, <2>3, <2>4 DEF Text, Flagged
  <2>6. ASSUME NEW f \in Files, fs[f].is = "torn" PROVE f \in WrittenOnce
    <3>1. f \notin {"site", "orig_prefix", "distutils", "activate", "flag", "setuptools",
                    "easy_install", "pip", "pth", "lib64", "local", "dylib"} /\ f # e
      BY <2>5, <2>6
    <3> HIDE DEF e
    <3> QED
      BY <3>1 DEF WrittenOnce, Files, LibFiles, Scripts, e
  <2>7. \A f \in {g \in Files : fs[g].is = "torn"} : opts.clear => f \notin path_locations
    BY <2>3
  <2> QED
    BY <2>3, <2>6, <2>7 DEF SuccessIsWhole
<1> QED
  BY <1>1, Inductive, PTL

\* The files of the operations, for the provers.
LEMMA LawfulFiles ==
  ASSUME NEW p, NEW o, Lawful(p, o)
  PROVE  /\ p.op = "copyfile" => p.file \in {"stdlib", "include", "flag", "jars", "dylib"}
         /\ p.op = "linkself" => p.file \in {"lib64", "local", "python"}
         /\ p.op = "writefile" => p.file \in {"site", "orig_prefix", "distutils", "activate", "flag"}
         /\ p.op = "unlink" => p.file \in {"flag", "dylib"}
         /\ p.op = "rename" => p.file \in Executables
         /\ p.op = "rmtree" => o.clear
         /\ o.relocatable <=> p.op \in {"fixup_script", "fixup_pth_file"}
         /\ p.op = "fixup_script" => p.file \in Scripts
         /\ p.op = "fixup_pth_file" => p.file = "pth"
         /\ p.op = "writenew" => p.file = "distutils_cfg"
<1>1. p.op = "copyfile" => p.file \in {"stdlib", "include", "flag", "jars", "dylib"}
  BY Zenon DEF Lawful
<1>2. p.op = "linkself" => p.file \in {"lib64", "local", "python"}
  BY Zenon DEF Lawful
<1>3. p.op = "writefile" => p.file \in {"site", "orig_prefix", "distutils", "activate", "flag"}
  BY Zenon DEF Lawful
<1>4. p.op = "unlink" => p.file \in {"flag", "dylib"}
  BY Zenon DEF Lawful
<1>5. p.op = "rename" => p.file \in Executables
  BY Zenon DEF Lawful
<1>6. p.op = "rmtree" => o.clear
  BY Zenon DEF Lawful
<1>7. o.relocatable <=> p.op \in {"fixup_script", "fixup_pth_file"}
  BY Zenon DEF Lawful
<1>8. p.op = "fixup_script" => p.file \in Scripts
  BY Zenon DEF Lawful
<1>9. p.op = "fixup_pth_file" => p.file = "pth"
  BY Zenon DEF Lawful
<1>10. p.op = "writenew" => p.file = "distutils_cfg"
  BY Zenon DEF Lawful
<1> QED
  BY <1>1, <1>2, <1>3, <1>4, <1>5, <1>6, <1>7, <1>8, <1>9, <1>10

\* A line that names the package names it where nothing it depends on has changed, and the
\* package's own path always does.
LEMMA LineWorks ==
  ASSUME host' = host, home' = home, dev' = dev, host \in Hosts, home \in Homes, opts \in Options,
         (fs'["pth"] = fs["pth"] /\ Works("pth")) \/ fs'["pth"] = Text(Abs(Package))
  PROVE  Works("pth")'
<1>1. Package' = Package /\ PthFile(home)' = PthFile(home)
  BY DEF Package, PthFile
<1>2. home \in Seq(Part)
  BY Given
<1>3. Package \in Seq(Part)
  BY <1>2, SrcPath DEF Package
<1>4. IsAbs(Abs(Package)) /\ Tail(Abs(Package)) = Package
  BY <1>3, AbsIs
<1>5. CASE fs'["pth"] = fs["pth"] /\ Works("pth")
  BY <1>1, <1>5 DEF Works
<1>6. CASE fs'["pth"] = Text(Abs(Package))
  <2>1. fs'["pth"].is = "text" /\ fs'["pth"].text = Abs(Package)
    BY <1>6 DEF Text
  <2> HIDE DEF Package
  <2>2. Resolve(PthFile(home), Abs(Package)) = Package
    BY <1>4 DEF Resolve
  <2> QED
    BY <1>1, <2>1, <2>2 DEF Works
<1> QED
  BY <1>5, <1>6

LEMMA OwnerStep ==
  ASSUME IInv, Next, status = "running", status' # "interrupted", ~opts.relocatable
  PROVE  /\ \A f \in {"script", "distutils_cfg"} :
              fs[f].is = "text" => fs'[f] = fs[f] \/ (opts.clear /\ f \in path_locations)
         /\ Works("pth") => Works("pth")' \/ opts.clear
         /\ opts.by = "env" /\ opts.dest = "absolute" => fs' = fs
<1>1. Types /\ Listed
  BY DEF IInv
<1>2. CASE Consumes
  <2> DEFINE p == Head(todo)
  <2>1. Lawful(p, opts) /\ \A f \in Files : fs'[f] = fs[f] \/ Changes(p, f)
    BY <1>1, <1>2, Consumed
  <2>2. ~(opts.by = "env" /\ opts.dest = "absolute")
    BY <1>1, <1>2 DEF Listed, Program, Consumes
  <2> HIDE DEF p
  <2>3. ASSUME NEW f \in {"script", "distutils_cfg"}, fs[f].is = "text", fs'[f] # fs[f]
        PROVE  opts.clear /\ f \in path_locations
    <3>1. f \in Files /\ f \notin Executables
      BY DEF Files, LibFiles, Scripts, Executables
    <3>2. Changes(p, f)
      BY <2>1, <2>3, <3>1
    <3>3. /\ p.op = "copyfile" => p.file \in {"stdlib", "include", "flag", "jars", "dylib"}
          /\ p.op = "linkself" => p.file \in {"lib64", "local", "python"}
          /\ p.op = "writefile" => p.file \in {"site", "orig_prefix", "distutils", "activate", "flag"}
          /\ p.op = "unlink" => p.file \in {"flag", "dylib"}
          /\ p.op = "rename" => p.file \in Executables
          /\ p.op \notin {"fixup_script", "fixup_pth_file"}
          /\ p.op = "rmtree" => opts.clear
      BY <2>1, LawfulFiles
    <3>4. f \notin {"stdlib", "include", "flag", "jars", "dylib", "lib64", "local", "site",
                   "orig_prefix", "distutils", "activate", "setuptools", "easy_install", "pip", "pth"}
                  \union Executables
      BY <3>1
    <3>5. p.op = "rmtree" /\ f \in path_locations
      <4>1. f \notin {"distutils", "distutils_cfg"} \/ fs[f].is # "absent"
        BY <2>3
      <4> QED
        BY <2>3, <3>2, <3>3, <3>4, <4>1 DEF Changes, Executables
    <3> QED
      BY <3>3, <3>5
  <2>4. ASSUME Works("pth"), ~opts.clear PROVE Works("pth")'
    <3>1. p.op \notin {"rmtree", "fixup_script", "fixup_pth_file"}
      BY <2>1, <2>4, LawfulFiles
    <3>2. /\ host' = host /\ home' = home /\ dev' = dev /\ fs \in [Files -> File]
          /\ host \in Hosts /\ home \in Homes /\ opts \in Options
      BY <1>1, <1>2, <3>1 DEF Consumes, Types, Kinds, p
    <3>3. CASE fs'["pth"] = fs["pth"]
      BY <2>4, <3>2, <3>3, LineWorks
    <3>4. CASE p.op = "call"
      <4>1. fs' \in Installed(p.file)
        BY <1>2, <3>4 DEF Consumes, Result, p
      <4>2. fs'["pth"] \in {fs["pth"], Text(Abs(Package))}
        BY <2>4, <3>2, <4>1, InstalledIs DEF PthLines
      <4>3. CASE fs'["pth"] = Text(Abs(Package))
        BY <3>2, <4>3, LineWorks
      <4> QED
        BY <3>3, <4>2, <4>3
    <3>5. CASE p.op # "call"
      <4>1. "pth" \in Files /\ "pth" \notin Executables
        BY DEF Files, LibFiles, Executables
      <4>2. ~Changes(p, "pth")
        <5>1. /\ p.op = "copyfile" => p.file \in {"stdlib", "include", "flag", "jars", "dylib"}
              /\ p.op = "linkself" => p.file \in {"lib64", "local", "python"}
              /\ p.op = "writefile" => p.file \in {"site", "orig_prefix", "distutils", "activate", "flag"}
              /\ p.op = "unlink" => p.file \in {"flag", "dylib"}
              /\ p.op = "rename" => p.file \in Executables
              /\ p.op = "writenew" => p.file = "distutils_cfg"
          BY <2>1, LawfulFiles
        <5> QED
          BY <3>1, <3>5, <4>1, <5>1 DEF Changes
      <4> QED
        BY <2>1, <3>3, <4>1, <4>2
    <3> QED
      BY <3>4, <3>5
  <2> QED
    BY <2>2, <2>3, <2>4
<1>3. CASE Fails \/ Stays \/ RunEnds
  <2>1. UNCHANGED <<fs, dev, host, home>>
    BY <1>3 DEF Fails, Stays, RunEnds
  <2>2. Works("pth")' <=> Works("pth")
    BY <2>1 DEF Works, Package, PthFile
  <2> QED
    BY <2>1, <2>2
<1>4. RunStep
  BY DEF Next, Start, Interrupt, InstallPackage, EditConfig, Move, Owner
<1> QED
  BY <1>1, <1>2, <1>3, <1>4, RunStepDoes

\* What the owner installed or edited is changed by no run but --relocatable or, in
\* lib_dir, --clear, but for easy-install.pth, which easy_install rewrites: there a line that
\* names the owner's package names it afterwards.  By the environment's own interpreter
\* nothing is changed at all.
THEOREM OwnersFilesAreKept == Spec => OwnersFilesKept
<1>1. IInv /\ [Next]_vars =>
        [status = "running" /\ status' # "interrupted" /\ ~opts.relocatable =>
           /\ \A f \in {"script", "distutils_cfg"} :
                fs[f].is = "text" => fs'[f] = fs[f] \/ (opts.clear /\ f \in path_locations)
           /\ Works("pth") => Works("pth")' \/ opts.clear
           /\ opts.by = "env" /\ opts.dest = "absolute" => fs' = fs]_vars
  BY OwnerStep
<1> QED
  BY <1>1, Inductive, PTL DEF Spec, OwnersFilesKept

\* Making scripts and paths relative, one at a time, changes what none of them stands for.
LEMMA FixupStep ==
  ASSUME IInv, Next, status = "running", status' # "interrupted", opts.relocatable,
         fs["activate"].is = "text", NEW f \in Movable, Works(f)
  PROVE  Works(f)'
<1>1. Types /\ Listed
  BY DEF IInv
<1>2. CASE Consumes
  <2> DEFINE p == Head(todo)
  <2>1. /\ Lawful(p, opts) /\ \A g \in Files : fs'[g] = fs[g] \/ Changes(p, g)
        /\ host' = host /\ home' = home /\ host \in Hosts /\ home \in Homes /\ opts \in Options
    BY <1>1, <1>2, Consumed
  <2>2. p.op \in {"fixup_script", "fixup_pth_file"} => dev' = dev
    BY <1>2 DEF Consumes
  <2>3. home \in Seq(Part)
    BY <2>1, Given
  <2> HIDE DEF p
  <2>9. /\ p.op \in {"fixup_script", "fixup_pth_file"}
        /\ p.op = "fixup_script" => p.file \in Scripts
        /\ p.op = "fixup_pth_file" => p.file = "pth"
    BY <2>1, LawfulFiles
  <2>10. ASSUME NEW g \in Files
         PROVE  /\ g \in Scripts => fs'[g] = fs[g] \/ fs'[g] = fixup_script(fs[g], home)
                /\ g = "pth" => fs'[g] = fs[g] \/ fs'[g] = fixup_line(fs[g], PthFile(home))
                /\ g \notin Movable => fs'[g] = fs[g]
    <3>1. CASE fs'[g] = fs[g]
      BY <3>1
    <3>2. CASE Changes(p, g)
      <4>1. \/ g \in Scripts /\ fs'[g] = fixup_script(fs[g], home)
            \/ g = "pth" /\ fs'[g] = fixup_line(fs[g], PthFile(home))
        BY <2>9, <3>2 DEF Changes
      <4>2. "pth" \notin Scripts
        BY DEF Scripts
      <4> QED
        BY <4>1, <4>2 DEF Movable
    <3> QED
      BY <2>1, <3>1, <3>2
  <2>4. f \in Files /\ "pth" \in Files /\ "activate" \in Files /\ "pth" \notin Scripts
        /\ "activate" \notin Scripts
    BY DEF Movable, Files, LibFiles, Scripts
  <2>5. fs'["activate"] = fs["activate"]
    BY <2>4, <2>10 DEF Movable
  <2>6. /\ PthFile(home)' = PthFile(home) /\ BinDir' = BinDir
    BY <2>1 DEF PthFile, BinDir
  <2>7. CASE f = "pth"
    <3>1. fs["pth"].is = "text" /\ Resolve(PthFile(home), fs["pth"].text)
                                     = (IF dev = "in" THEN home \o <<"src">> ELSE <<"src">>)
      BY <2>7 DEF Package, Works
    <3>2. fs'["pth"] = fs["pth"] \/ fs'["pth"] = fixup_line(fs["pth"], PthFile(home))
      BY <2>4, <2>10
    <3>3. fs'["pth"].is = "text"
      BY <1>1, <3>1, <3>2, LineFixed
    <3>4. Resolve(PthFile(home), fs'["pth"].text) = Resolve(PthFile(home), fs["pth"].text)
      <4>1. CASE fs'["pth"] = fs["pth"]
        BY <4>1
      <4>2. CASE fs'["pth"] = fixup_line(fs["pth"], PthFile(home)) /\ IsAbs(fs["pth"].text)
        <5>1. Resolve(PthFile(home), fs'["pth"].text) = Tail(fs["pth"].text)
          BY <1>1, <3>1, <4>2, LineFixed
        <5> QED
          BY <4>2, <5>1 DEF Resolve
      <4>3. CASE fs'["pth"] = fixup_line(fs["pth"], PthFile(home)) /\ ~IsAbs(fs["pth"].text)
        BY <4>3 DEF fixup_line
      <4> QED
        BY <3>2, <4>1, <4>2, <4>3
    <3> QED
      BY <2>1, <2>2, <2>6, <2>7, <2>9, <3>1, <3>3, <3>4 DEF Package, Works
  <2>8. CASE f # "pth"
    <3>1. fs'[f] = fs[f] \/ fs'[f] = fixup_script(fs[f], home)
      BY <2>4, <2>8, <2>10 DEF Movable
    <3>2. fs'[f] = fs[f] \/ fs'[f] = Text(NewShebang)
      BY <2>3, <3>1, ScriptFixed
    <3> QED
      BY <2>1, <2>5, <2>6, <2>8, <3>2 DEF Works
  <2> QED
    BY <2>7, <2>8
<1>3. CASE Fails \/ Stays \/ RunEnds
  <2>1. UNCHANGED <<fs, home, host, dev>>
    BY <1>3 DEF Fails, Stays, RunEnds
  <2>2. PthFile(home)' = PthFile(home) /\ BinDir' = BinDir
    BY <2>1 DEF PthFile, BinDir
  <2> QED
    BY <2>1, <2>2 DEF Package, Works
<1>4. RunStep
  BY DEF Next, Start, Interrupt, InstallPackage, EditConfig, Move, Owner
<1> QED
  BY <1>1, <1>2, <1>3, <1>4, RunStepDoes

LEMMA MoveStep ==
  ASSUME IInv, Next, home' # home, NEW f \in relocated, Relocatable(f)
  PROVE  Works(f)'
<1>1. Types /\ Listed /\ MovedWorks
  BY DEF IInv
<1>2. Move
  <2>1. CASE RunStep
    <3>1. home' = home
      BY <1>1, <2>1, RunStepDoes DEF Consumes, Fails, Stays, RunEnds
    <3> QED
      BY <3>1
  <2> QED
    BY <2>1 DEF Next, Start, Interrupt, Steady, InstallPackage, EditConfig
<1>3. UNCHANGED <<fs, dev, host>> /\ home' \in Homes
  BY <1>2 DEF Move, Rests
<1>4. PICK h \in Homes : h = home'
  BY <1>3
<1>5. WorksIn(f, h)
  BY <1>1, <1>4 DEF MovedWorks
<1>6. PthFile(home)' = PthFile(h) /\ BinDir' = BinDir
  BY <1>3, <1>4 DEF PthFile, BinDir
<1> QED
  BY <1>3, <1>4, <1>5, <1>6 DEF Package, Works, WorksIn

\* What --relocatable does changes what no script and no path stands for, and when the
\* environment's own interpreter has done it the environment can be moved, any number of
\* times, and what worked before works after, but for paths that lead out of it.
THEOREM RelocationIsSafe == Spec => RelocationKeepsWorking
<1>1. IInv /\ [Next]_vars =>
        [/\ status = "running" /\ status' # "interrupted" /\ opts.relocatable
              /\ fs["activate"].is = "text" =>
                \A f \in Movable : Works(f) => Works(f)'
         /\ home' # home => \A f \in relocated : Relocatable(f) => Works(f)']_vars
  BY FixupStep, MoveStep
<1> QED
  BY <1>1, Inductive, PTL DEF Spec, RelocationKeepsWorking
=============================================================================
