------------------------------ MODULE VeLogger ------------------------------
(***************************************************************************)
(* Logger of virtualenv.py with its one consumer, standard output: levels, *)
(* and the progress line that stays open while a command runs.  The record *)
(* has the logger's fields and, as tty, where the cursor is: at the start  *)
(* of a line, behind an open progress line, or behind a line that was      *)
(* printed into one ("glued").                                             *)
(***************************************************************************)
EXTENDS Integers

DEBUG == 10  INFO == 20  NOTIFY == 25  WARN == 30  ERROR == 40  FATAL == 50
LEVELS == <<DEBUG, INFO, NOTIFY, WARN, ERROR, FATAL>>

level_for_integer(n) == IF n < 0 THEN DEBUG ELSE IF n >= 6 THEN FATAL ELSE LEVELS[n + 1]

NewLogger(verbosity) == [level |-> level_for_integer(2 - verbosity), in_progress |-> FALSE,
                         in_progress_hanging |-> FALSE, tty |-> "start"]

level_matches(l, level) == level >= l.level

\* A whole line.
Line(l) == [l EXCEPT !.tty = IF l.tty = "start" THEN "start" ELSE "glued"]

log_NoNewline(l, level) == IF level_matches(l, level) THEN Line(l) ELSE l
\* log: the open progress line is ended first.
log(l, level) ==
  IF ~level_matches(l, level) THEN l
  ELSE IF l.in_progress_hanging THEN [l EXCEPT !.in_progress_hanging = FALSE, !.tty = "start"]
  ELSE Line(l)

\* Its assertion is that no progress is under way.
start_progress(l) ==
  IF level_matches(l, NOTIFY)
    THEN [Line(l) EXCEPT !.in_progress = TRUE, !.in_progress_hanging = TRUE, !.tty = "open"]
    ELSE [l EXCEPT !.in_progress = TRUE, !.in_progress_hanging = FALSE]

\* A dot on the open line: show_progress changes nothing of this.
show_progress(l) == l

end_progress(l) ==
  LET said == IF ~level_matches(l, NOTIFY) THEN l
              ELSE IF l.in_progress_hanging THEN [l EXCEPT !.tty = "start"]
              ELSE Line(l)
  IN [said EXCEPT !.in_progress = FALSE, !.in_progress_hanging = FALSE]
=============================================================================
