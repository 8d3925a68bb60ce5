----------------------------- MODULE IsolateMeta -----------------------------
(***************************************************************************)
(* What alvokanto makes of the metadata isolate writes about a run         *)
(* (alvokanto/src/isolate.rs): they are read in the order isolate wrote    *)
(* them, and give an exit code and a status.  Only the lines that decide   *)
(* these two are kept; the measurements beside them are left out.          *)
(***************************************************************************)
EXTENDS Naturals, Sequences

Statuses == {"Ok", "TimeLimitExceeded", "MemoryLimitExceeded", "RuntimeError"}

\* No exit code: the program did not exit by itself.
NoExit == 256

Line(key, value) == [key |-> key, value |-> value]

StatusLines == {Line("status", v) : v \in {"RE", "TO", "XX", "SG"}}
ExitLines == {Line("exitcode", 0), Line("exitcode", 1)}
Lines == StatusLines \cup ExitLines \cup {Line("cg-oom-killed", 1)}

\* Mutant of ReadStatus: the signal that ended the program hides its cause.
ReadStatusSignal(old, value) ==
  IF value = "TO" THEN "TimeLimitExceeded" ELSE "RuntimeError"

\* The arm for the key "status": killed by a signal keeps the cause read before.
ReadStatus(old, value) ==
  CASE value = "TO" -> "TimeLimitExceeded"
    [] value = "SG" -> IF old = "Ok" THEN "RuntimeError" ELSE old
    [] OTHER        -> "RuntimeError"

\* One turn of the loop over the lines.
ReadLine(stats, line) ==
  CASE line.key = "exitcode"      -> [stats EXCEPT !.exit = line.value]
    [] line.key = "status"        -> [stats EXCEPT !.status = ReadStatus(@, line.value)]
    [] line.key = "cg-oom-killed" -> [stats EXCEPT !.status = "MemoryLimitExceeded"]

Stats == [exit : {0, 1, NoExit}, status : Statuses]

NoStats == [exit |-> NoExit, status |-> "Ok"]

\* The stats once the first n of the lines are read.
Parse(lines) ==
  LET read[n \in 0 .. Len(lines)] ==
        IF n = 0 THEN NoStats ELSE ReadLine(read[n - 1], lines[n])
  IN  read[Len(lines)]

\* exit_code is Some(0): what judge and compile take for a success.
Succeeded(stats) == stats.exit = 0

\* The reports of isolate (external) that tell programs apart: a clean exit, a
\* non-zero exit, a fatal signal, the out-of-memory killer on the program itself
\* or on a child it outlives, the time limit enforced by killing, and a limit
\* noticed only once the program has exited by itself.
Reports ==
  { <<Line("exitcode", 0)>>,
    <<Line("exitcode", 1), Line("status", "RE")>>,
    <<Line("status", "SG")>>,
    <<Line("cg-oom-killed", 1), Line("status", "SG")>>,
    <<Line("cg-oom-killed", 1), Line("exitcode", 0)>>,
    <<Line("cg-oom-killed", 1), Line("exitcode", 1), Line("status", "RE")>>,
    <<Line("status", "TO")>>,
    <<Line("exitcode", 0), Line("status", "TO")>> }

-----------------------------------------------------------------------------
\* The lines that name a cause: a signal is one only if nothing else is.
Causes(lines) ==
  {i \in DOMAIN lines : \/ lines[i].key = "cg-oom-killed"
                        \/ lines[i].key = "status" /\ lines[i].value # "SG"}

\* Which line decides a status, said without reading them in order: the
\* last that names a cause.
ReferenceStatus(lines) ==
  LET last == CHOOSE i \in Causes(lines) : \A k \in Causes(lines) : k <= i
  IN  IF Causes(lines) = {}
      THEN IF Line("status", "SG") \in {lines[i] : i \in DOMAIN lines}
           THEN "RuntimeError" ELSE "Ok"
      ELSE IF lines[last].key = "cg-oom-killed" THEN "MemoryLimitExceeded"
           ELSE IF lines[last].value = "TO" THEN "TimeLimitExceeded"
                ELSE "RuntimeError"
=============================================================================
