---------------------------- MODULE MCIsolateMeta ----------------------------
(* Every sequence of at most MaxLines lines, read one line at a time.       *)
EXTENDS IsolateMeta

CONSTANT MaxLines

VARIABLE lines

Init == lines = <<>>

Next == Len(lines) < MaxLines /\ \E line \in Lines : lines' = Append(lines, line)

Spec == Init /\ [][Next]_lines

\* The status alvokanto reports is the last cause isolate named, whatever the
\* order of the lines; a signal counts only when isolate named no cause, so a
\* program killed for its memory or time is not reported as a runtime error.
StatusIsLastCause == Parse(lines).status = ReferenceStatus(lines)
=============================================================================
