-------------------------- MODULE IsolateMetaProofs --------------------------
(***************************************************************************)
(* Theorems about the metadata of a run, for any number of lines: what the *)
(* loop over the lines makes of them.  The loop is a recursive function;   *)
(* that it is one, for every sequence of lines, is proved by reading the   *)
(* lines one at a time, as module MCIsolateMeta does.                      *)
(***************************************************************************)
EXTENDS MCIsolateMeta, SequenceTheorems, TLAPS

(***************************************************************************)
(* The loop over the lines.                                                *)
(***************************************************************************)

\* f holds the stats after each turn of the loop over s.
Reads(s, f) ==
  f = [n \in 0 .. Len(s) |-> IF n = 0 THEN NoStats ELSE ReadLine(f[n - 1], s[n])]

\* There is one such f.
Readable(s) == \E f : Reads(s, f) /\ \A g : Reads(s, g) => g = f

\* What Parse returns then.
LEMMA ParseIsLast ==
  ASSUME NEW s \in Seq(Lines), NEW f, Reads(s, f), \A g : Reads(s, g) => g = f
  PROVE  Parse(s) = f[Len(s)]
  <1> DEFINE R == CHOOSE g : Reads(s, g)
  <1>1. Reads(s, R)
    OBVIOUS
  <1>2. R = f
    BY <1>1
  <1>3. Parse(s) = R[Len(s)]
    BY DEF Parse, Reads
  <1> QED
    BY <1>2, <1>3

\* Nothing read, nothing known.
LEMMA ParseEmpty == Readable(<<>>) /\ Parse(<<>>) = NoStats
  <1> DEFINE f == [n \in 0 .. Len(<<>>) |-> NoStats]
  <1>1. \A g : Reads(<<>>, g) => g = f
    <2> SUFFICES ASSUME NEW g, Reads(<<>>, g) PROVE g = f
      OBVIOUS
    <2>1. g = [n \in 0 .. 0 |-> IF n = 0 THEN NoStats ELSE ReadLine(g[n - 1], <<>>[n])]
      BY DEF Reads
    <2> QED
      BY <2>1
  <1>2. Reads(<<>>, f)
    BY DEF Reads
  <1>3. f[Len(<<>>)] = NoStats
    OBVIOUS
  <1> HIDE DEF f
  <1>4. <<>> \in Seq(Lines)
    OBVIOUS
  <1>5. Parse(<<>>) = f[Len(<<>>)]
    BY <1>1, <1>2, <1>4, ParseIsLast
  <1> QED
    BY <1>1, <1>2, <1>3, <1>5, Zenon DEF Readable

\* One line more is one turn of the loop more.
LEMMA ParseAppend ==
  ASSUME NEW s \in Seq(Lines), NEW x \in Lines, Readable(s)
  PROVE  Readable(Append(s, x)) /\ Parse(Append(s, x)) = ReadLine(Parse(s), x)
  <1> DEFINE t == Append(s, x)
             m == Len(s)
  <1>0. /\ t \in Seq(Lines) /\ m \in Nat /\ Len(t) = m + 1
        /\ t[m + 1] = x /\ \A n \in 1 .. m : t[n] = s[n]
    OBVIOUS
  <1>1. PICK f : Reads(s, f) /\ \A g : Reads(s, g) => g = f
    BY DEF Readable
  <1> DEFINE h == [n \in 0 .. m + 1 |-> IF n = m + 1 THEN ReadLine(f[m], x) ELSE f[n]]
  <1> HIDE DEF t, m
  <1>f. /\ f = [n \in 0 .. m |-> f[n]]
        /\ f[0] = NoStats /\ \A n \in 1 .. m : f[n] = ReadLine(f[n - 1], s[n])
    <2>1. f = [n \in 0 .. m |-> IF n = 0 THEN NoStats ELSE ReadLine(f[n - 1], s[n])]
      BY <1>1 DEF Reads, m
    <2>2. f = [n \in 0 .. m |-> f[n]]
      BY <2>1
    <2>3. f[0] = NoStats
      BY <2>1, <1>0
    <2>4. ASSUME NEW n \in 1 .. m PROVE f[n] = ReadLine(f[n - 1], s[n])
      BY <2>1, <1>0
    <2> QED
      BY <2>2, <2>3, <2>4
  <1>2. Reads(t, h)
    <2>1. ASSUME NEW n \in 0 .. m + 1
          PROVE  h[n] = IF n = 0 THEN NoStats ELSE ReadLine(h[n - 1], t[n])
      <3>1. CASE n = 0
        BY <3>1, <1>0, <1>f
      <3>2. CASE n \in 1 .. m
        <4>1. /\ n - 1 \in 0 .. m /\ n \in 0 .. m
              /\ n # 0 /\ n # m + 1 /\ n - 1 # m + 1
          BY <3>2, <1>0
        <4>2. h[n] = f[n] /\ h[n - 1] = f[n - 1]
          BY <4>1, <1>0
        <4> QED
          BY <3>2, <4>1, <4>2, <1>0, <1>f
      <3>3. CASE n = m + 1
        BY <3>3, <1>0, <1>f
      <3> QED
        BY <1>0, <3>1, <3>2, <3>3
    <2>2. h = [n \in 0 .. m + 1 |-> IF n = 0 THEN NoStats ELSE ReadLine(h[n - 1], t[n])]
      BY <2>1
    <2> HIDE DEF h
    <2> QED
      BY <1>0, <2>2 DEF Reads
  <1>3. ASSUME NEW g, Reads(t, g) PROVE g = h
    <2>0. g = [n \in 0 .. m + 1 |-> IF n = 0 THEN NoStats ELSE ReadLine(g[n - 1], t[n])]
      BY <1>0, <1>3 DEF Reads
    <2>1. /\ g[0] = NoStats
          /\ \A n \in 1 .. m + 1 : g[n] = ReadLine(g[n - 1], t[n])
      <3>1. g[0] = NoStats
        BY <2>0, <1>0
      <3>2. ASSUME NEW n \in 1 .. m + 1 PROVE g[n] = ReadLine(g[n - 1], t[n])
        BY <2>0, <1>0
      <3> QED
        BY <3>1, <3>2
    <2> DEFINE r == [n \in 0 .. m |-> g[n]]
    <2>2. ASSUME NEW n \in 0 .. m
          PROVE  r[n] = IF n = 0 THEN NoStats ELSE ReadLine(r[n - 1], s[n])
      <3>1. CASE n = 0
        BY <3>1, <2>1
      <3>2. CASE n \in 1 .. m
        BY <3>2, <2>1, <1>0
      <3> QED
        BY <1>0, <3>1, <3>2
    <2>3. r = [n \in 0 .. m |-> IF n = 0 THEN NoStats ELSE ReadLine(r[n - 1], s[n])]
      BY <2>2
    <2>4. r = f
      <3> HIDE DEF r
      <3> QED
        BY <2>3, <1>1 DEF Reads, m
    <2>5. \A n \in 0 .. m : g[n] = f[n]
      BY <2>4
    <2>6. g[m + 1] = ReadLine(f[m], x)
      BY <2>1, <2>5, <1>0
    <2>7. \A n \in 0 .. m + 1 : g[n] = h[n]
      BY <2>5, <2>6, <1>0
    <2>8. g = [n \in 0 .. m + 1 |-> g[n]]
      BY <2>0
    <2> QED
      BY <2>7, <2>8
  <1>4. Parse(s) = f[m] /\ h[m + 1] = ReadLine(f[m], x)
    BY <1>0, <1>1, ParseIsLast DEF m
  <1>5. Parse(t) = h[m + 1]
    <2> HIDE DEF h
    <2> QED BY <1>0, <1>2, <1>3, ParseIsLast
  <1>6. Readable(t)
    BY <1>2, <1>3, Zenon DEF Readable
  <1> QED
    BY <1>4, <1>5, <1>6 DEF t

-----------------------------------------------------------------------------
(***************************************************************************)
(* The stats.                                                              *)
(***************************************************************************)

\* One turn of the loop gives stats.
LEMMA ReadLineGivesStats ==
  ASSUME NEW stats \in Stats, NEW x \in Lines
  PROVE  ReadLine(stats, x) \in Stats
  <1>1. CASE x \in StatusLines
    BY <1>1 DEF StatusLines, Line, ReadLine, ReadStatus, Stats, Statuses
  <1>2. CASE x \in ExitLines
    BY <1>2 DEF ExitLines, Line, ReadLine, Stats
  <1>3. CASE x = Line("cg-oom-killed", 1)
    BY <1>3 DEF Line, ReadLine, Stats, Statuses
  <1> QED
    BY <1>1, <1>2, <1>3 DEF Lines

\* Every report gives stats: what judging takes of the loop.
THEOREM ReportsGiveStats == \A report \in Reports : Parse(report) \in Stats
  <1> DEFINE Good(s) == s \in Seq(Lines) /\ Readable(s) /\ Parse(s) \in Stats
  <1>1. Good(<<>>)
    BY ParseEmpty DEF NoStats, Stats, Statuses
  <1>2. ASSUME NEW s, Good(s), NEW x \in Lines PROVE Good(Append(s, x))
    BY <1>2, ParseAppend, ReadLineGivesStats
  <1> HIDE DEF Good
  <1>3. ASSUME NEW x \in Lines PROVE Good(<<x>>)
    <2>1. <<x>> = Append(<<>>, x)
      OBVIOUS
    <2> QED
      BY <1>1, <1>2, <2>1
  <1>4. ASSUME NEW x \in Lines, NEW y \in Lines PROVE Good(<<x, y>>)
    <2>1. <<x, y>> = Append(<<x>>, y)
      OBVIOUS
    <2> QED
      BY <1>2, <1>3, <2>1
  <1>5. ASSUME NEW x \in Lines, NEW y \in Lines, NEW z \in Lines
        PROVE  Good(<<x, y, z>>)
    <2>1. <<x, y, z>> = Append(<<x, y>>, z)
      OBVIOUS
    <2> QED
      BY <1>2, <1>4, <2>1
  <1>6. /\ Line("exitcode", 0) \in Lines /\ Line("exitcode", 1) \in Lines
        /\ Line("status", "RE") \in Lines /\ Line("status", "SG") \in Lines
        /\ Line("status", "TO") \in Lines /\ Line("cg-oom-killed", 1) \in Lines
    BY DEF Lines, StatusLines, ExitLines
  <1>7. \A report \in Reports : Good(report)
    BY <1>3, <1>4, <1>5, <1>6 DEF Reports
  <1> QED
    BY <1>7 DEF Good

-----------------------------------------------------------------------------
(***************************************************************************)
(* The line that decides the status.                                       *)
(***************************************************************************)

\* The lines that name a cause have a last one.
HasLast(s) == Causes(s) = {} \/ \E i \in Causes(s) : \A k \in Causes(s) : k <= i

LastCause(s) == CHOOSE i \in Causes(s) : \A k \in Causes(s) : k <= i

IsCause(x) == x.key = "cg-oom-killed" \/ (x.key = "status" /\ x.value # "SG")

\* The status that a cause names.
Named(x) ==
  IF x.key = "cg-oom-killed" THEN "MemoryLimitExceeded"
  ELSE IF x.value = "TO" THEN "TimeLimitExceeded" ELSE "RuntimeError"

\* The causes after one line more.
LEMMA CausesAppend ==
  ASSUME NEW s \in Seq(Lines), NEW x \in Lines
  PROVE  /\ Causes(s) \subseteq 1 .. Len(s)
         /\ Causes(Append(s, x)) =
              IF IsCause(x) THEN Causes(s) \cup {Len(s) + 1} ELSE Causes(s)
  <1> DEFINE t == Append(s, x)
  <1>1. /\ DOMAIN s = 1 .. Len(s) /\ DOMAIN t = 1 .. Len(s) + 1
        /\ t[Len(s) + 1] = x /\ \A n \in 1 .. Len(s) : t[n] = s[n]
        /\ Len(s) \in Nat
    OBVIOUS
  <1> HIDE DEF t
  <1>2. Causes(s) = {i \in 1 .. Len(s) : IsCause(s[i])}
    BY <1>1 DEF Causes, IsCause
  <1>3. Causes(t) = {i \in 1 .. Len(s) + 1 : IsCause(t[i])}
    BY <1>1 DEF Causes, IsCause
  <1>4. \A i \in 1 .. Len(s) + 1 :
          IsCause(t[i]) <=> IF i = Len(s) + 1 THEN IsCause(x) ELSE IsCause(s[i])
    BY <1>1
  <1> QED
    BY <1>1, <1>2, <1>3, <1>4 DEF t

\* The status the reference gives, by the causes.
LEMMA ReferenceIs ==
  ASSUME NEW s
  PROVE  ReferenceStatus(s) =
           IF Causes(s) = {}
           THEN IF \E i \in DOMAIN s : s[i] = Line("status", "SG")
                THEN "RuntimeError" ELSE "Ok"
           ELSE Named(s[LastCause(s)])
  BY DEF ReferenceStatus, Named, LastCause

\* One line more changes the status of the reference as it changes that of the loop.
LEMMA ReferenceAppend ==
  ASSUME NEW s \in Seq(Lines), NEW x \in Lines, HasLast(s)
  PROVE  /\ HasLast(Append(s, x))
         /\ \A stats \in Stats :
              stats.status = ReferenceStatus(s) =>
                ReadLine(stats, x).status = ReferenceStatus(Append(s, x))
  <1> DEFINE t == Append(s, x)
             m == Len(s) + 1
  <1>1. /\ DOMAIN s = 1 .. Len(s) /\ DOMAIN t = 1 .. m
        /\ t[m] = x /\ \A n \in 1 .. Len(s) : t[n] = s[n]
        /\ Len(s) \in Nat
    OBVIOUS
  <1>2. /\ Causes(s) \subseteq 1 .. Len(s)
        /\ Causes(t) = IF IsCause(x) THEN Causes(s) \cup {m} ELSE Causes(s)
    BY CausesAppend
  <1> HIDE DEF t, m
  <1>3. ASSUME IsCause(x)
        PROVE  HasLast(t) /\ ReferenceStatus(t) = Named(x)
    <2>1. m \in Causes(t) /\ \A k \in Causes(t) : k <= m
      BY <1>1, <1>2, <1>3 DEF m
    <2>2. \A i \in Causes(t) : (\A k \in Causes(t) : k <= i) => i = m
      BY <1>1, <1>2, <1>3, <2>1 DEF m
    <2>3. LastCause(t) = m
      BY <2>1, <2>2 DEF LastCause
    <2> QED
      BY <1>1, <2>1, <2>3, ReferenceIs DEF HasLast
  <1>4. ASSUME ~IsCause(x), Causes(s) # {}
        PROVE  /\ HasLast(t) /\ ReferenceStatus(t) = ReferenceStatus(s)
               /\ ReferenceStatus(s) # "Ok"
    <2>1. Causes(t) = Causes(s)
      BY <1>2, <1>4
    <2>2. LastCause(t) = LastCause(s) /\ HasLast(t)
      BY <2>1 DEF LastCause, HasLast
    <2>3. LastCause(s) \in Causes(s)
      BY <1>4 DEF HasLast, LastCause
    <2>4. t[LastCause(s)] = s[LastCause(s)]
      BY <2>3, <1>1, <1>2
    <2> QED
      BY <1>4, <2>1, <2>2, <2>4, ReferenceIs DEF Named
  <1>5. ASSUME ~IsCause(x), Causes(s) = {}
        PROVE  /\ HasLast(t)
               /\ ReferenceStatus(s) \in {"Ok", "RuntimeError"}
               /\ ReferenceStatus(t) = IF x = Line("status", "SG") THEN "RuntimeError"
                                       ELSE ReferenceStatus(s)
    <2>1. Causes(t) = {}
      BY <1>2, <1>5
    <2>2. (\E i \in DOMAIN t : t[i] = Line("status", "SG")) <=>
            \/ x = Line("status", "SG")
            \/ \E i \in DOMAIN s : s[i] = Line("status", "SG")
      BY <1>1 DEF m
    <2>3. ReferenceStatus(s) = IF \E i \in DOMAIN s : s[i] = Line("status", "SG")
                               THEN "RuntimeError" ELSE "Ok"
      BY <1>5, ReferenceIs
    <2>4. ReferenceStatus(t) = IF \E i \in DOMAIN t : t[i] = Line("status", "SG")
                               THEN "RuntimeError" ELSE "Ok"
      BY <2>1, ReferenceIs
    <2> QED
      BY <2>1, <2>2, <2>3, <2>4 DEF HasLast
  <1>6. ASSUME NEW stats \in Stats, stats.status = ReferenceStatus(s)
        PROVE  ReadLine(stats, x).status = ReferenceStatus(t)
    <2>1. CASE x \in StatusLines
      <3>1. PICK v \in {"RE", "TO", "XX", "SG"} : x = Line("status", v)
        BY <2>1 DEF StatusLines
      <3>2. x.key = "status" /\ x.value = v
        BY <3>1 DEF Line
      <3>3. ReadLine(stats, x).status = ReadStatus(stats.status, v)
        BY <3>2 DEF ReadLine, Stats
      <3>4. CASE v = "SG"
        <4>1. ~IsCause(x)
          BY <3>2, <3>4 DEF IsCause
        <4> QED
          BY <4>1, <1>4, <1>5, <1>6, <3>1, <3>3, <3>4 DEF ReadStatus
      <3>5. CASE v # "SG"
        <4>1. IsCause(x) /\ Named(x) = ReadStatus(stats.status, v)
          BY <3>2, <3>5 DEF IsCause, Named, ReadStatus
        <4> QED
          BY <4>1, <1>3, <3>3
      <3> QED
        BY <3>4, <3>5
    <2>2. CASE x \in ExitLines
      <3>1. x.key = "exitcode"
        BY <2>2 DEF ExitLines, Line
      <3>2. ~IsCause(x) /\ x # Line("status", "SG")
        BY <3>1 DEF IsCause, Line
      <3>3. ReadLine(stats, x).status = stats.status
        BY <3>1 DEF ReadLine, Stats
      <3> QED
        BY <3>2, <3>3, <1>4, <1>5, <1>6
    <2>3. CASE x = Line("cg-oom-killed", 1)
      <3>1. x.key = "cg-oom-killed"
        BY <2>3 DEF Line
      <3>2. IsCause(x) /\ Named(x) = "MemoryLimitExceeded"
        BY <3>1 DEF IsCause, Named
      <3>3. ReadLine(stats, x).status = "MemoryLimitExceeded"
        BY <3>1 DEF ReadLine, Stats
      <3> QED
        BY <3>2, <3>3, <1>3
    <2> QED
      BY <2>1, <2>2, <2>3 DEF Lines
  <1>7. HasLast(t)
    BY <1>3, <1>4, <1>5
  <1> QED
    BY <1>6, <1>7 DEF t

-----------------------------------------------------------------------------
(***************************************************************************)
(* The machine that reads any lines.                                       *)
(***************************************************************************)

\* What has been read is what the loop over it makes of it.
MetaInv ==
  /\ lines \in Seq(Lines)
  /\ Readable(lines)
  /\ HasLast(lines)
  /\ Parse(lines) \in Stats
  /\ StatusIsLastCause

LEMMA MetaInit == Init => MetaInv
  <1> SUFFICES ASSUME Init PROVE MetaInv
    OBVIOUS
  <1>1. lines = <<>> /\ lines \in Seq(Lines)
    BY DEF Init
  <1>2. Causes(<<>>) = {}
    BY DEF Causes
  <1>3. ReferenceStatus(<<>>) = "Ok"
    BY <1>2, ReferenceIs
  <1>4. HasLast(<<>>)
    BY <1>2 DEF HasLast
  <1> QED
    BY <1>1, <1>3, <1>4, ParseEmpty
    DEF MetaInv, StatusIsLastCause, NoStats, Stats, Statuses

LEMMA MetaStep == MetaInv /\ [Next]_lines => MetaInv'
  <1>1. ASSUME MetaInv, Next PROVE MetaInv'
    <2>1. PICK x \in Lines : lines' = Append(lines, x)
      BY <1>1 DEF Next
    <2>2. lines' \in Seq(Lines)
      BY <1>1, <2>1 DEF MetaInv
    <2>3. Readable(lines') /\ Parse(lines') = ReadLine(Parse(lines), x)
      BY <1>1, <2>1, ParseAppend DEF MetaInv
    <2>4. Parse(lines') \in Stats
      BY <1>1, <2>3, ReadLineGivesStats DEF MetaInv
    <2>5. HasLast(lines') /\ ReadLine(Parse(lines), x).status = ReferenceStatus(lines')
      BY <1>1, <2>1, ReferenceAppend DEF MetaInv, StatusIsLastCause
    <2> QED
      BY <2>2, <2>3, <2>4, <2>5 DEF MetaInv, StatusIsLastCause
  <1>2. ASSUME MetaInv, UNCHANGED lines PROVE MetaInv'
    BY <1>2 DEF MetaInv, StatusIsLastCause
  <1> QED
    BY <1>1, <1>2

\* The loop over the lines is defined for every sequence of them, of any length,
\* gives stats, and its status is that of the last cause.
THEOREM MetaInvariant == Spec => []MetaInv
  BY MetaInit, MetaStep, PTL DEF Spec

\* However many lines isolate writes, and in any order, the status is the last
\* cause it named, and that of a signal only if it named none.
THEOREM StatusIsLastCauseAlways == Spec => []StatusIsLastCause
  <1>1. MetaInv => StatusIsLastCause
    BY DEF MetaInv
  <1> QED
    BY <1>1, MetaInvariant, PTL
=============================================================================
