------------------------------ MODULE Interval ------------------------------
(***************************************************************************)
(* Slices of intervals of transaction numbers: src/mysql/mysql_interval.go *)
(* An interval is half open.                                               *)
(***************************************************************************)
EXTENDS Integers, Sequences, FiniteSets, TLC

Interval == [start : Nat, stop : Nat]

Members(i) == i.start .. (i.stop - 1)

Covered(s) == UNION {Members(s[j]) : j \in DOMAIN s}

\* Sorted, and a gap between any two intervals.
Normal(s) ==
  /\ \A j \in DOMAIN s : s[j].start < s[j].stop
  /\ \A j, k \in DOMAIN s : j < k => s[j].stop < s[k].start

SortIntervals(s) ==
  SortSeq(s, LAMBDA a, b : a.start < b.start \/ (a.start = b.start /\ a.stop < b.stop))

\* Adjacent intervals are not merged.
MergeNextApart(n, i) ==
  LET last == n[Len(n)]
  IN  IF i.start >= last.stop
      THEN Append(n, i)
      ELSE [n EXCEPT ![Len(n)].stop = IF i.stop > last.stop THEN i.stop ELSE last.stop]

\* One turn of the loop of Normalize: n is the result so far.
MergeNext(n, i) ==
  LET last == n[Len(n)]
  IN  IF i.start > last.stop
      THEN Append(n, i)
      ELSE [n EXCEPT ![Len(n)].stop = IF i.stop > last.stop THEN i.stop ELSE last.stop]

Normalize(s) ==
  IF s = <<>> THEN s
  ELSE LET sorted == SortIntervals(s)
           n[k \in 1 .. Len(s)] ==
             IF k = 1 THEN <<sorted[1]>> ELSE MergeNext(n[k - 1], sorted[k])
       IN  n[Len(s)]

\* sort.Search over the interval ends: the first one not below x, or one past
\* the end.
Search(s, x) ==
  CHOOSE j \in 1 .. Len(s) + 1 :
    /\ j <= Len(s) => x <= s[j].stop
    /\ \A k \in 1 .. j - 1 : ~ (x <= s[k].stop)

\* Only the start of the interval is looked for.
ContainIntervalStart(s, i) ==
  LET j == Search(s, i.start)
  IN  j # Len(s) + 1 /\ ~ (i.start < s[j].start)

ContainInterval(s, i) ==
  LET j == Search(s, i.start)
  IN  /\ j # Len(s) + 1
      /\ ~ (i.start < s[j].start \/ i.stop > s[j].stop)

ContainSlice(s, sub) == \A k \in DOMAIN sub : ContainInterval(s, sub[k])

=============================================================================
