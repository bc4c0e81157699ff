------------------------------- MODULE PlanDiff -------------------------------
(***************************************************************************)
(* How `plan-show --compare` tells two plans apart (shared/diff.ts): a     *)
(* longest common subsequence of their lines, the edit script along it,    *)
(* and the hunks it is printed as.  A text is what a split at its newlines *)
(* gives: its lines, and whether a newline ends the last.                  *)
(***************************************************************************)
EXTENDS Integers, SequencesExt, FiniteSetsExt

CONSTANTS
    TextPairs,   \* the pairs of texts compared: <<[lines, ends], [lines, ends]>>
    Blank,       \* the empty line
    Context,     \* DIFF_CONTEXT_LINES
    MaxLines     \* MAX_COMPARE_PLAN_LINES

VARIABLES pair, diff

diffVars == <<pair, diff>>

\* splitPlanLines: a text of nothing, or of one newline, has no line.
SplitPlanLines(text) == IF text.lines = <<Blank>> THEN <<>> ELSE text.lines

ExceedsLineCap(text) == Len(SplitPlanLines(text)) > MaxLines

-----------------------------------------------------------------------------
(* The edit script *)

\* The table of buildDiffOps: how long a common subsequence of what is left
\* of both can be, from line i of one and line j of the other.
Common(a, b) ==
    LET t[i \in 1..Len(a) + 1, j \in 1..Len(b) + 1] ==
            IF i > Len(a) \/ j > Len(b) THEN 0
            ELSE IF a[i] = b[j] THEN t[i + 1, j + 1] + 1
            ELSE IF t[i + 1, j] > t[i, j + 1] THEN t[i + 1, j] ELSE t[i, j + 1]
    IN t

Entry(kind, text) == [kind |-> kind, text |-> text]

\* The slip TakesAddition must not make: the shorter way is taken.
ShorterWay(t, i, j) == t[i, j + 1] <= t[i + 1, j]

\* Of two ways that are as good, an addition is taken first.
TakesAddition(t, i, j) == t[i, j + 1] >= t[i + 1, j]

\* The walk along the table.
Walk(a, b) ==
    LET t == Common(a, b)
        w[i \in 1..Len(a) + 1, j \in 1..Len(b) + 1] ==
            IF i > Len(a) /\ j > Len(b) THEN <<>>
            ELSE IF i <= Len(a) /\ j <= Len(b) /\ a[i] = b[j]
                 THEN <<Entry(" ", a[i])>> \o w[i + 1, j + 1]
            ELSE IF i > Len(a) \/ (j <= Len(b) /\ TakesAddition(t, i, j))
                 THEN <<Entry("+", b[j])>> \o w[i, j + 1]
            ELSE <<Entry("-", a[i])>> \o w[i + 1, j]
    IN w[1, 1]

\* flush: within a run of changes the removals come first.
Flushed(run) ==
    SelectSeq(run, LAMBDA e : e.kind = "-") \o SelectSeq(run, LAMBDA e : e.kind = "+")
RemovalsFirst(entries) ==
    LET step(sofar, e) == IF e.kind = " "
                          THEN [out |-> sofar.out \o Flushed(sofar.run) \o <<e>>, run |-> <<>>]
                          ELSE [out |-> sofar.out, run |-> Append(sofar.run, e)]
        all == FoldLeft(step, [out |-> <<>>, run |-> <<>>], entries)
    IN all.out \o Flushed(all.run)

BuildDiffOps(a, b) == RemovalsFirst(Walk(a, b))

-----------------------------------------------------------------------------
(* Hunks: [aStart, aCount, bStart, bCount, body] *)

Side(entries, other) == SelectSeq(entries, LAMBDA e : e.kind # other)

\* withLineNumbers: the lines of a side before an op.
Index(ops, k, other) == Len(Side(SubSeq(ops, 1, k - 1), other))

\* The slip StartLine must not make: an empty side starts at a line too.
AlwaysNext(index, count) == index + 1

\* A side without lines is printed at the line before.
StartLine(index, count) == IF count = 0 THEN index ELSE index + 1

RenderHunk(ops, first, last) ==
    LET start == IF first - Context < 1 THEN 1 ELSE first - Context
        end == IF last + Context > Len(ops) THEN Len(ops) ELSE last + Context
        body == SubSeq(ops, start, end)
        aCount == Len(Side(body, "+"))
        bCount == Len(Side(body, "-"))
    IN [aStart |-> StartLine(Index(ops, start, "+"), aCount), aCount |-> aCount,
        bStart |-> StartLine(Index(ops, start, "-"), bCount), bCount |-> bCount, body |-> body]

\* Two changes whose gap fits both contexts share a hunk.
ShareHunk(k, l) == l - k - 1 <= Context * 2

RenderHunks(ops) ==
    LET changes == {k \in DOMAIN ops : ops[k].kind # " "}
        before(k) == {l \in changes : l < k}
        after(k) == {l \in changes : l > k}
        opens == {k \in changes : before(k) = {} \/ ~ShareHunk(Max(before(k)), k)}
        closes == {k \in changes : after(k) = {} \/ ~ShareHunk(k, Min(after(k)))}
        groups == SetToSortSeq(opens, <)
    IN [g \in DOMAIN groups |-> RenderHunk(ops, groups[g], Min({k \in closes : k >= groups[g]}))]

DiffPlanTexts(x, y) ==
    LET hunks == RenderHunks(BuildDiffOps(SplitPlanLines(x), SplitPlanLines(y)))
    IN IF x = y THEN [identical |-> TRUE, suppressed |-> FALSE, hunks |-> <<>>]
       ELSE IF ExceedsLineCap(x) \/ ExceedsLineCap(y)
       THEN [identical |-> FALSE, suppressed |-> TRUE, hunks |-> <<>>]
       ELSE [identical |-> hunks = <<>>, suppressed |-> FALSE, hunks |-> hunks]

DiffInit == pair \in TextPairs /\ diff = <<>>

ComparePlans ==
    /\ diff = <<>> /\ diff' = <<DiffPlanTexts(pair[1], pair[2])>>
    /\ UNCHANGED pair

-----------------------------------------------------------------------------

\* What patch does with a hunk: a side's lines stand where its header says,
Before(start, count) == IF count = 0 THEN start ELSE start - 1
Stands(start, count, entries, s) ==
    LET from == Before(start, count)
    IN from + count <= Len(s) /\ SubSeq(s, from + 1, from + count) = [k \in DOMAIN entries |-> entries[k].text]
Fits(h, a, b) ==
    Stands(h.aStart, h.aCount, Side(h.body, "+"), a) /\ Stands(h.bStart, h.bCount, Side(h.body, "-"), b)

\* and between two hunks, before the first and after the last, nothing changes.
SameBetween(hunks, a, b) ==
    LET after(g) == IF g = 0 THEN <<0, 0>>
                    ELSE <<Before(hunks[g].aStart, hunks[g].aCount) + hunks[g].aCount,
                           Before(hunks[g].bStart, hunks[g].bCount) + hunks[g].bCount>>
        until(g) == IF g = Len(hunks) THEN <<Len(a), Len(b)>>
                    ELSE <<Before(hunks[g + 1].aStart, hunks[g + 1].aCount),
                           Before(hunks[g + 1].bStart, hunks[g + 1].bCount)>>
    IN \A g \in 0..Len(hunks) :
           /\ after(g)[1] <= until(g)[1] /\ until(g)[1] <= Len(a) /\ until(g)[2] <= Len(b)
           /\ SubSeq(a, after(g)[1] + 1, until(g)[1]) = SubSeq(b, after(g)[2] + 1, until(g)[2])

\* The longest sequence that both have as a subsequence, by trying each.
TakenFrom(s, rows) == LET order == SetToSortSeq(rows, <) IN [k \in DOMAIN order |-> s[order[k]]]
Subsequences(s) == {TakenFrom(s, rows) : rows \in SUBSET DOMAIN s}
LongestCommon(a, b) == Max({Len(s) : s \in Subsequences(a) \cap Subsequences(b)})

ChangeCount(hunks) == FoldLeft(LAMBDA n, h : n + Len(SelectSeq(h.body, LAMBDA e : e.kind # " ")), 0, hunks)

(* What is printed of two plans under the cap turns one into the other:    *)
(* every hunk fits both where its header says, nothing changes around      *)
(* them, no smaller set of changes would do, and plans are identical       *)
(* exactly when no line differs (diff.ts:84-214).                          *)
DiffIsAPatch ==
    \A d \in ToSet(diff) : ~d.suppressed =>
        LET a == SplitPlanLines(pair[1])
            b == SplitPlanLines(pair[2])
        IN /\ d.identical <=> a = b
           /\ \A h \in ToSet(d.hunks) : Fits(h, a, b)
           /\ SameBetween(d.hunks, a, b)
           /\ ChangeCount(d.hunks) = Len(a) + Len(b) - 2 * LongestCommon(a, b)
===============================================================================
