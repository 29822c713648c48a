------------------------------- MODULE Recall -------------------------------
(***************************************************************************)
(* The full and search retrieval of an artifact by recall_evidence         *)
(* (tools/recall-tool.ts) as functions of its lines.  A line is its length and whether the query  *)
(* occurs in it; a result is the numbers of the lines it shows, without    *)
(* the markers for what is left out.                                       *)
(***************************************************************************)
EXTENDS Sums, FiniteSetsExt

CONSTANTS full_mode_max_lines, full_mode_max_bytes,
          search_context_lines, search_max_matches

ASSUME RecallAssumption ==
    /\ {full_mode_max_lines, full_mode_max_bytes,
        search_context_lines} \subseteq Nat
    /\ search_max_matches \in Nat \ {0}

\* The length of the first n lines joined by line ends.
Joined(lines, n) ==
    SumOf([i \in 1..n |-> lines[i].chars + (IF i < n THEN 1 ELSE 0)])

\* Mutant of StopsFull: the line ends are not counted.
StopsFullEarly(lines, n) ==
    \/ n >= full_mode_max_lines
    \/ SumOf([i \in 1..(n + 1) |-> lines[i].chars]) > full_mode_max_bytes

\* With n lines taken the loop stops before the next one.
StopsFull(lines, n) ==
    \/ n >= full_mode_max_lines
    \/ SumOf([i \in 1..n |-> lines[i].chars + 1]) + lines[n + 1].chars > full_mode_max_bytes

execFull(lines) ==
    IF Len(lines) > full_mode_max_lines \/ Joined(lines, Len(lines)) > full_mode_max_bytes
      THEN 1..Min({n \in 0..Len(lines) : n = Len(lines) \/ StopsFull(lines, n)})
      ELSE 1..Len(lines)

Hits(lines, n) == {i \in 1..n : lines[i].hit}

Around(lines, hits) ==
    {i \in DOMAIN lines : \E h \in hits : h - search_context_lines <= i /\ i <= h + search_context_lines}

\* Mutant of Collected: the limit forgets the context lines.
CollectedFew(lines) ==
    LET enough == {h \in Hits(lines, Len(lines)) :
                     Cardinality(Around(lines, Hits(lines, h))) >= search_max_matches}
        last == IF enough = {} THEN Len(lines) ELSE Min(enough)
    IN  Around(lines, Hits(lines, last))

\* The first loop: matches with their context, until there are enough lines.
Collected(lines) ==
    LET enough == {h \in Hits(lines, Len(lines)) :
                     Cardinality(Around(lines, Hits(lines, h)))
                         >= search_max_matches * (2 * search_context_lines + 1)}
        last == IF enough = {} THEN Len(lines) ELSE Min(enough)
    IN  Around(lines, Hits(lines, last))

\* The second loop: up to the last match that is allowed.
execSearch(lines) ==
    LET found == Collected(lines)
        capped == {i \in found : Cardinality({h \in found : h <= i /\ lines[h].hit})
                                    >= search_max_matches}
    IN  IF capped = {} THEN found ELSE {i \in found : i <= Min(capped)}

-----------------------------------------------------------------------------
\* A full recall shows the longest beginning of the artifact within both caps.
IsLongestFit(lines, shown) ==
    \E n \in 0..Len(lines) :
        /\ shown = 1..n
        /\ n <= full_mode_max_lines /\ (n > 0 => Joined(lines, n) <= full_mode_max_bytes)
        /\ n < Len(lines) =>
             n + 1 > full_mode_max_lines \/ Joined(lines, n + 1) > full_mode_max_bytes

\* A search shows the first matches there are, as many as allowed, with every
\* line of context before the last of them.
IsFirstMatches(lines, shown) ==
    LET hits == Hits(lines, Len(lines))
        first == {h \in hits : Cardinality(Hits(lines, h)) <= search_max_matches}
    IN  /\ Hits(lines, Len(lines)) \cap shown = first
        /\ \A i \in Around(lines, first) : i <= Max(first) => i \in shown
        /\ shown \subseteq Around(lines, hits)
=============================================================================
