--------------------------- MODULE JsonlImport ---------------------------
(***************************************************************************)
(* The JSONL importer every file adapter shares (internal/adapterjsonl):   *)
(* what one importFile appends to the evidence ledger, given the bytes it  *)
(* reads and the events that are there.  No cursor is kept: the committed  *)
(* offset and the known event ids are computed from the ledger each time.  *)
(*                                                                         *)
(* A file is a sequence of bytes.  A record is one byte of Bodies followed *)
(* by a newline, so a writer can be seen between the two, and an import    *)
(* that starts at a wrong offset sees half a record.                       *)
(***************************************************************************)
EXTENDS Naturals, FiniteSets, SequencesExt

CONSTANTS
    Sources,     \* source files, by the hash of their path
    Bodies,      \* what a record can hold
    Malformed    \* the bodies that are not valid JSON

ASSUME MalformedAssumption == Malformed \subseteq Bodies

-----------------------------------------------------------------------------
\* The k-th of a set of numbers, from below.
Nth(S, k) == CHOOSE i \in S : Cardinality({j \in S : j < i}) = k - 1

\* The elements of a sequence at some of its positions, in order (SelectSeq, in a
\* form that proofs can unfold).
Pick(s, positions) == [k \in 1 .. Cardinality(positions) |-> s[Nth(positions, k)]]

-----------------------------------------------------------------------------
NL == "newline"
Bytes == Seq(Bodies \cup {NL})

\* Bytes start+1 .. end of a file.
Segment(bytes, start, end) == SubSeq(bytes, start + 1, end)

\* Where the line that starts at an offset ends, as ReadBytes('\n') finds it.
LineEnd(bytes, start) ==
    LET newlines == {i \in start + 1 .. Len(bytes) : bytes[i] = NL}
    IN  IF newlines = {} THEN Len(bytes) ELSE Min(newlines)

\* The offsets at which the lines behind an offset start, in order.
LineStarts(bytes, from) ==
    LET starts == {i \in from .. Len(bytes) - 1 : i = from \/ bytes[i] = NL}
    IN  [k \in 1 .. Cardinality(starts) |-> Nth(starts, k)]

Terminated(line) == Last(line) = NL
ValidJSON(line) == Front(line) \in [1 .. 1 -> Bodies \ Malformed]

-----------------------------------------------------------------------------
(***************************************************************************)
(* Events.  Their ids are hashes of exactly these fields, so two events    *)
(* are the same when their records are equal.  A projection with a         *)
(* StableIdentity has another id; only the projections of the DeepSeek     *)
(* harness have one, and they are not modelled.                            *)
(***************************************************************************)
Event(kind, source, start, end, bytes) ==
    [kind |-> kind, source |-> source, start |-> start, end |-> end, bytes |-> bytes]

\* The projections of a valid line are one event here: they share its bytes.
LineEvent(source, bytes, start) ==
    LET end == LineEnd(bytes, start)
        line == Segment(bytes, start, end)
        kind == CASE ~Terminated(line) -> "trailing_partial_json"
                  [] Terminated(line) /\ ~ValidJSON(line) -> "invalid_json_line_terminated"
                  [] OTHER -> "line"
    IN  Event(kind, source, start, end, line)

GapKinds == {"source_truncated", "trailing_partial_json", "invalid_json_line_terminated"}
CommittedKinds == {"line", "invalid_json_line_terminated"}

\* loadImportState: a truncation resets the offset to the size it found, a
\* committed line moves it to its end if that is further.
CommittedOffset(log, source) ==
    LET own(kinds) == {i \in DOMAIN log : log[i].source = source /\ log[i].kind \in kinds}
        reset == Max(own({"source_truncated"}) \cup {0})
        base == IF reset = 0 THEN 0 ELSE log[reset].end
        ends == {log[i].end : i \in {j \in own(CommittedKinds) : j > reset}}
    IN  Max(ends \cup {base})

\* Mutation: the ids in the ledger are not looked at.
Unknown_all(log, events) == events

\* Events that the ledger does not have yet, each once.
Unknown(log, events) == Pick(events, {i \in DOMAIN events : events[i] \notin ToSet(log)})

\* importFile: the events it derives when the size it was told is size and what
\* it can read is bytes, and the batch it appends.
FileEvents(log, source, size, bytes, full) ==
    LET committed == CommittedOffset(log, source)
        truncation == IF committed > size
                      THEN <<Event("source_truncated", source, committed, size, <<>>)>>
                      ELSE <<>>
        start == IF full \/ committed > size THEN 0 ELSE committed
        read == Segment(bytes, 0, Min({size, Len(bytes)}))
        segment == Event("source_segment", source, start, Max({start, Len(read)}),
                         Segment(read, start, Len(read)))
        starts == LineStarts(read, start)
        lines == [i \in DOMAIN starts |-> LineEvent(source, read, starts[i])]
    IN  IF start = size THEN truncation ELSE truncation \o <<segment>> \o lines

ImportBatch(log, source, size, bytes, full) ==
    Unknown(log, FileEvents(log, source, size, bytes, full))

HasGaps(events) == \E i \in DOMAIN events : events[i].kind \in GapKinds

\* Every terminated line of a file is in the ledger, as an event or, when it is
\* not JSON, as a gap.
LinesRecorded(log, source, bytes) ==
    LET starts == LineStarts(bytes, 0)
    IN  \A i \in DOMAIN starts :
            \/ ~Terminated(Segment(bytes, starts[i], LineEnd(bytes, starts[i])))
            \/ LineEvent(source, bytes, starts[i]) \in ToSet(log)
=============================================================================
