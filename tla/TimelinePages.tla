------------------------------ MODULE TimelinePages ------------------------------
(***************************************************************************)
(* The timeline of a case read page by page while it grows                 *)
(* (api/v1/grievance.py, timeline).                                        *)
(*                                                                         *)
(*   entries   the entries committed                                       *)
(*   writing   the entries of transactions that have not committed yet     *)
(*   clock     the time: an entry is stamped when it is made, not when it  *)
(*             is committed                                                *)
(*   reader    who reads, the cursor, the pages handed out so far, and     *)
(*             the entries that were there when the reading began          *)
(*                                                                         *)
(* Each page is a request of its own.  An entry is its stamp, its random   *)
(* name and whether it is internal; the rest of the answer is left out.    *)
(* A page is a set: one query sorts it as it sorts the rows it comes from. *)
(***************************************************************************)
EXTENDS Integers, FiniteSets, Sequences

CONSTANTS EntryNames,       \* names of entries, numbers so that they are ordered
          PageLimit,        \* entries on a page
          LastMoment,       \* bound on the clock
          NoReader

ASSUME PagesAssumption == EntryNames \subseteq Nat /\ LastMoment \in Nat /\ PageLimit \in Nat

VARIABLES entries, writing, clock, reader

pagesVars == <<entries, writing, clock, reader>>

TimelineRows == [at : 0 .. LastMoment, name : EntryNames, internal : BOOLEAN]
FirstCursor == [at |-> -1, name |-> 0]

Reading ==
  [staff : BOOLEAN, cursor : [at : -1 .. LastMoment, name : EntryNames \cup {0}],
   got : Seq(SUBSET TimelineRows), found : SUBSET TimelineRows, done : BOOLEAN]

PagesTypeOK ==
  /\ entries \subseteq TimelineRows /\ writing \subseteq TimelineRows
  /\ clock \in 0 .. LastMoment
  /\ reader \in Reading \cup {NoReader}

PagesInit == entries = {} /\ writing = {} /\ clock = 0 /\ reader = NoReader

-----------------------------------------------------------------------------
Unnamed == EntryNames \ {row.name : row \in entries \cup writing}

\* GrievanceTimeline.record: the stamp and the name are taken on the insert.
WriteEntry(name, internal) ==
  /\ name \in Unnamed
  /\ writing' = writing \cup {[at |-> clock, name |-> name, internal |-> internal]}
  /\ UNCHANGED <<entries, clock, reader>>

CommitEntry(row) ==
  /\ row \in writing
  /\ writing' = writing \ {row} /\ entries' = entries \cup {row}
  /\ UNCHANGED <<clock, reader>>

LoseEntry(row) ==
  /\ row \in writing
  /\ writing' = writing \ {row} /\ UNCHANGED <<entries, clock, reader>>

MomentPasses ==
  /\ clock < LastMoment /\ clock' = clock + 1
  /\ UNCHANGED <<entries, writing, reader>>

-----------------------------------------------------------------------------
ReadableBy(staff) == {row \in entries : staff \/ ~row.internal}

\* Mutant: the cursor is a moment, so entries of one moment are split by a page.
Past_MomentOnly(row, cursor) == row.at > cursor.at

Past(row, cursor) ==
  row.at > cursor.at \/ (row.at = cursor.at /\ row.name > cursor.name)

\* Oldest first, the name deciding between entries of one moment.
Before(row, other) == row.at < other.at \/ (row.at = other.at /\ row.name < other.name)

\* The rows a query in that order returns up to the limit.
FirstOf(rows) ==
  {row \in rows : Cardinality({other \in rows : Before(other, row)}) < PageLimit}

BeginReading(staff) ==
  /\ reader = NoReader
  /\ reader' = [staff |-> staff, cursor |-> FirstCursor, got |-> <<>>,
                found |-> ReadableBy(staff), done |-> FALSE]
  /\ UNCHANGED <<entries, writing, clock>>

\* One entry more than a page is read, to know whether another page follows;
\* the cursor of the next page is the last entry of this one.
ReadPage ==
  /\ reader # NoReader /\ ~reader.done
  /\ LET rest == {row \in ReadableBy(reader.staff) : Past(row, reader.cursor)}
         page == FirstOf(rest)
     IN  \/ page = rest /\ reader' = [reader EXCEPT !.got = Append(@, page), !.done = TRUE]
         \/ /\ page # rest
            /\ \E last \in page :
                 /\ \A row \in page : ~Before(last, row)
                 /\ reader' = [reader EXCEPT
                      !.got = Append(@, page), !.cursor = [at |-> last.at, name |-> last.name]]
  /\ UNCHANGED <<entries, writing, clock>>

PagesNext ==
  \/ \E name \in EntryNames, internal \in BOOLEAN : WriteEntry(name, internal)
  \/ \E row \in writing : CommitEntry(row) \/ LoseEntry(row)
  \/ MomentPasses
  \/ \E staff \in BOOLEAN : BeginReading(staff)
  \/ ReadPage

PagesSpec == PagesInit /\ [][PagesNext]_pagesVars

-----------------------------------------------------------------------------
\* Whoever follows the cursor to the end has been handed every entry that was
\* there for them when they began, none twice and in the order of the timeline,
\* whatever is written meanwhile (timeline).
PagesCover ==
  reader # NoReader =>
    /\ reader.done => reader.found \subseteq UNION {reader.got[i] : i \in DOMAIN reader.got}
    /\ \A i, j \in DOMAIN reader.got : i < j =>
         \A row \in reader.got[i], other \in reader.got[j] : Before(row, other)
    /\ ~reader.staff => \A i \in DOMAIN reader.got : \A row \in reader.got[i] : ~row.internal
================================================================================
