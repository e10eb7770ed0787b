------------------------------ MODULE CvTimeline ------------------------------
(***************************************************************************)
(* The parser of CVs (CVProfileParser): how the lines of a CV fall into    *)
(* sections, and those of its two timelines, experience and education,     *)
(* into entries.  One line is read at a time; collecting a section before  *)
(* its lines are parsed, as the code does, comes to the same.              *)
(*                                                                         *)
(* A line is its number, and what the regular expressions and the keyword  *)
(* tables say of it is its kind.  The contact, the name, the headline, the *)
(* summary and the skills of a profile are left out.                       *)
(***************************************************************************)
EXTENDS Integers, Sequences

CONSTANTS MaxLines,     \* bound: the lines of a CV
          MostEntries   \* the entries that are kept of a timeline

Timelines == {"experience", "education"}

ASSUME MostEntriesAssumption ==
  MaxLines \in Nat /\ MostEntries \in [Timelines -> Nat]

VARIABLES
  read,        \* the number of lines read
  section,     \* the section that the next line belongs to, or "none"
  subheading,  \* the lines that look like a subheading
  current,     \* the entry of a timeline that is being filled
  entries,     \* the entries that are finished
  parsed,      \* whether parse has returned
  home         \* observer: the timeline a line was put into, or "none"

timelineVars == <<read, section, subheading, current, entries, parsed, home>>

NoLine == 0
Lines == 1 .. MaxLines

\* A title or a school; a company or a degree; a range of dates.
EmptyEntry == [name |-> NoLine, place |-> NoLine, date |-> NoLine, description |-> {}]

HasContent(e) == e # EmptyEntry

\* Subheadings are left out of the description.
Finalized(e) == [e EXCEPT !.description = @ \ subheading]

\* Mutant: the entry is forgotten where a range of dates begins another.
WithEntryForgotten(done, e) == done

\* An entry of which nothing is left is not listed.
WithEntry(done, e) ==
  IF HasContent(Finalized(e)) THEN Append(done, Finalized(e)) ELSE done

TimelineInit ==
  /\ read = 0
  /\ section = "none"
  /\ subheading = {}
  /\ current = [s \in Timelines |-> EmptyEntry]
  /\ entries = [s \in Timelines |-> <<>>]
  /\ parsed = FALSE
  /\ home = [n \in Lines |-> "none"]

ReadLine == ~parsed /\ read < MaxLines /\ read' = read + 1

-----------------------------------------------------------------------------
(* Sections.                                                               *)

\* The heading of a section.  That of the personal data belongs to none; any
\* other line in capitals looks like a role or a school and begins no section.
ReadHeading(h) ==
  /\ ReadLine
  /\ section' = IF h = "personal" THEN "none" ELSE h
  /\ UNCHANGED <<subheading, current, entries, parsed, home>>

\* A line of another section, or of none.
ReadElsewhere ==
  /\ ReadLine
  /\ section \notin Timelines
  /\ UNCHANGED <<section, subheading, current, entries, parsed, home>>

-----------------------------------------------------------------------------
(* Timelines.                                                              *)

\* What may name an entry, what may be its place, and "both": a role with its
\* company.  Education does not tell subheadings from other lines.
Subheadings == {"subheading", "naming_subheading"}
BodyKinds == {"name", "place", "name_or_place", "both", "long_both", "text"} \cup Subheadings

MayName(s, k) ==
  \/ k \in {"name", "name_or_place", "both", "long_both"}
  \/ s = "education" /\ k = "naming_subheading"

MayPlace(s, k) ==
  \/ k \in {"place", "name_or_place", "both"}
  \/ s = "education" /\ k \in Subheadings

NamesBoth(s, k) == s = "experience" /\ k \in {"both", "long_both"}

Filled(s, e, n, k) ==
  IF e.name = NoLine /\ MayName(s, k)
  THEN [e EXCEPT !.name = n, !.place = IF NamesBoth(s, k) THEN n ELSE @]
  ELSE IF e.name # NoLine /\ e.place = NoLine /\ MayPlace(s, k)
  THEN [e EXCEPT !.place = n]
  ELSE [e EXCEPT !.description = @ \cup {n}]

ReadBody(k) ==
  /\ ReadLine
  /\ section \in Timelines
  /\ home' = [home EXCEPT ![read + 1] = section]
  /\ subheading' = IF k \in Subheadings THEN subheading \cup {read + 1} ELSE subheading
  /\ current' = [current EXCEPT ![section] = Filled(section, @, read + 1, k)]
  /\ UNCHANGED <<section, entries, parsed>>

\* A range of dates begins an entry, even where only a title was before it.
ReadDate ==
  /\ ReadLine
  /\ section \in Timelines
  /\ home' = [home EXCEPT ![read + 1] = section]
  /\ entries' = [entries EXCEPT ![section] = WithEntry(@, current[section])]
  /\ current' = [current EXCEPT ![section] = [EmptyEntry EXCEPT !.date = read + 1]]
  /\ UNCHANGED <<section, subheading, parsed>>

\* The number of a page.
ReadNoise ==
  /\ ReadLine
  /\ section \in Timelines
  /\ UNCHANGED <<section, subheading, current, entries, parsed, home>>

\* The last entry of each timeline, and the cut.
FinishParse ==
  /\ ~parsed /\ parsed' = TRUE
  /\ entries' = [s \in Timelines |->
       LET all == WithEntry(entries[s], current[s])
       IN IF Len(all) <= MostEntries[s] THEN all ELSE SubSeq(all, 1, MostEntries[s])]
  /\ current' = [s \in Timelines |-> EmptyEntry]
  /\ UNCHANGED <<read, section, subheading, home>>

TimelineNext ==
  \/ \E h \in Timelines \cup {"other", "personal"} : ReadHeading(h)
  \/ \E k \in BodyKinds : ReadBody(k)
  \/ ReadDate \/ ReadNoise \/ ReadElsewhere
  \/ FinishParse

TimelineSpec == TimelineInit /\ [][TimelineNext]_timelineVars

-----------------------------------------------------------------------------
(* Properties.                                                             *)

Entry == [name : Lines \cup {NoLine}, place : Lines \cup {NoLine},
          date : Lines \cup {NoLine}, description : SUBSET Lines]

\* Every variable has its type; nothing beyond the last line is known.
TimelineTypeOK ==
  /\ read \in 0 .. MaxLines
  /\ section \in Timelines \cup {"none", "other"}
  /\ subheading \subseteq 1 .. read
  /\ current \in [Timelines -> Entry]
  /\ entries \in [Timelines -> Seq(Entry)]
  /\ parsed \in BOOLEAN
  /\ home \in [Lines -> Timelines \cup {"none"}]

LinesOf(e) == ({e.name, e.place, e.date} \ {NoLine}) \cup e.description

Held(s) ==
  LinesOf(current[s]) \cup UNION {LinesOf(entries[s][i]) : i \in DOMAIN entries[s]}

\* A line of a timeline is never lost but for subheadings: it is in an entry,
\* and in an entry of its own timeline, unless the list of entries was cut.
LinesAreKept ==
  \A n \in Lines : \A s \in Timelines :
    /\ n \in Held(s) => home[n] = s
    /\ home[n] = s /\ n \notin subheading =>
         n \in Held(s) \/ (parsed /\ Len(entries[s]) = MostEntries[s])

\* Entries follow the lines: what an entry holds comes before what a later
\* one holds, and a range of dates before all else in its entry.
EntriesFollowTheLines ==
  \A s \in Timelines :
    /\ \A i, j \in DOMAIN entries[s] : i < j =>
         \A m \in LinesOf(entries[s][i]), n \in LinesOf(entries[s][j]) : m < n
    /\ \A i \in DOMAIN entries[s] : entries[s][i].date # NoLine =>
         \A n \in LinesOf(entries[s][i]) : entries[s][i].date <= n

=============================================================================
