---------------------------- MODULE CvTimelineProofs ----------------------------
(***************************************************************************)
(* Proofs about the parser of CVs: no line of a timeline is lost, and the  *)
(* entries follow the lines, whatever the lines are and however many.      *)
(***************************************************************************)
EXTENDS CvTimeline, SequenceTheorems, TLAPS
-----------------------------------------------------------------------------

\* The lines of finished entries come before those of the current one, and a
\* place is only filled beside a name.
TimelineOK ==
  /\ TimelineTypeOK
  /\ \A n \in Lines : home[n] # "none" => n <= read
  /\ \A s \in Timelines : current[s].name = NoLine => current[s].place = NoLine
  /\ \A s \in Timelines : \A i \in DOMAIN entries[s] :
       \A m \in LinesOf(entries[s][i]), n \in LinesOf(current[s]) : m < n
  /\ \A s \in Timelines : current[s].date # NoLine =>
       \A n \in LinesOf(current[s]) : current[s].date <= n
  /\ LinesAreKept
  /\ EntriesFollowTheLines

LEMMA EntryLines ==
  ASSUME NEW e \in Entry
  PROVE  /\ LinesOf(e) \subseteq Lines
         /\ Finalized(e) \in Entry
         /\ LinesOf(Finalized(e)) \subseteq LinesOf(e)
         /\ LinesOf(e) \ subheading \subseteq LinesOf(Finalized(e))
         /\ Finalized(e).date = e.date
         /\ LinesOf(e) \ subheading # {} => HasContent(Finalized(e))
BY DEF Entry, LinesOf, Finalized, HasContent, EmptyEntry, Lines, NoLine

LEMMA EmptyLines == EmptyEntry \in Entry /\ LinesOf(EmptyEntry) = {}
BY DEF EmptyEntry, Entry, LinesOf, NoLine

LEMMA HeldBy ==
  ASSUME NEW s, NEW n
  PROVE  n \in Held(s) <=> \/ n \in LinesOf(current[s])
                           \/ \E i \in DOMAIN entries[s] : n \in LinesOf(entries[s][i])
BY DEF Held

\* Where an entry goes when it is finished.
LEMMA WithEntryList ==
  ASSUME NEW done \in Seq(Entry), NEW e \in Entry, NEW all, all = WithEntry(done, e)
  PROVE  /\ all \in Seq(Entry)
         /\ DOMAIN done \subseteq DOMAIN all
         /\ \A i \in DOMAIN done : all[i] = done[i]
         /\ \A i \in DOMAIN all \ DOMAIN done :
              all[i] = Finalized(e) /\ \A j \in DOMAIN all : j <= i
         /\ LinesOf(e) \ subheading # {} =>
              \E i \in DOMAIN all : all[i] = Finalized(e)
<1>1. Finalized(e) \in Entry /\ (LinesOf(e) \ subheading # {} => HasContent(Finalized(e)))
  BY EntryLines
<1>2. CASE HasContent(Finalized(e))
  <2>1. all = Append(done, Finalized(e))
    BY <1>2 DEF WithEntry
  <2>2. /\ all \in Seq(Entry) /\ Len(all) = Len(done) + 1 /\ all[Len(done) + 1] = Finalized(e)
        /\ \A i \in 1 .. Len(done) : all[i] = done[i]
    BY <2>1, <1>1
  <2>3. DOMAIN all = 1 .. Len(all) /\ DOMAIN done = 1 .. Len(done) /\ Len(done) \in Nat
    BY <2>2
  <2> QED BY <2>2, <2>3
<1>3. CASE ~HasContent(Finalized(e))
  BY <1>1, <1>3 DEF WithEntry
<1> QED BY <1>2, <1>3

LEMMA TimelineBegins == TimelineInit => TimelineOK
<1> SUFFICES ASSUME TimelineInit PROVE TimelineOK
  OBVIOUS
<1>1. TimelineTypeOK
  <2>1. read \in 0 .. MaxLines /\ subheading \subseteq 1 .. read
    BY MostEntriesAssumption DEF TimelineInit
  <2>2. current \in [Timelines -> Entry] /\ entries \in [Timelines -> Seq(Entry)]
    BY EmptyLines DEF TimelineInit
  <2>3. home \in [Lines -> Timelines \cup {"none"}]
    BY DEF TimelineInit
  <2> QED BY <2>1, <2>2, <2>3 DEF TimelineInit, TimelineTypeOK
<1>2. \A s \in Timelines : entries[s] = <<>> /\ LinesOf(current[s]) = {} /\ current[s] = EmptyEntry
  BY EmptyLines DEF TimelineInit
<1>3. \A n \in Lines : home[n] = "none"
  BY DEF TimelineInit
<1>4. LinesAreKept
  BY <1>2, <1>3, HeldBy DEF LinesAreKept, Timelines
<1> QED BY <1>1, <1>2, <1>3, <1>4 DEF TimelineOK, EntriesFollowTheLines, EmptyEntry

\* A line that is no part of a timeline.
LEMMA LinesPass ==
  ASSUME TimelineOK, ReadLine, UNCHANGED <<subheading, current, entries, parsed, home>>,
         section' \in Timelines \cup {"none", "other"}
  PROVE  TimelineOK'
<1>1. TimelineTypeOK'
  BY MostEntriesAssumption DEF TimelineOK, TimelineTypeOK, ReadLine
<1>2. LinesAreKept' /\ EntriesFollowTheLines'
  BY DEF TimelineOK, LinesAreKept, EntriesFollowTheLines, Held, ReadLine
<1>3. read' >= read
  BY DEF TimelineOK, TimelineTypeOK, ReadLine
<1> QED BY <1>1, <1>2, <1>3 DEF TimelineOK, TimelineTypeOK, Lines

\* A line added to the current entry.
LEMMA FilledLines ==
  ASSUME NEW s \in Timelines, NEW e \in Entry, NEW n \in Lines, NEW k,
         e.name = NoLine => e.place = NoLine, NEW f, f = Filled(s, e, n, k)
  PROVE  /\ f \in Entry /\ LinesOf(f) = LinesOf(e) \cup {n} /\ f.date = e.date
         /\ f.name = NoLine => f.place = NoLine
<1>1. n # NoLine
  BY DEF Lines, NoLine
<1> QED BY <1>1 DEF Entry, Filled, LinesOf

\* The next line is fresh: it is held nowhere, and all that is held is before it.
LEMMA NextLine ==
  ASSUME TimelineOK, ReadLine, NEW s \in Timelines
  PROVE  /\ read + 1 \in Lines /\ home[read + 1] = "none" /\ read \in Nat
         /\ \A m \in LinesOf(current[s]) : m \in Lines /\ m < read + 1
         /\ \A i \in DOMAIN entries[s] : \A m \in LinesOf(entries[s][i]) :
              m \in Lines /\ m < read + 1
<1>1. read + 1 \in Lines /\ read \in Nat /\ home[read + 1] = "none"
  BY MostEntriesAssumption DEF TimelineOK, TimelineTypeOK, ReadLine, Lines
<1>2. \A m \in Lines : home[m] = s => m < read + 1
  BY <1>1 DEF TimelineOK, Lines, Timelines
<1>3. \A m \in LinesOf(current[s]) : m \in Lines /\ m \in Held(s)
  BY HeldBy, EntryLines DEF TimelineOK, TimelineTypeOK
<1>4. ASSUME NEW i \in DOMAIN entries[s], NEW m \in LinesOf(entries[s][i])
      PROVE  m \in Lines /\ m \in Held(s)
  <2>1. entries[s][i] \in Entry
    BY DEF TimelineOK, TimelineTypeOK
  <2> QED BY <2>1, HeldBy, EntryLines
<1>5. \A m \in Lines : m \in Held(s) => home[m] = s
  BY DEF TimelineOK, LinesAreKept
<1> QED BY <1>1, <1>2, <1>3, <1>4, <1>5

LEMMA BodyLines ==
  ASSUME TimelineOK, NEW k \in BodyKinds, ReadBody(k)
  PROVE  TimelineOK'
<1> DEFINE n == read + 1
           s == section
<1>1. s \in Timelines /\ ReadLine /\ read' = n
  BY DEF ReadBody, ReadLine
<1>2. n \in Lines /\ home[n] = "none" /\ read \in Nat
  BY <1>1, NextLine
<1>3. current[s] \in Entry
  BY <1>1 DEF TimelineOK, TimelineTypeOK
<1>4. PICK f \in Entry :
        /\ f = Filled(s, current[s], n, k)
        /\ LinesOf(f) = LinesOf(current[s]) \cup {n} /\ f.date = current[s].date
        /\ f.name = NoLine => f.place = NoLine
  BY <1>1, <1>2, <1>3, FilledLines DEF TimelineOK
<1>5. /\ current' = [current EXCEPT ![s] = f] /\ home' = [home EXCEPT ![n] = s]
      /\ entries' = entries /\ parsed' = parsed /\ section' = section
      /\ subheading' \in {subheading, subheading \cup {n}}
  BY <1>1, <1>4 DEF ReadBody
<1> HIDE DEF n, s
<1>6. /\ current'[s] = f /\ \A t \in Timelines \ {s} : current'[t] = current[t]
      /\ home'[n] = s /\ \A m \in Lines \ {n} : home'[m] = home[m]
  BY <1>1, <1>2, <1>5 DEF TimelineOK, TimelineTypeOK
<1>7. TimelineTypeOK'
  <2>1. read' \in 0 .. MaxLines /\ subheading' \subseteq 1 .. read'
    BY <1>1, <1>2, <1>5 DEF TimelineOK, TimelineTypeOK, Lines, n
  <2> QED BY <2>1, <1>1, <1>2, <1>4, <1>5 DEF TimelineOK, TimelineTypeOK
<1>8. \A m \in Lines : home'[m] # "none" => m <= read'
  BY <1>1, <1>2, <1>6 DEF TimelineOK, n, Lines
<1>9. ASSUME NEW t \in Timelines, NEW i \in DOMAIN entries'[t],
             NEW m \in LinesOf(entries'[t][i]), NEW l \in LinesOf(current'[t])
      PROVE  m < l
  <2>1. m < n
    BY <1>1, <1>5, <1>9, NextLine DEF n
  <2>2. CASE t = s /\ l = n
    BY <2>1, <2>2
  <2>3. CASE ~(t = s /\ l = n)
    BY <2>3, <1>4, <1>5, <1>6, <1>9 DEF TimelineOK
  <2> QED BY <2>2, <2>3
<1>10. ASSUME NEW t \in Timelines, current'[t].date # NoLine, NEW l \in LinesOf(current'[t])
       PROVE  current'[t].date <= l
  <2>1. CASE t = s /\ l = n
    <3>1. current[s].date \in LinesOf(current[s]) /\ current'[t].date = current[s].date
      BY <2>1, <1>4, <1>6, <1>10 DEF LinesOf
    <3>2. current[s].date < n /\ current[s].date \in Int
      BY <3>1, <1>1, NextLine DEF n, Lines
    <3> QED BY <3>1, <3>2, <2>1, <1>2 DEF Lines
  <2>2. CASE ~(t = s /\ l = n)
    BY <2>2, <1>4, <1>6, <1>10 DEF TimelineOK
  <2> QED BY <2>1, <2>2
<1>11. LinesAreKept'
  <2> SUFFICES ASSUME NEW m \in Lines, NEW t \in Timelines
      PROVE  /\ (m \in Held(t))' => home'[m] = t
             /\ home'[m] = t /\ m \notin subheading' =>
                  (m \in Held(t))' \/ (parsed' /\ Len(entries'[t]) = MostEntries[t])
    BY DEF LinesAreKept
  <2>1. (m \in Held(t))' <=> m \in Held(t) \/ (t = s /\ m = n)
    BY <1>4, <1>5, <1>6, HeldBy DEF Held
  <2>2. m \in Held(t) => m # n
    BY <1>2 DEF TimelineOK, LinesAreKept, Timelines
  <2>3. home'[m] = t <=> home[m] = t \/ (t = s /\ m = n)
    BY <1>2, <1>6 DEF Timelines
  <2>4. m # n => (m \in subheading' <=> m \in subheading)
    BY <1>5
  <2> QED BY <2>1, <2>2, <2>3, <2>4, <1>5 DEF TimelineOK, LinesAreKept
<1>12. EntriesFollowTheLines'
  BY <1>5 DEF TimelineOK, EntriesFollowTheLines
<1> QED BY <1>4, <1>6, <1>7, <1>8, <1>9, <1>10, <1>11, <1>12 DEF TimelineOK

\* The current entry of a timeline is finished and another begins.
LEMMA FinishedEntries ==
  ASSUME TimelineOK, NEW s \in Timelines, NEW all, all = WithEntry(entries[s], current[s])
  PROVE  /\ all \in Seq(Entry)
         /\ \A i, j \in DOMAIN all : i < j =>
              \A m \in LinesOf(all[i]), n \in LinesOf(all[j]) : m < n
         /\ \A i \in DOMAIN all : all[i].date # NoLine =>
              \A n \in LinesOf(all[i]) : all[i].date <= n
         /\ \A i \in DOMAIN all : \A m \in LinesOf(all[i]) : m \in Held(s)
         /\ \A m \in Held(s) \ subheading : \E i \in DOMAIN all : m \in LinesOf(all[i])
<1>1. entries[s] \in Seq(Entry) /\ current[s] \in Entry
  BY DEF TimelineOK, TimelineTypeOK
<1>2. /\ all \in Seq(Entry)
      /\ DOMAIN entries[s] \subseteq DOMAIN all
      /\ \A i \in DOMAIN entries[s] : all[i] = entries[s][i]
      /\ \A i \in DOMAIN all \ DOMAIN entries[s] :
           all[i] = Finalized(current[s]) /\ \A j \in DOMAIN all : j <= i
      /\ LinesOf(current[s]) \ subheading # {} =>
           \E i \in DOMAIN all : all[i] = Finalized(current[s])
  <2>1. PICK done \in Seq(Entry), e \in Entry : done = entries[s] /\ e = current[s]
    BY <1>1
  <2>2. all = WithEntry(done, e)
    BY <2>1
  <2>3. /\ all \in Seq(Entry)
        /\ DOMAIN done \subseteq DOMAIN all
        /\ \A i \in DOMAIN done : all[i] = done[i]
        /\ \A i \in DOMAIN all \ DOMAIN done :
             all[i] = Finalized(e) /\ \A j \in DOMAIN all : j <= i
        /\ LinesOf(e) \ subheading # {} => \E i \in DOMAIN all : all[i] = Finalized(e)
    BY <2>2, WithEntryList
  <2> QED BY <2>1, <2>3
<1>3. /\ LinesOf(Finalized(current[s])) \subseteq LinesOf(current[s])
      /\ LinesOf(current[s]) \ subheading \subseteq LinesOf(Finalized(current[s]))
      /\ Finalized(current[s]).date = current[s].date
  BY <1>1, EntryLines
<1>4. DOMAIN all \subseteq Int
  BY <1>2
<1>5. ASSUME NEW i \in DOMAIN all, NEW j \in DOMAIN all, i < j,
             NEW m \in LinesOf(all[i]), NEW n \in LinesOf(all[j])
      PROVE  m < n
  <2>1. i \in DOMAIN entries[s]
    BY <1>2, <1>4, <1>5
  <2>2. CASE j \in DOMAIN entries[s]
    BY <2>1, <2>2, <1>2, <1>5 DEF TimelineOK, EntriesFollowTheLines
  <2>3. CASE j \notin DOMAIN entries[s]
    BY <2>1, <2>3, <1>2, <1>3, <1>5 DEF TimelineOK
  <2> QED BY <2>2, <2>3
<1>6. ASSUME NEW i \in DOMAIN all, all[i].date # NoLine, NEW n \in LinesOf(all[i])
      PROVE  all[i].date <= n
  BY <1>2, <1>3, <1>6 DEF TimelineOK, EntriesFollowTheLines
<1>7. ASSUME NEW i \in DOMAIN all, NEW m \in LinesOf(all[i]) PROVE m \in Held(s)
  BY <1>2, <1>3, <1>7, HeldBy
<1>8. ASSUME NEW m \in Held(s) \ subheading PROVE \E i \in DOMAIN all : m \in LinesOf(all[i])
  BY <1>2, <1>3, <1>8, HeldBy
<1> QED BY <1>2, <1>5, <1>6, <1>7, <1>8

LEMMA DateLines ==
  ASSUME TimelineOK, ReadDate
  PROVE  TimelineOK'
<1> DEFINE n == read + 1
           s == section
           f == [EmptyEntry EXCEPT !.date = n]
           all == WithEntry(entries[s], current[s])
<1>1. s \in Timelines /\ ReadLine /\ read' = n
  BY DEF ReadDate, ReadLine
<1>2. n \in Lines /\ home[n] = "none" /\ read \in Nat
  BY <1>1, NextLine
<1>3. f \in Entry /\ LinesOf(f) = {n} /\ f.date = n /\ f.place = NoLine
  BY <1>2 DEF Entry, LinesOf, EmptyEntry, NoLine, Lines
<1>4. /\ current' = [current EXCEPT ![s] = f] /\ home' = [home EXCEPT ![n] = s]
      /\ entries' = [entries EXCEPT ![s] = all] /\ parsed' = parsed /\ section' = section
      /\ subheading' = subheading
  BY DEF ReadDate
<1>5. /\ all \in Seq(Entry)
      /\ \A i, j \in DOMAIN all : i < j =>
           \A m \in LinesOf(all[i]), l \in LinesOf(all[j]) : m < l
      /\ \A i \in DOMAIN all : all[i].date # NoLine =>
           \A l \in LinesOf(all[i]) : all[i].date <= l
      /\ \A i \in DOMAIN all : \A m \in LinesOf(all[i]) : m \in Held(s)
      /\ \A m \in Held(s) \ subheading : \E i \in DOMAIN all : m \in LinesOf(all[i])
  BY <1>1, FinishedEntries
<1> HIDE DEF n, s, f, all
<1>6. /\ current'[s] = f /\ \A t \in Timelines \ {s} : current'[t] = current[t]
      /\ entries'[s] = all /\ \A t \in Timelines \ {s} : entries'[t] = entries[t]
      /\ home'[n] = s /\ \A m \in Lines \ {n} : home'[m] = home[m]
  BY <1>1, <1>2, <1>4 DEF TimelineOK, TimelineTypeOK
<1>7. TimelineTypeOK'
  <2>1. read' \in 0 .. MaxLines /\ subheading' \subseteq 1 .. read'
    BY <1>1, <1>2, <1>4 DEF TimelineOK, TimelineTypeOK, Lines, n
  <2> QED BY <2>1, <1>1, <1>2, <1>3, <1>4, <1>5 DEF TimelineOK, TimelineTypeOK
<1>8. \A m \in Lines : home'[m] # "none" => m <= read'
  BY <1>1, <1>2, <1>6 DEF TimelineOK, n, Lines
<1>9. ASSUME NEW t \in Timelines, NEW i \in DOMAIN entries'[t],
             NEW m \in LinesOf(entries'[t][i]), NEW l \in LinesOf(current'[t])
      PROVE  m < l
  <2>1. CASE t = s
    <3>1. m \in Held(s) /\ l = n
      BY <2>1, <1>3, <1>5, <1>6, <1>9
    <3>2. m < n
      BY <3>1, <1>1, HeldBy, NextLine DEF n
    <3> QED BY <3>1, <3>2
  <2>2. CASE t # s
    BY <2>2, <1>6, <1>9 DEF TimelineOK
  <2> QED BY <2>1, <2>2
<1>10. ASSUME NEW t \in Timelines, current'[t].date # NoLine, NEW l \in LinesOf(current'[t])
       PROVE  current'[t].date <= l
  <2>1. CASE t = s
    BY <2>1, <1>2, <1>3, <1>6, <1>10 DEF Lines
  <2>2. CASE t # s
    BY <2>2, <1>6, <1>10 DEF TimelineOK
  <2> QED BY <2>1, <2>2
<1>11. LinesAreKept'
  <2> SUFFICES ASSUME NEW m \in Lines, NEW t \in Timelines
      PROVE  /\ (m \in Held(t))' => home'[m] = t
             /\ home'[m] = t /\ m \notin subheading' =>
                  (m \in Held(t))' \/ (parsed' /\ Len(entries'[t]) = MostEntries[t])
    BY DEF LinesAreKept
  <2>1. (m \in Held(t))' <=> \/ m \in LinesOf(current'[t])
                             \/ \E i \in DOMAIN entries'[t] : m \in LinesOf(entries'[t][i])
    BY DEF Held, LinesOf
  <2>2. parsed = FALSE
    BY <1>1 DEF ReadLine, TimelineOK, TimelineTypeOK
  <2>3. CASE t = s
    <3>1. (m \in Held(t))' => m \in Held(s) \/ m = n
      BY <2>1, <2>3, <1>3, <1>5, <1>6
    <3>2. m = n \/ m \in Held(s) \ subheading => (m \in Held(t))'
      BY <2>1, <2>3, <1>3, <1>5, <1>6
    <3> QED BY <3>1, <3>2, <2>2, <2>3, <1>1, <1>2, <1>4, <1>6 DEF TimelineOK, LinesAreKept
  <2>4. CASE t # s
    <3>1. (m \in Held(t))' <=> m \in Held(t)
      BY <2>1, <2>4, <1>6, HeldBy
    <3>2. home'[m] = t <=> home[m] = t
      BY <2>4, <1>2, <1>6 DEF Timelines
    <3> QED BY <3>1, <3>2, <2>4, <1>4, <1>6 DEF TimelineOK, LinesAreKept
  <2> QED BY <2>3, <2>4
<1>12. EntriesFollowTheLines'
  BY <1>5, <1>6 DEF TimelineOK, EntriesFollowTheLines
<1>13. \A t \in Timelines : current'[t].name = NoLine => current'[t].place = NoLine
  BY <1>3, <1>6 DEF TimelineOK
<1> QED BY <1>7, <1>8, <1>9, <1>10, <1>11, <1>12, <1>13 DEF TimelineOK

LEMMA FinishedTimelines ==
  ASSUME TimelineOK, FinishParse
  PROVE  TimelineOK'
<1> DEFINE All(s) == WithEntry(entries[s], current[s])
<1>1. /\ parsed = FALSE /\ parsed' = TRUE /\ UNCHANGED <<read, section, subheading, home>>
      /\ current' = [s \in Timelines |-> EmptyEntry]
      /\ entries' = [s \in Timelines |->
           IF Len(All(s)) <= MostEntries[s] THEN All(s) ELSE SubSeq(All(s), 1, MostEntries[s])]
  BY DEF FinishParse, TimelineOK, TimelineTypeOK
<1>2. ASSUME NEW s \in Timelines
      PROVE  /\ entries'[s] \in Seq(Entry)
             /\ DOMAIN entries'[s] \subseteq DOMAIN All(s)
             /\ \A i \in DOMAIN entries'[s] : entries'[s][i] = All(s)[i]
             /\ entries'[s] = All(s) \/ Len(entries'[s]) = MostEntries[s]
  <2>1. All(s) \in Seq(Entry)
    BY FinishedEntries
  <2>2. MostEntries[s] \in Nat
    BY MostEntriesAssumption
  <2> HIDE DEF All
  <2>3. CASE Len(All(s)) <= MostEntries[s]
    BY <2>1, <2>3, <1>1
  <2>4. CASE ~(Len(All(s)) <= MostEntries[s])
    <3>1. \A i \in 1 .. MostEntries[s] : All(s)[i] \in Entry
      BY <2>1, <2>2, <2>4
    <3>2. entries'[s] = SubSeq(All(s), 1, MostEntries[s])
      BY <2>4, <1>1
    <3>3. /\ entries'[s] \in Seq(Entry)
          /\ Len(entries'[s]) = IF 1 <= MostEntries[s] THEN MostEntries[s] - 1 + 1 ELSE 0
          /\ \A i \in 1 .. MostEntries[s] - 1 + 1 : entries'[s][i] = All(s)[1 + i - 1]
      BY <3>1, <3>2, <2>2, SubSeqProperties
    <3>4. Len(entries'[s]) = MostEntries[s] /\ DOMAIN entries'[s] = 1 .. MostEntries[s]
          /\ DOMAIN All(s) = 1 .. Len(All(s)) /\ Len(All(s)) \in Nat
      BY <3>3, <2>1, <2>2
    <3>5. \A i \in 1 .. MostEntries[s] : 1 + i - 1 = i
      BY <2>2
    <3> QED BY <3>3, <3>4, <3>5, <2>2, <2>4
  <2> QED BY <2>3, <2>4
<1>3. \A s \in Timelines : current'[s] = EmptyEntry /\ LinesOf(current'[s]) = {}
  BY <1>1, EmptyLines
<1>7. ASSUME NEW s \in Timelines
      PROVE  /\ \A i, j \in DOMAIN All(s) : i < j =>
                  \A m \in LinesOf(All(s)[i]), n \in LinesOf(All(s)[j]) : m < n
             /\ \A i \in DOMAIN All(s) : All(s)[i].date # NoLine =>
                  \A n \in LinesOf(All(s)[i]) : All(s)[i].date <= n
             /\ \A i \in DOMAIN All(s) : \A m \in LinesOf(All(s)[i]) : m \in Held(s)
             /\ \A m \in Held(s) \ subheading :
                  \E i \in DOMAIN All(s) : m \in LinesOf(All(s)[i])
  <2>1. PICK all : all = WithEntry(entries[s], current[s])
    OBVIOUS
  <2>2. /\ \A i, j \in DOMAIN all : i < j =>
              \A m \in LinesOf(all[i]), n \in LinesOf(all[j]) : m < n
        /\ \A i \in DOMAIN all : all[i].date # NoLine =>
              \A n \in LinesOf(all[i]) : all[i].date <= n
        /\ \A i \in DOMAIN all : \A m \in LinesOf(all[i]) : m \in Held(s)
        /\ \A m \in Held(s) \ subheading : \E i \in DOMAIN all : m \in LinesOf(all[i])
    BY <2>1, FinishedEntries
  <2>3. all = All(s)
    BY <2>1
  <2> HIDE DEF All
  <2> QED BY <2>2, <2>3
<1> HIDE DEF All
<1>4. TimelineTypeOK'
  <2>1. DOMAIN entries' = Timelines /\ entries' = [s \in Timelines |-> entries'[s]]
    BY <1>1
  <2>2. entries' \in [Timelines -> Seq(Entry)]
    BY <2>1, <1>2
  <2> QED BY <2>2, <1>1, EmptyLines DEF TimelineOK, TimelineTypeOK
<1>5. EntriesFollowTheLines'
  <2> SUFFICES ASSUME NEW s \in Timelines
      PROVE  /\ \A i, j \in DOMAIN entries'[s] : i < j =>
                  \A m \in LinesOf(entries'[s][i]), n \in LinesOf(entries'[s][j]) : m < n
             /\ \A i \in DOMAIN entries'[s] : entries'[s][i].date # NoLine =>
                  \A n \in LinesOf(entries'[s][i]) : entries'[s][i].date <= n
    BY DEF EntriesFollowTheLines
  <2> QED BY <1>2, <1>7
<1>6. LinesAreKept'
  <2> SUFFICES ASSUME NEW m \in Lines, NEW s \in Timelines
      PROVE  /\ (m \in Held(s))' => home'[m] = s
             /\ home'[m] = s /\ m \notin subheading' =>
                  (m \in Held(s))' \/ (parsed' /\ Len(entries'[s]) = MostEntries[s])
    BY DEF LinesAreKept
  <2>1. (m \in Held(s))' <=> \E i \in DOMAIN entries'[s] : m \in LinesOf(entries'[s][i])
    BY <1>3 DEF Held
  <2>2. (m \in Held(s))' => m \in Held(s)
    BY <2>1, <1>2, <1>7
  <2>3. entries'[s] = All(s) /\ m \in Held(s) \ subheading => (m \in Held(s))'
    BY <2>1, <1>7
  <2>4. home'[m] = s /\ m \notin subheading => m \in Held(s)
    BY <1>1 DEF TimelineOK, LinesAreKept
  <2> QED BY <2>2, <2>3, <2>4, <1>1, <1>2 DEF TimelineOK, LinesAreKept
<1> QED BY <1>1, <1>3, <1>4, <1>5, <1>6 DEF TimelineOK, EmptyEntry

LEMMA TimelineSteps == TimelineOK /\ [TimelineNext]_timelineVars => TimelineOK'
<1> SUFFICES ASSUME TimelineOK, [TimelineNext]_timelineVars PROVE TimelineOK'
  OBVIOUS
<1>1. CASE UNCHANGED timelineVars
  BY <1>1 DEF timelineVars, TimelineOK, TimelineTypeOK, LinesAreKept, Held,
     EntriesFollowTheLines
<1>2. ASSUME NEW h \in Timelines \cup {"other", "personal"}, ReadHeading(h) PROVE TimelineOK'
  BY <1>2, LinesPass DEF ReadHeading
<1>3. CASE ReadElsewhere \/ ReadNoise
  BY <1>3, LinesPass DEF ReadElsewhere, ReadNoise, TimelineOK, TimelineTypeOK
<1> QED BY <1>1, <1>2, <1>3, BodyLines, DateLines, FinishedTimelines DEF TimelineNext

THEOREM TimelineIsTyped == TimelineSpec => []TimelineTypeOK
BY TimelineBegins, TimelineSteps, PTL DEF TimelineSpec, TimelineOK

\* Whatever the lines of a CV look like, none of a timeline is lost before the
\* list of entries is cut.
THEOREM NoLineIsLost == TimelineSpec => []LinesAreKept
BY TimelineBegins, TimelineSteps, PTL DEF TimelineSpec, TimelineOK

\* Entries follow each other as their lines do, and dates come first in each:
\* a range of dates under a title belongs to the entry after it.
THEOREM EntriesInOrder == TimelineSpec => []EntriesFollowTheLines
BY TimelineBegins, TimelineSteps, PTL DEF TimelineSpec, TimelineOK

=============================================================================
