----------------------------- MODULE StageJournal -----------------------------
(***************************************************************************)
(* What the company may rely on in the pipeline.  A move of one            *)
(* application or of a whole batch is one step or none: its rows enter the *)
(* journal together, under a time that no other move has, and with them    *)
(* the applications their stages.  The journal is only added to, it keeps  *)
(* the stages it names from being removed, and of an application that one  *)
(* request at a time moves it tells the moves in their order.  A removal   *)
(* takes out of their stages the applications it met in the stage, those   *)
(* that have moved on as well.                                             *)
(***************************************************************************)
EXTENDS Integers

CONSTANTS Applications, Stages,
          NoStage   \* not in a stage

VARIABLES
  live,     \* the stages there are
  removed,  \* the stages there were
  known,    \* the applications there are
  stage,    \* where an application is
  journal,  \* the moves of an application: stages and times
  clock,    \* how many requests to move something have begun
  shared,   \* the applications that two of them moved at one time
  marked    \* <<stage, application>> pairs that a removal under way has met

vars == <<live, removed, known, stage, journal, clock, shared, marked>>

Init ==
  /\ live = {} /\ removed = {} /\ known = {}
  /\ stage = [a \in Applications |-> NoStage]
  /\ journal = [a \in Applications |-> {}]
  /\ clock = 0 /\ shared = {} /\ marked = {}

AddStage(s) ==
  /\ s \notin live \cup removed
  /\ live' = live \cup {s}
  /\ UNCHANGED <<removed, known, stage, journal, clock, shared, marked>>

\* A removal of the stage begins, and meets the applications in it.
MarkStage(s) ==
  /\ marked' = marked \cup {<<s, a>> : a \in {b \in Applications : stage[b] = s}}
  /\ UNCHANGED <<live, removed, known, stage, journal, clock, shared>>

\* A removal ends: it is given up, or it takes out those in the stage and some it
\* has met.  Of two removals of one stage, the second does the latter only.
GiveUp ==
  /\ marked' \in SUBSET marked
  /\ UNCHANGED <<live, removed, known, stage, journal, clock, shared>>

RemoveStage(s) ==
  /\ s \in live \cup removed
  /\ \A a \in Applications : \A m \in journal[a] : m.stage # s
  /\ live' = live \ {s} /\ removed' = removed \cup {s}
  /\ \E met \in SUBSET {a \in Applications : <<s, a>> \in marked} :
       stage' = [a \in Applications |->
                   IF stage[a] = s \/ a \in met THEN NoStage ELSE stage[a]]
  /\ marked' \in SUBSET marked
  /\ UNCHANGED <<known, journal, clock, shared>>

Submit(a) ==
  /\ a \notin known /\ known' = known \cup {a}
  /\ \/ live = {} /\ UNCHANGED stage
     \/ \E s \in live : stage' = [stage EXCEPT ![a] = s]
  /\ UNCHANGED <<live, removed, journal, clock, shared, marked>>

\* A request begins, and meets others that move some of its applications.
Begin(met) ==
  /\ clock' = clock + 1 /\ shared' = shared \cup met
  /\ UNCHANGED <<live, removed, known, stage, journal, marked>>

\* The stages that a set of moves gives an application.
Given(moves, a) == {s \in Stages : <<a, s>> \in moves}

\* A request takes the moves, all of them.  One that shares an application with
\* another request may leave it where that one has put it, and one that has
\* seen it in the stage before a removal took it out may leave it out.
Move(moves, at) ==
  /\ moves # {} /\ moves \subseteq known \X live
  /\ \A a \in Applications : \A m \in journal[a] :
       m.at # at /\ (a \notin shared /\ Given(moves, a) # {} => m.at < at)
  /\ journal' = [a \in Applications |->
                   journal[a] \cup {[stage |-> s, at |-> at] : s \in Given(moves, a)}]
  /\ stage' \in [Applications -> Stages \cup {NoStage}]
  /\ \A a \in Applications :
       \/ stage'[a] \in Given(moves, a)
       \/ stage'[a] = stage[a] /\ Given(moves, a) = {}
       \/ stage'[a] = stage[a] /\ a \in shared /\ \E m \in journal[a] : m.stage = stage[a]
       \/ stage'[a] = NoStage /\ stage[a] = NoStage /\ journal[a] # {}
  /\ UNCHANGED <<live, removed, known, clock, shared, marked>>

Next ==
  \/ \E s \in Stages : AddStage(s) \/ MarkStage(s) \/ RemoveStage(s)
  \/ GiveUp
  \/ \E a \in Applications : Submit(a)
  \/ \E met \in SUBSET Applications : Begin(met)
  \/ \E moves \in SUBSET (Applications \X Stages), at \in 0..(clock - 1) : Move(moves, at)

Spec == Init /\ [][Next]_vars

=============================================================================
