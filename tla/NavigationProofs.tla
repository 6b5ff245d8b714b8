--------------------------- MODULE NavigationProofs ---------------------------
(***************************************************************************)
(* What holds of Navigation for any number of navigations, nested to any   *)
(* depth; and of what a view tells of its history, of its traffic and of   *)
(* the pixels it borrowed, for any number of visits, loads, addresses and  *)
(* images.                                                                 *)
(***************************************************************************)
EXTENDS MCNavigation, SequenceTheorems, FiniteSetTheorems, WellFoundedInduction, TLAPS

------------------------------------------------------------------------------
(* What a navigation has heard.                                            *)
Events == {"started", "committed"} \cup Endings

Fresh(heard)     == heard = <<>>
Started(heard)   == heard = <<"started">>
Committed(heard) == heard = <<"started", "committed">>
Over(heard)      ==
  \E e \in Endings : heard = <<"started", e>> \/ heard = <<"started", "committed", e>>
Open(heard)      == Started(heard) \/ Committed(heard)

(* The stack.  Some calls hold the navigation that they will install,      *)
(* fetch or commit.  Above a call that is inside the commit of a document  *)
(* there are only calls that never commit one themselves.                  *)
Frames == [at : Callbacks \cup {"pumping"}, gen : 0 .. MaxNavigations, op : Ops \cup {"quiet"}]

FramesOf(s) == {s[i] : i \in DOMAIN s}
Holder(f)   == f.at \in {"superseding", "started", "fetching", "hook"}
InCommit(f) == f.at \in {"committing", "committed"}

Above(f, g) ==
  /\ InCommit(g) => \/ f.at \in {"ended", "stopping"}
                    \/ f.at \in {"superseding", "started"} /\ f.op = "navigate"
  /\ Holder(f) /\ Holder(g) => f.gen # g.gen

Nested(s) == \A i, j \in DOMAIN s : i < j => Above(s[i], s[j])

Pending == [gen : 0 .. MaxNavigations, fetch : BOOLEAN, api : BOOLEAN, committed : BOOLEAN]

------------------------------------------------------------------------------
(* The inductive invariant.                                                *)
TypeOK ==
  /\ generation \in 0 .. MaxNavigations
  /\ pending \in Pending /\ (pending.gen = 0 => pending = NoNavigation)
  /\ loadFinished \in BOOLEAN /\ alive \in BOOLEAN
  /\ doc \in [gen : 0 .. MaxNavigations, loading : BOOLEAN]
  /\ told \in [Generations -> Seq(Events)]
  /\ finishes \in [Generations -> 0 .. 2]

StackInv == stack \in Seq(Frames) /\ Nested(stack)

(* One call or task has a navigation, and a committed one none.            *)
HoldersInv ==
  \A f \in FramesOf(stack) : Holder(f) =>
    /\ f.gen \in 1 .. generation /\ f.gen \notin posted \cup fetches
    /\ pending.committed => f.gen # pending.gen

TasksInv ==
  /\ posted \cap fetches = {} /\ posted \cup fetches \subseteq 1 .. generation
  /\ pending.committed => pending.gen \notin posted \cup fetches

SupersedingInv ==
  \A f \in FramesOf(stack) : f.at = "superseding" =>
    Fresh(told[f.gen]) /\ (f.gen = generation => pending = NoNavigation)

CommittingInv ==
  \A f \in FramesOf(stack) : f.at = "committing" /\ pending.committed => Started(told[pending.gen])

PendingInv ==
  pending # NoNavigation =>
    /\ pending.gen = generation /\ ~loadFinished
    /\ Started(told[pending.gen]) \/ (pending.committed /\ Committed(told[pending.gen]))

EventsInv ==
  \A g \in Generations : Fresh(told[g]) \/ Open(told[g]) \/ Over(told[g])

OpenInv  == alive => \A g \in Generations : Open(told[g]) => pending.gen = g
FreshInv == \A g \in Generations : g > generation => Fresh(told[g])
GoneInv  == ~alive => stack = <<>> /\ ~doc.loading /\ pending = NoNavigation

Inv ==
  /\ TypeOK /\ StackInv /\ HoldersInv /\ TasksInv /\ SupersedingInv /\ CommittingInv
  /\ PendingInv /\ EventsInv /\ OpenInv /\ FreshInv /\ GoneInv

------------------------------------------------------------------------------
(* Stacks.                                                                 *)
LEMMA Pushed ==
  ASSUME NEW c \in Frames, NEW s \in Seq(Frames)
  PROVE  /\ <<c>> \o s \in Seq(Frames) /\ <<c>> \o s # <<>>
         /\ FramesOf(<<c>> \o s) = {c} \cup FramesOf(s)
         /\ Nested(s) /\ (\A f \in FramesOf(s) : Above(c, f)) => Nested(<<c>> \o s)
<1> DEFINE t == <<c>> \o s
<1>1. /\ t \in Seq(Frames) /\ Len(s) \in Nat /\ Len(t) = Len(s) + 1
      /\ DOMAIN s = 1 .. Len(s) /\ DOMAIN t = 1 .. Len(s) + 1
      /\ t[1] = c /\ \A i \in 1 .. Len(s) : t[i + 1] = s[i]
  OBVIOUS
<1> HIDE DEF t
<1>2. \A i \in DOMAIN t : i = 1 \/ (i - 1 \in DOMAIN s /\ t[i] = s[i - 1])
  BY <1>1
<1>3. t # <<>>
  BY <1>1
<1>4. FramesOf(t) = {c} \cup FramesOf(s)
  <2>1. ASSUME NEW i \in DOMAIN t PROVE t[i] \in {c} \cup FramesOf(s)
    BY <1>1, <1>2 DEF FramesOf
  <2>2. ASSUME NEW i \in DOMAIN s PROVE s[i] \in FramesOf(t)
    BY <1>1 DEF FramesOf
  <2>3. c \in FramesOf(t)
    BY <1>1 DEF FramesOf
  <2> QED
    BY <2>1, <2>2, <2>3 DEF FramesOf
<1>5. ASSUME Nested(s), \A f \in FramesOf(s) : Above(c, f) PROVE Nested(t)
  <2> SUFFICES ASSUME NEW i \in DOMAIN t, NEW j \in DOMAIN t, i < j PROVE Above(t[i], t[j])
    BY DEF Nested
  <2>1. j - 1 \in DOMAIN s /\ t[j] = s[j - 1]
    BY <1>1, <1>2
  <2>2. CASE i = 1
    BY <2>1, <2>2, <1>1, <1>5 DEF FramesOf
  <2>3. CASE i # 1
    <3>1. i - 1 \in DOMAIN s /\ t[i] = s[i - 1] /\ i - 1 < j - 1
      BY <1>1, <1>2, <2>3
    <3> QED
      BY <3>1, <2>1, <1>5 DEF Nested
  <2> QED
    BY <2>2, <2>3
<1> QED
  BY <1>1, <1>3, <1>4, <1>5 DEF t

LEMMA Popped ==
  ASSUME NEW s \in Seq(Frames), s # <<>>
  PROVE  /\ Head(s) \in Frames /\ Tail(s) \in Seq(Frames)
         /\ FramesOf(s) = {Head(s)} \cup FramesOf(Tail(s))
         /\ Nested(s) => Nested(Tail(s)) /\ \A f \in FramesOf(Tail(s)) : Above(Head(s), f)
<1> DEFINE t == Tail(s)
<1>1. /\ t \in Seq(Frames) /\ Len(s) \in Nat /\ Len(s) >= 1 /\ Len(t) = Len(s) - 1
      /\ DOMAIN s = 1 .. Len(s) /\ DOMAIN t = 1 .. Len(s) - 1
      /\ Head(s) = s[1] /\ \A i \in 1 .. Len(s) - 1 : t[i] = s[i + 1]
  OBVIOUS
<1>0. Head(s) \in Frames
  BY <1>1
<1> HIDE DEF t
<1>2. FramesOf(s) = {Head(s)} \cup FramesOf(t)
  <2>1. ASSUME NEW i \in DOMAIN t PROVE t[i] \in FramesOf(s)
    BY <1>1 DEF FramesOf
  <2>2. ASSUME NEW i \in DOMAIN s PROVE s[i] \in {Head(s)} \cup FramesOf(t)
    <3>1. CASE i = 1
      BY <3>1, <1>1
    <3>2. CASE i # 1
      <4>1. i - 1 \in DOMAIN t /\ t[i - 1] = s[i]
        BY <3>2, <1>1
      <4> QED
        BY <4>1 DEF FramesOf
    <3> QED
      BY <3>1, <3>2
  <2>3. Head(s) \in FramesOf(s)
    BY <1>1 DEF FramesOf
  <2> QED
    BY <2>1, <2>2, <2>3 DEF FramesOf
<1>3. ASSUME Nested(s) PROVE Nested(t) /\ \A f \in FramesOf(t) : Above(Head(s), f)
  <2>1. ASSUME NEW i \in DOMAIN t, NEW j \in DOMAIN t, i < j PROVE Above(t[i], t[j])
    <3>1. i + 1 \in DOMAIN s /\ j + 1 \in DOMAIN s /\ i + 1 < j + 1
          /\ t[i] = s[i + 1] /\ t[j] = s[j + 1]
      BY <1>1, <2>1
    <3> QED
      BY <3>1, <1>3 DEF Nested
  <2>2. ASSUME NEW j \in DOMAIN t PROVE Above(Head(s), t[j])
    <3>1. 1 \in DOMAIN s /\ j + 1 \in DOMAIN s /\ 1 < j + 1 /\ t[j] = s[j + 1]
      BY <1>1
    <3> QED
      BY <3>1, <1>1, <1>3 DEF Nested
  <2> QED
    BY <2>1, <2>2 DEF Nested, FramesOf
<1> QED
  BY <1>0, <1>1, <1>2, <1>3 DEF t

LEMMA EmptyStack == FramesOf(<<>>) = {} /\ Nested(<<>>) /\ <<>> \in Seq(Frames)
  BY DEF FramesOf, Nested

(* A call that is at a callback is the innermost.                          *)
LEMMA TopOfStack ==
  ASSUME Inv, NEW where, At(where), where # "none"
  PROVE  /\ stack # <<>> /\ alive
         /\ Top = Head(stack) /\ Top \in Frames /\ Top.at = where /\ Top \in FramesOf(stack)
         /\ Rest \in Seq(Frames) /\ Nested(Rest)
         /\ FramesOf(Rest) \subseteq FramesOf(stack)
         /\ \A f \in FramesOf(Rest) : Above(Top, f)
<1>1. stack # <<>>
  BY DEF At, Top, Call
<1>2. Top = Head(stack) /\ Top.at = where
  BY <1>1 DEF At, Top
<1>3. stack \in Seq(Frames) /\ Nested(stack) /\ alive
  BY <1>1 DEF Inv, StackInv, GoneInv, TypeOK
<1> QED
  BY <1>1, <1>2, <1>3, Popped DEF Rest

------------------------------------------------------------------------------
(* Events.                                                                 *)
LEMMA Appended ==
  ASSUME NEW a, NEW b, NEW c
  PROVE  /\ Append(<<>>, a) = <<a>> /\ Append(<<a>>, b) = <<a, b>>
         /\ Append(<<a, b>>, c) = <<a, b, c>>
         /\ <<a>> # <<>> /\ <<a, b>> # <<>> /\ <<a, b, c>> # <<>>
<1>1. <<a>> # <<>> /\ <<a, b>> # <<>> /\ <<a, b, c>> # <<>>
  <2>1. Len(<<>>) = 0 /\ Len(<<a>>) = 1 /\ Len(<<a, b>>) = 2 /\ Len(<<a, b, c>>) = 3
    OBVIOUS
  <2> QED
    BY <2>1
<1>2. Append(<<>>, a) = <<a>>
  OBVIOUS
<1>3. Append(<<a>>, b) = <<a, b>>
  <2> DEFINE S == {a, b, c}
             s == <<a>>
             t == <<a, b>>
  <2>1. Len(s) = 1 /\ Len(t) = 2 /\ s[1] = a /\ t[1] = a /\ t[2] = b
    OBVIOUS
  <2>2. s \in Seq(S) /\ t \in Seq(S) /\ b \in S
    OBVIOUS
  <2> HIDE DEF S, s, t
  <2>3. /\ Append(s, b) \in Seq(S) /\ Len(Append(s, b)) = Len(s) + 1
        /\ \A i \in 1 .. Len(s) : Append(s, b)[i] = s[i]
        /\ Append(s, b)[Len(s) + 1] = b
    BY ONLY <2>2
  <2>4. \A i \in 1 .. Len(t) : Append(s, b)[i] = t[i]
    <3>1. 1 \in 1 .. 1 /\ 1 + 1 = 2 /\ \A i \in 1 .. 2 : i = 1 \/ i = 2
      OBVIOUS
    <3> QED
      BY <3>1, <2>1, <2>3, Zenon
  <2>5. Len(Append(s, b)) = Len(t)
    BY ONLY <2>1, <2>3
  <2> QED
    BY <2>2, <2>3, <2>4, <2>5, SeqEqual, Zenon DEF s, t
<1>4. Append(<<a, b>>, c) = <<a, b, c>>
  <2> DEFINE S == {a, b, c}
             s == <<a, b>>
             t == <<a, b, c>>
  <2>1. /\ Len(s) = 2 /\ Len(t) = 3 /\ s[1] = a /\ s[2] = b
        /\ t[1] = a /\ t[2] = b /\ t[3] = c
    OBVIOUS
  <2>2. s \in Seq(S) /\ t \in Seq(S) /\ c \in S
    OBVIOUS
  <2> HIDE DEF S, s, t
  <2>3. /\ Append(s, c) \in Seq(S) /\ Len(Append(s, c)) = Len(s) + 1
        /\ \A i \in 1 .. Len(s) : Append(s, c)[i] = s[i]
        /\ Append(s, c)[Len(s) + 1] = c
    BY ONLY <2>2
  <2>4. \A i \in 1 .. Len(t) : Append(s, c)[i] = t[i]
    <3>1. /\ 1 \in 1 .. 2 /\ 2 \in 1 .. 2 /\ 2 + 1 = 3
          /\ \A i \in 1 .. 3 : i = 1 \/ i = 2 \/ i = 3
      OBVIOUS
    <3> QED
      BY <3>1, <2>1, <2>3, Zenon
  <2>5. Len(Append(s, c)) = Len(t)
    BY ONLY <2>1, <2>3
  <2> QED
    BY <2>2, <2>3, <2>4, <2>5, SeqEqual, Zenon DEF s, t
<1> QED
  BY <1>1, <1>2, <1>3, <1>4

LEMMA Distinct ==
  ASSUME NEW a, NEW b, NEW c, NEW d, NEW e, NEW f
  PROVE  /\ <<a>> # <<b, c>> /\ <<a>> # <<b, c, d>> /\ <<a, b>> # <<c, d, e>>
         /\ <<a, b>> = <<c, d>> => b = d
<1>1. Len(<<a>>) = 1 /\ Len(<<b, c>>) = 2 /\ Len(<<b, c, d>>) = 3 /\ Len(<<a, b>>) = 2
      /\ Len(<<c, d, e>>) = 3
  OBVIOUS
<1>2. <<a, b>>[2] = b /\ <<c, d>>[2] = d
  OBVIOUS
<1> QED
  BY <1>1, <1>2

LEMMA HeardOnce ==
  ASSUME NEW h
  PROVE  /\ Fresh(h) => ~Open(h) /\ ~Over(h) /\ Started(Append(h, "started"))
         /\ Started(h) => ~Committed(h) /\ Committed(Append(h, "committed"))
         /\ Open(h) => ~Over(h) /\ \A e \in Endings : Over(Append(h, e))
<1>1. \A e \in Endings : e # "committed" /\ e # "started"
  BY DEF Endings
<1>2. Fresh(h) => ~Open(h) /\ ~Over(h) /\ Started(Append(h, "started"))
  BY Appended, Zenon DEF Fresh, Open, Over, Started, Committed
<1>3. Started(h) => ~Committed(h) /\ Committed(Append(h, "committed"))
  <2>1. <<"started">> # <<"started", "committed">>
    BY Distinct, Zenon
  <2> QED
    BY <2>1, Appended, Zenon DEF Started, Committed
<1>4. Started(h) => ~Over(h)
  <2>1. \A e : <<"started">> # <<"started", e>> /\ <<"started">> # <<"started", "committed", e>>
    BY Distinct, Zenon
  <2> QED
    BY <2>1, Zenon DEF Started, Over
<1>5. Committed(h) => ~Over(h)
  BY Distinct, <1>1, Zenon DEF Committed, Over
<1>6. Open(h) => \A e \in Endings : Over(Append(h, e))
  BY Appended, Zenon DEF Open, Started, Committed, Over
<1> QED
  BY <1>2, <1>3, <1>4, <1>5, <1>6, Zenon DEF Open

LEMMA EventNames == "started" \in Events /\ "committed" \in Events /\ Endings \subseteq Events
  BY DEF Events

LEMMA Telling ==
  ASSUME TypeOK, NEW g \in Generations, NEW what \in Events
  PROVE  /\ Tell(g, what) \in [Generations -> Seq(Events)]
         /\ Tell(g, what)[g] = Append(told[g], what)
         /\ \A n \in Generations : n # g => Tell(g, what)[n] = told[n]
  BY DEF TypeOK, Tell

LEMMA Finished ==
  ASSUME TypeOK, NEW g PROVE Finish(g) \in [Generations -> 0 .. 2]
<1>1. finishes \in [Generations -> 0 .. 2]
  BY DEF TypeOK
<1>2. \A n \in 0 .. 2 : (IF n < 2 THEN n + 1 ELSE n) \in 0 .. 2
  OBVIOUS
<1> QED
  BY <1>1, <1>2 DEF Finish

(* Generations are numbers.                                                *)
LEMMA Numbered ==
  ASSUME Inv
  PROVE  /\ MaxNavigations \in Nat /\ generation \in Nat /\ 1 .. generation \subseteq Generations
         /\ \A n \in Generations : n \in Nat /\ n # 0
         /\ 0 \in 0 .. MaxNavigations /\ Generations \subseteq 0 .. MaxNavigations
  BY NavigationAssumption DEF Inv, TypeOK, Generations

------------------------------------------------------------------------------
(* Calls return, and callbacks that have nothing to do with a navigation   *)
(* that is open come and go: only the stack changes, and who has which     *)
(* navigation.                                                             *)
LEMMA StackChanges ==
  ASSUME Inv, StackInv', HoldersInv', TasksInv',
         UNCHANGED <<generation, pending, told, alive>>,
         loadFinished' \in BOOLEAN, pending # NoNavigation => loadFinished' = loadFinished,
         finishes' \in [Generations -> 0 .. 2],
         doc' \in [gen : 0 .. MaxNavigations, loading : BOOLEAN],
         ~alive => stack' = <<>> /\ ~doc'.loading,
         \A f \in FramesOf(stack)' :
           f.at \in {"superseding", "committing"} => f \in FramesOf(stack)
  PROVE  Inv'
<1>1. TypeOK'
  BY DEF Inv, TypeOK
<1>2. SupersedingInv'
  BY DEF Inv, SupersedingInv
<1>3. CommittingInv'
  BY DEF Inv, CommittingInv
<1>4. PendingInv'
  BY DEF Inv, PendingInv
<1>5. EventsInv' /\ OpenInv' /\ FreshInv' /\ GoneInv'
  BY DEF Inv, EventsInv, OpenInv, FreshInv, GoneInv
<1> QED
  BY <1>1, <1>2, <1>3, <1>4, <1>5 DEF Inv

(* A call returns to the one below, which is of no concern to tasks.       *)
LEMMA Returned ==
  ASSUME Inv, NEW where, At(where), where # "none", stack' = Rest,
         UNCHANGED <<generation, pending, loadFinished, told, finishes, alive, fetches, posted>>,
         doc' \in [gen : 0 .. MaxNavigations, loading : BOOLEAN]
  PROVE  Inv'
<1>1. /\ alive /\ Rest \in Seq(Frames) /\ Nested(Rest)
      /\ FramesOf(Rest) \subseteq FramesOf(stack)
  BY TopOfStack
<1>2. StackInv'
  BY <1>1 DEF StackInv
<1>3. HoldersInv'
  BY <1>1 DEF Inv, HoldersInv
<1>4. TasksInv'
  BY DEF Inv, TasksInv
<1>5. loadFinished' \in BOOLEAN /\ finishes' \in [Generations -> 0 .. 2]
  BY DEF Inv, TypeOK
<1> QED
  BY <1>1, <1>2, <1>3, <1>4, <1>5, StackChanges

(* A call or callback that holds no navigation, on top of some of those    *)
(* there are.                                                              *)
LEMMA Entered ==
  ASSUME Inv, alive, NEW c \in Frames, NEW below \in Seq(Frames),
         FramesOf(below) \subseteq FramesOf(stack), Nested(below),
         \A f \in FramesOf(below) : Above(c, f),
         ~Holder(c), c.at # "committing", stack' = <<c>> \o below,
         UNCHANGED <<generation, pending, told, alive, fetches, posted>>,
         loadFinished' \in BOOLEAN, pending # NoNavigation => loadFinished' = loadFinished,
         finishes' \in [Generations -> 0 .. 2],
         doc' \in [gen : 0 .. MaxNavigations, loading : BOOLEAN]
  PROVE  Inv'
<1>1. /\ <<c>> \o below \in Seq(Frames) /\ Nested(<<c>> \o below)
      /\ FramesOf(<<c>> \o below) = {c} \cup FramesOf(below)
  BY Pushed
<1>2. StackInv'
  BY <1>1 DEF StackInv
<1>3. HoldersInv'
  BY <1>1 DEF Inv, HoldersInv
<1>4. TasksInv'
  BY DEF Inv, TasksInv
<1>5. c.at \notin {"superseding", "committing"}
  BY DEF Holder
<1> QED
  BY <1>1, <1>2, <1>3, <1>4, <1>5, StackChanges

------------------------------------------------------------------------------
(* The steps that navigations are made of.                                 *)

(* The pending navigation hears of its end.                                *)
LEMMA PendingEnds ==
  ASSUME Inv, alive, alive' = alive, pending # NoNavigation,
         NEW outcome \in Endings, NEW c \in Frames, NEW below \in Seq(Frames),
         FramesOf(below) \subseteq FramesOf(stack), Nested(below),
         \A f \in FramesOf(below) : Above(c, f),
         generation' \in {generation, generation + 1}, generation' \in 0 .. MaxNavigations,
         Holder(c) => /\ c.at = "superseding" /\ c.gen = generation + 1
                      /\ generation' = generation + 1,
         c.at # "committing",
         pending' = NoNavigation, loadFinished' = TRUE, told' = Tell(pending.gen, outcome),
         finishes' \in [Generations -> 0 .. 2], stack' = <<c>> \o below,
         posted' \subseteq posted, fetches' \subseteq fetches, doc' = doc
  PROVE  Inv'
<1>1. /\ <<c>> \o below \in Seq(Frames) /\ Nested(<<c>> \o below)
      /\ FramesOf(<<c>> \o below) = {c} \cup FramesOf(below)
  BY Pushed
<1>2. /\ generation \in Nat /\ generation <= generation'
      /\ pending.gen = generation /\ Open(told[pending.gen]) /\ pending.gen \in Generations
  BY NavigationAssumption DEF Inv, TypeOK, PendingInv, Open, Pending, Generations
<1>3. outcome \in Events
  BY EventNames
<1>4. /\ told' \in [Generations -> Seq(Events)]
      /\ Over(told'[pending.gen])
      /\ \A n \in Generations : n # pending.gen => told'[n] = told[n]
  <2>1. TypeOK /\ Over(Append(told[pending.gen], outcome))
    BY <1>2, HeardOnce DEF Inv
  <2> QED
    BY <1>2, <1>3, <2>1, Telling
<1>5. NoNavigation \in Pending /\ NoNavigation.gen = 0 /\ ~NoNavigation.committed
  BY NavigationAssumption DEF NoNavigation, Pending
<1>6. TypeOK'
  BY <1>4, <1>5 DEF Inv, TypeOK
<1>7. StackInv'
  BY <1>1 DEF StackInv
<1>8. HoldersInv'
  BY <1>1, <1>2, <1>5 DEF Inv, HoldersInv, TasksInv
<1>9. TasksInv'
  BY <1>2, <1>5 DEF Inv, TasksInv
<1>10. SupersedingInv'
  <2> SUFFICES ASSUME NEW f \in FramesOf(stack)', f.at = "superseding" PROVE Fresh(told'[f.gen])
    BY DEF SupersedingInv
  <2>1. CASE f = c
    <3>1. c.gen = generation + 1 /\ c.gen \in Generations
      BY <2>1, <1>2 DEF Holder, Generations
    <3>2. c.gen # pending.gen /\ Fresh(told[c.gen])
      BY <3>1, <1>2 DEF Inv, FreshInv
    <3> QED
      BY <2>1, <3>1, <3>2, <1>4
  <2>2. CASE f # c
    <3>1. f \in FramesOf(stack)
      BY <2>2, <1>1
    <3>2. Fresh(told[f.gen]) /\ f.gen \in 1 .. generation
      BY <3>1 DEF Inv, SupersedingInv, HoldersInv, Holder
    <3>3. f.gen \in Generations
      BY <3>2, Numbered
    <3>4. f.gen # pending.gen
      BY <3>2, <1>2, HeardOnce
    <3> QED
      BY <3>2, <3>3, <3>4, <1>4
  <2> QED
    BY <2>1, <2>2
<1>11. CommittingInv' /\ PendingInv'
  BY <1>5 DEF CommittingInv, PendingInv
<1>12. EventsInv'
  BY <1>4 DEF Inv, EventsInv
<1>13. OpenInv'
  BY <1>4, HeardOnce DEF Inv, OpenInv
<1>14. FreshInv'
  <2> SUFFICES ASSUME NEW n \in Generations, n > generation' PROVE Fresh(told'[n])
    BY DEF FreshInv
  <2>1. n > generation /\ n # pending.gen
    BY <1>2, Numbered
  <2> QED
    BY <2>1, <1>4 DEF Inv, FreshInv
<1>15. GoneInv'
  BY DEF GoneInv
<1> QED
  BY <1>6, <1>7, <1>8, <1>9, <1>10, <1>11, <1>12, <1>13, <1>14, <1>15 DEF Inv

(* A navigation is installed as the pending one.                           *)
LEMMA Installed ==
  ASSUME Inv, alive, alive' = alive, pending = NoNavigation,
         NEW g \in Generations, NEW op \in Ops \cup {"quiet"}, NEW below \in Seq(Frames),
         FramesOf(below) \subseteq FramesOf(stack), Nested(below),
         generation' \in {generation, generation + 1}, g = generation',
         Fresh(told[g]), g \notin posted \cup fetches,
         \A f \in FramesOf(below) : Holder(f) => f.gen # g,
         op # "navigate" => \A f \in FramesOf(below) : ~InCommit(f),
         Install(g, op, below), UNCHANGED <<fetches, posted, doc>>
  PROVE  Inv'
<1> DEFINE c == Call("started", g, op)
<1>1. /\ c \in Frames /\ c.at = "started" /\ c.gen = g /\ c.op = op
  BY DEF Call, Frames, Callbacks, Generations
<1>2. \A f \in FramesOf(below) : Above(c, f)
  BY <1>1 DEF Above, InCommit
<1>3. stack' = <<c>> \o below
  BY DEF Install
<1> HIDE DEF c
<1>4. /\ <<c>> \o below \in Seq(Frames) /\ Nested(<<c>> \o below)
      /\ FramesOf(<<c>> \o below) = {c} \cup FramesOf(below)
  BY <1>1, <1>2, Pushed
<1>5. /\ pending' \in Pending /\ pending'.gen = g /\ ~pending'.committed /\ ~loadFinished'
      /\ finishes' = finishes
  BY DEF Install, Pending, Generations
<1>6. /\ told' \in [Generations -> Seq(Events)]
      /\ Started(told'[g]) /\ \A n \in Generations : n # g => told'[n] = told[n]
  <2>1. TypeOK /\ Started(Append(told[g], "started")) /\ "started" \in Events
    BY HeardOnce, EventNames DEF Inv
  <2>2. told' = Tell(g, "started")
    BY DEF Install
  <2>3. /\ Tell(g, "started") \in [Generations -> Seq(Events)]
        /\ Tell(g, "started")[g] = Append(told[g], "started")
        /\ \A n \in Generations : n # g => Tell(g, "started")[n] = told[n]
    BY <2>1, Telling
  <2> QED
    BY <2>1, <2>2, <2>3, Zenon
<1>7. generation \in Nat /\ generation <= generation' /\ g # 0
  BY DEF Inv, TypeOK, Generations
<1>8. TypeOK'
  <2>1. loadFinished' \in BOOLEAN /\ alive' \in BOOLEAN /\ doc' = doc
    BY DEF Install
  <2>2. pending'.gen # 0 /\ generation' \in 0 .. MaxNavigations
    BY <1>5, <1>7, Numbered
  <2> QED
    BY <1>5, <1>6, <2>1, <2>2 DEF Inv, TypeOK
<1>9. StackInv'
  BY <1>3, <1>4 DEF StackInv
<1>10. HoldersInv'
  <2> SUFFICES ASSUME NEW f \in FramesOf(stack)', Holder(f)
               PROVE  f.gen \in 1 .. generation' /\ f.gen \notin posted \cup fetches
    BY <1>5 DEF HoldersInv
  <2>1. CASE f = c
    BY <2>1, <1>1, <1>7 DEF Generations
  <2>2. CASE f # c
    BY <2>2, <1>3, <1>4, <1>7 DEF Inv, HoldersInv
  <2> QED
    BY <2>1, <2>2
<1>11. TasksInv'
  BY <1>5, <1>7 DEF Inv, TasksInv
<1>12. SupersedingInv'
  <2> SUFFICES ASSUME NEW f \in FramesOf(stack)', f.at = "superseding"
               PROVE  Fresh(told'[f.gen]) /\ f.gen # generation'
    BY DEF SupersedingInv
  <2>1. f \in FramesOf(below)
    BY <1>1, <1>3, <1>4
  <2>2. f.gen # g /\ Fresh(told[f.gen]) /\ f.gen \in Generations
    BY <2>1, Numbered DEF Inv, SupersedingInv, HoldersInv, Holder
  <2> QED
    BY <2>2, <1>6
<1>13. CommittingInv'
  BY <1>5 DEF CommittingInv
<1>14. PendingInv'
  BY <1>5, <1>6 DEF PendingInv
<1>15. EventsInv'
  BY <1>6 DEF Inv, EventsInv, Open
<1>16. OpenInv'
  <2> SUFFICES ASSUME NEW n \in Generations, Open(told'[n]), n # g PROVE FALSE
    BY <1>5 DEF OpenInv
  <2>1. Open(told[n])
    BY <1>6
  <2>2. pending.gen = n /\ pending.gen = 0
    BY <2>1 DEF Inv, OpenInv, NoNavigation
  <2> QED
    BY <2>2 DEF Generations
<1>17. FreshInv'
  BY <1>6, <1>7 DEF Inv, FreshInv, Generations
<1>18. GoneInv'
  BY DEF GoneInv
<1> QED
  BY <1>8, <1>9, <1>10, <1>11, <1>12, <1>13, <1>14, <1>15, <1>16, <1>17, <1>18 DEF Inv

(* The next generation is nobody's yet.                                    *)
LEMMA NextGeneration ==
  ASSUME Inv, generation < MaxNavigations
  PROVE  /\ generation + 1 \in Generations /\ generation + 1 \in 0 .. MaxNavigations
         /\ Fresh(told[generation + 1]) /\ generation + 1 \notin posted \cup fetches
         /\ \A f \in FramesOf(stack) : Holder(f) => f.gen # generation + 1
<1>1. generation \in Nat /\ generation + 1 \in Generations /\ generation + 1 > generation
      /\ generation + 1 \notin 1 .. generation
  BY NavigationAssumption DEF Inv, TypeOK, Generations
<1> QED
  BY <1>1 DEF Inv, FreshInv, TasksInv, HoldersInv, Generations

LEMMA Begun ==
  ASSUME Inv, alive, alive' = alive,
         NEW op \in Ops \cup {"quiet"}, NEW below \in Seq(Frames),
         FramesOf(below) \subseteq FramesOf(stack), Nested(below),
         op # "navigate" => \A f \in FramesOf(below) : ~InCommit(f),
         BeginMainNavigation(op, below), UNCHANGED <<fetches, posted, doc>>
  PROVE  Inv'
<1> DEFINE c == Call("superseding", generation + 1, op)
<1>1. generation < MaxNavigations /\ generation' = generation + 1
  BY DEF BeginMainNavigation
<1>2. /\ generation + 1 \in Generations /\ generation + 1 \in 0 .. MaxNavigations
      /\ Fresh(told[generation + 1]) /\ generation + 1 \notin posted \cup fetches
      /\ \A f \in FramesOf(below) : Holder(f) => f.gen # generation + 1
  BY <1>1, NextGeneration
<1>3. CASE pending = NoNavigation
  <2>1. Install(generation + 1, op, below)
    BY <1>3 DEF BeginMainNavigation
  <2> QED
    BY <1>1, <1>2, <1>3, <2>1, Installed
<1>4. CASE pending # NoNavigation
  <2>1. EndPending("superseded", <<c>> \o below)
    BY <1>4 DEF BeginMainNavigation
  <2>2. /\ pending' = NoNavigation /\ loadFinished' = TRUE
        /\ told' = Tell(pending.gen, "superseded")
        /\ finishes' \in [Generations -> 0 .. 2] /\ stack' = <<c>> \o below
    BY <2>1, Finished, Zenon DEF EndPending, Inv
  <2>3. c \in Frames /\ c.at = "superseding" /\ c.gen = generation + 1 /\ c.op = op
    BY <1>2 DEF Call, Frames, Callbacks
  <2>4. \A f \in FramesOf(below) : Above(c, f)
    BY <1>2, <2>3 DEF Above, InCommit
  <2>5. "superseded" \in Endings
    BY DEF Endings
  <2> HIDE DEF c
  <2> QED
    BY <1>1, <1>2, <1>4, <2>2, <2>3, <2>4, <2>5, PendingEnds
<1> QED
  BY <1>3, <1>4

(* A navigation is superseded or cancelled by something that is none.      *)
LEMMA Superseded ==
  ASSUME Inv, alive, alive' = alive,
         NEW outcome \in Endings, NEW where \in {"ended", "stopping", "traversing"},
         where = "traversing" => \A f \in FramesOf(stack) : ~InCommit(f),
         SupersedePendingMainNavigation(outcome, where, stack), UNCHANGED <<fetches, posted, doc>>
  PROVE  Inv'
<1>1. generation < MaxNavigations /\ generation' = generation + 1
  BY DEF SupersedePendingMainNavigation
<1>2. generation + 1 \in 0 .. MaxNavigations
  BY <1>1, NextGeneration
<1>3. stack \in Seq(Frames) /\ Nested(stack) /\ FramesOf(stack) \subseteq FramesOf(stack)
  BY DEF Inv, StackInv
<1>4. ASSUME NEW op \in Ops \cup {"quiet"}
      PROVE  /\ Call(where, generation + 1, op) \in Frames
             /\ ~Holder(Call(where, generation + 1, op))
             /\ Call(where, generation + 1, op).at # "committing"
             /\ \A f \in FramesOf(stack) : Above(Call(where, generation + 1, op), f)
  <2> DEFINE c == Call(where, generation + 1, op)
  <2>1. c \in Frames /\ c.at = where /\ ~Holder(c)
    BY <1>2 DEF Call, Frames, Callbacks, Holder
  <2> HIDE DEF c
  <2>2. \A f \in FramesOf(stack) : Above(c, f)
    BY <2>1 DEF Above, InCommit
  <2> QED
    BY <2>1, <2>2 DEF c
<1>5. CASE pending = NoNavigation
  <2> DEFINE c == Call(where, generation + 1, "quiet")
  <2>1. /\ stack' = <<c>> \o stack /\ UNCHANGED <<pending, loadFinished, told, finishes>>
    BY <1>5 DEF SupersedePendingMainNavigation
  <2>2. c \in Frames /\ ~Holder(c) /\ c.at # "committing" /\ \A f \in FramesOf(stack) : Above(c, f)
    BY <1>4
  <2> HIDE DEF c
  <2>3. /\ <<c>> \o stack \in Seq(Frames) /\ Nested(<<c>> \o stack)
        /\ FramesOf(<<c>> \o stack) = {c} \cup FramesOf(stack)
    BY <1>3, <2>2, Pushed
  <2>4. generation \in Nat
    BY DEF Inv, TypeOK
  <2>5. TypeOK' /\ StackInv'
    BY <1>1, <1>2, <2>1, <2>3 DEF Inv, TypeOK, StackInv
  <2>6. HoldersInv'
    BY <1>1, <2>1, <2>2, <2>3, <2>4 DEF Inv, HoldersInv
  <2>7. TasksInv'
    BY <1>1, <2>1, <2>4 DEF Inv, TasksInv
  <2>8. SupersedingInv' /\ CommittingInv' /\ PendingInv'
    BY <1>5, <2>1, <2>2, <2>3 DEF Inv, SupersedingInv, CommittingInv, PendingInv, Holder
  <2>9. EventsInv' /\ OpenInv' /\ FreshInv' /\ GoneInv'
    BY <1>1, <2>1, <2>4 DEF Inv, EventsInv, OpenInv, FreshInv, GoneInv, Generations
  <2> QED
    BY <2>5, <2>6, <2>7, <2>8, <2>9 DEF Inv
<1>6. CASE pending # NoNavigation
  <2> DEFINE c == Call(where, generation + 1, "html")
  <2>1. EndPending(outcome, <<c>> \o stack)
    BY <1>6 DEF SupersedePendingMainNavigation
  <2>2. /\ pending' = NoNavigation /\ loadFinished' = TRUE
        /\ told' = Tell(pending.gen, outcome)
        /\ finishes' \in [Generations -> 0 .. 2] /\ stack' = <<c>> \o stack
    BY <2>1, Finished, Zenon DEF EndPending, Inv
  <2>3. c \in Frames /\ ~Holder(c) /\ c.at # "committing" /\ \A f \in FramesOf(stack) : Above(c, f)
    BY <1>4 DEF Ops
  <2> HIDE DEF c
  <2> QED
    BY <1>1, <1>2, <1>3, <1>6, <2>2, <2>3, PendingEnds
<1> QED
  BY <1>5, <1>6

(* FailMainNavigation and FinishMainNavigationWithoutCommit.               *)
LEMMA Ended ==
  ASSUME Inv, alive, alive' = alive, NEW g, IsPending(g),
         NEW outcome \in Endings, NEW below \in Seq(Frames),
         FramesOf(below) \subseteq FramesOf(stack), Nested(below),
         End(g, outcome, below), generation' = generation,
         posted' \subseteq posted, fetches' \subseteq fetches, doc' = doc
  PROVE  Inv'
<1> DEFINE c == Call("ended", g, "html")
<1>1. pending # NoNavigation /\ g = pending.gen /\ g \in 0 .. MaxNavigations
  BY DEF IsPending, NoNavigation, Inv, TypeOK, Pending
<1>2. /\ pending' = NoNavigation /\ loadFinished' = TRUE
      /\ told' = Tell(pending.gen, outcome)
      /\ finishes' \in [Generations -> 0 .. 2] /\ stack' = <<c>> \o below
  BY Finished, Zenon DEF End, EndPending, Inv
<1>3. c \in Frames /\ c.at = "ended" /\ ~Holder(c)
  BY <1>1 DEF Call, Frames, Callbacks, Holder, Ops
<1> HIDE DEF c
<1>4. \A f \in FramesOf(below) : Above(c, f)
  BY <1>3 DEF Above
<1>5. generation' \in 0 .. MaxNavigations
  BY DEF Inv, TypeOK
<1> QED
  BY <1>1, <1>2, <1>3, <1>4, <1>5, PendingEnds

(* A document is committed, where none is being committed and nobody else  *)
(* has its navigation.                                                     *)
LEMMA CommitStarts ==
  ASSUME Inv, alive, alive' = alive, NEW g, IsPending(g),
         NEW op \in Ops \cup {"quiet"}, NEW below \in Seq(Frames),
         FramesOf(below) \subseteq FramesOf(stack), Nested(below),
         \A f \in FramesOf(below) : ~InCommit(f) /\ (Holder(f) => f.gen # g),
         ~pending.committed, g \notin posted' \cup fetches',
         posted' \subseteq posted, fetches' \subseteq fetches,
         Commit(g, op, below), UNCHANGED <<generation, told, finishes>>
  PROVE  Inv'
<1> DEFINE c == Call("committing", g, op)
<1>1. /\ pending # NoNavigation /\ g = pending.gen /\ g = generation /\ g \in Generations
      /\ Started(told[g]) /\ pending \in Pending
  BY DEF IsPending, NoNavigation, Inv, TypeOK, Pending, PendingInv, Generations
<1>2. c \in Frames /\ c.at = "committing" /\ ~Holder(c)
  BY <1>1 DEF Call, Frames, Callbacks, Holder, Generations
<1>3. stack' = <<c>> \o below
  BY DEF Commit
<1> HIDE DEF c
<1>4. \A f \in FramesOf(below) : Above(c, f)
  BY <1>2 DEF Above
<1>5. /\ <<c>> \o below \in Seq(Frames) /\ Nested(<<c>> \o below)
      /\ FramesOf(<<c>> \o below) = {c} \cup FramesOf(below)
  BY <1>2, <1>4, Pushed
<1>6. /\ pending' \in Pending /\ pending'.gen = g /\ pending'.committed /\ loadFinished' = FALSE
      /\ doc' = [gen |-> g, loading |-> TRUE]
  BY <1>1 DEF Commit, Pending
<1>7. TypeOK'
  BY <1>1, <1>6 DEF Inv, TypeOK, Generations
<1>8. StackInv'
  BY <1>3, <1>5 DEF StackInv
<1>9. HoldersInv'
  BY <1>2, <1>3, <1>5, <1>6 DEF Inv, HoldersInv
<1>10. TasksInv'
  BY <1>6 DEF Inv, TasksInv
<1>11. SupersedingInv'
  <2> SUFFICES ASSUME NEW f \in FramesOf(stack)', f.at = "superseding"
               PROVE  Fresh(told[f.gen]) /\ f.gen # generation
    BY DEF SupersedingInv
  <2>1. f \in FramesOf(below)
    BY <1>2, <1>3, <1>5
  <2> QED
    BY <2>1, <1>1 DEF Inv, SupersedingInv
<1>12. CommittingInv' /\ PendingInv'
  BY <1>1, <1>6 DEF CommittingInv, PendingInv
<1>13. EventsInv' /\ FreshInv' /\ GoneInv'
  BY DEF Inv, EventsInv, FreshInv, GoneInv
<1>14. OpenInv'
  BY <1>1, <1>6 DEF Inv, OpenInv
<1> QED
  BY <1>7, <1>8, <1>9, <1>10, <1>11, <1>12, <1>13, <1>14 DEF Inv

(* Tasks run in no commit.                                                 *)
LEMMA TaskRunsInNoCommit ==
  ASSUME Inv, TaskMayRun PROVE \A f \in FramesOf(stack) : ~InCommit(f)
<1>1. CASE stack = <<>>
  BY <1>1, EmptyStack
<1>2. CASE At("pumping")
  <2>1. /\ Top.at = "pumping" /\ stack # <<>> /\ Top = Head(stack)
        /\ \A f \in FramesOf(Rest) : Above(Top, f)
    BY <1>2, TopOfStack
  <2>2. FramesOf(stack) = {Top} \cup FramesOf(Rest)
    BY <2>1, Popped DEF Inv, StackInv, Rest
  <2> QED
    BY <2>1, <2>2 DEF Above, InCommit
<1> QED
  BY <1>1, <1>2 DEF TaskMayRun

------------------------------------------------------------------------------
(* The calls of the host.                                                  *)
LEMMA WholeStack ==
  ASSUME Inv
  PROVE  stack \in Seq(Frames) /\ Nested(stack) /\ FramesOf(stack) \subseteq FramesOf(stack)
  BY DEF Inv, StackInv

LEMMA HostNavigatesStep ==
  ASSUME Inv, NEW op \in Ops \ {"page"}, HostNavigates(op) PROVE Inv'
<1>1. alive /\ alive' = alive /\ UNCHANGED <<fetches, posted, doc>>
      /\ BeginMainNavigation(op, stack)
  BY DEF HostNavigates, HostMayCall
<1>2. op # "navigate" => \A f \in FramesOf(stack) : ~InCommit(f)
  BY DEF HostNavigates, InsideCommit, InCommit, FramesOf, Ops
<1> QED
  BY <1>1, <1>2, WholeStack, Begun

LEMMA SupersedesStep ==
  ASSUME Inv, CancelNavigation \/ StopLoading \/ LoadUnhandled PROVE Inv'
<1>1. alive /\ alive' = alive /\ UNCHANGED <<fetches, posted, doc>>
  BY DEF CancelNavigation, StopLoading, LoadUnhandled, HostMayCall
<1>2. "cancelled" \in Endings /\ "superseded" \in Endings
  BY DEF Endings
<1>3. CASE CancelNavigation
  BY <1>1, <1>2, <1>3, Superseded DEF CancelNavigation
<1>4. CASE StopLoading
  BY <1>1, <1>2, <1>4, Superseded DEF StopLoading
<1>5. CASE LoadUnhandled
  BY <1>1, <1>2, <1>5, Superseded DEF LoadUnhandled
<1> QED
  BY <1>3, <1>4, <1>5

LEMMA DestroyViewStep == ASSUME Inv, DestroyView PROVE Inv'
<1>1. /\ stack = <<>> /\ stack' = <<>> /\ pending' = NoNavigation /\ ~alive'
      /\ generation' = generation + 1 /\ generation < MaxNavigations
      /\ doc' = [gen |-> 0, loading |-> FALSE]
      /\ UNCHANGED <<loadFinished, fetches, posted, told, finishes>> /\ alive' = FALSE
  BY DEF DestroyView
<1>2. generation \in Nat /\ generation + 1 \in 0 .. MaxNavigations
  BY <1>1, NavigationAssumption DEF Inv, TypeOK
<1>3. pending' \in Pending /\ ~pending'.committed
  BY <1>1, NavigationAssumption DEF NoNavigation, Pending
<1>4. TypeOK'
  <2>1. 0 \in 0 .. MaxNavigations
    BY Numbered
  <2> QED
    BY <1>1, <1>2, <1>3, <2>1 DEF Inv, TypeOK
<1>5. StackInv' /\ HoldersInv' /\ SupersedingInv' /\ CommittingInv'
  BY <1>1, EmptyStack DEF StackInv, HoldersInv, SupersedingInv, CommittingInv
<1>6. TasksInv'
  BY <1>1, <1>2, <1>3 DEF Inv, TasksInv
<1>7. PendingInv' /\ OpenInv' /\ GoneInv'
  BY <1>1 DEF PendingInv, OpenInv, GoneInv
<1>8. EventsInv' /\ FreshInv'
  BY <1>1, <1>2 DEF Inv, EventsInv, FreshInv, Generations
<1> QED
  BY <1>4, <1>5, <1>6, <1>7, <1>8 DEF Inv

------------------------------------------------------------------------------
(* The returns.                                                            *)
LEMMA DocTyped ==
  ASSUME Inv, NEW b \in BOOLEAN
  PROVE  /\ doc \in [gen : 0 .. MaxNavigations, loading : BOOLEAN]
         /\ [doc EXCEPT !.loading = b] \in [gen : 0 .. MaxNavigations, loading : BOOLEAN]
         /\ [doc EXCEPT !.loading = b].gen = doc.gen
  BY DEF Inv, TypeOK

LEMMA SupersedingReturnsStep ==
  ASSUME Inv, SupersedingReturns PROVE Inv'
<1>1. At("superseding") /\ UNCHANGED <<generation, fetches, posted, doc, alive>>
  BY DEF SupersedingReturns
<1>2. /\ stack # <<>> /\ alive
      /\ Top \in Frames /\ Top.at = "superseding" /\ Top \in FramesOf(stack)
      /\ Rest \in Seq(Frames) /\ Nested(Rest)
      /\ FramesOf(Rest) \subseteq FramesOf(stack)
      /\ \A f \in FramesOf(Rest) : Above(Top, f)
  BY <1>1, TopOfStack
<1>3. CASE IsCurrent(Top.gen)
  <2>1. Install(Top.gen, Top.op, Rest) /\ Top.gen = generation
    BY <1>3 DEF SupersedingReturns, IsCurrent
  <2>2. /\ Top.gen \in 1 .. generation /\ Top.gen \notin posted \cup fetches
        /\ Fresh(told[Top.gen]) /\ pending = NoNavigation
    BY <1>2, <2>1 DEF Inv, HoldersInv, SupersedingInv, Holder
  <2>3. Top.gen \in Generations
    BY <2>2, Numbered
  <2>4. \A f \in FramesOf(Rest) : Holder(f) => f.gen # Top.gen
    BY <1>2 DEF Above, Holder
  <2>5. Top.op # "navigate" => \A f \in FramesOf(Rest) : ~InCommit(f)
    BY <1>2 DEF Above
  <2>6. Top.op \in Ops \cup {"quiet"}
    BY <1>2 DEF Frames
  <2> QED
    BY <1>1, <1>2, <2>1, <2>2, <2>3, <2>4, <2>5, <2>6, Installed
<1>4. CASE ~IsCurrent(Top.gen)
  BY <1>1, <1>4, DocTyped, Returned DEF SupersedingReturns
<1> QED
  BY <1>3, <1>4

(* What a call knows when it goes on to commit.                            *)
LEMMA HolderGoesOn ==
  ASSUME Inv, NEW where \in {"started", "fetching", "hook"}, At(where)
  PROVE  /\ stack # <<>> /\ alive /\ Top \in Frames /\ Top.at = where
         /\ Rest \in Seq(Frames) /\ Nested(Rest) /\ FramesOf(Rest) \subseteq FramesOf(stack)
         /\ Top.gen \in 1 .. generation /\ Top.gen \notin posted \cup fetches
         /\ pending.committed => ~IsPending(Top.gen)
         /\ \A f \in FramesOf(Rest) : Holder(f) => f.gen # Top.gen
         /\ where # "started" \/ Top.op # "navigate" => \A f \in FramesOf(Rest) : ~InCommit(f)
<1>1. /\ stack # <<>> /\ alive
      /\ Top \in Frames /\ Top.at = where /\ Top \in FramesOf(stack)
      /\ Rest \in Seq(Frames) /\ Nested(Rest)
      /\ FramesOf(Rest) \subseteq FramesOf(stack)
      /\ \A f \in FramesOf(Rest) : Above(Top, f)
  BY TopOfStack
<1>2. Holder(Top)
  BY <1>1 DEF Holder
<1>3. /\ Top.gen \in 1 .. generation /\ Top.gen \notin posted \cup fetches
      /\ pending.committed => Top.gen # pending.gen
  BY <1>1, <1>2 DEF Inv, HoldersInv
<1>4. \A f \in FramesOf(Rest) : Holder(f) => f.gen # Top.gen
  BY <1>1, <1>2 DEF Above
<1>5. where # "started" \/ Top.op # "navigate" => \A f \in FramesOf(Rest) : ~InCommit(f)
  BY <1>1 DEF Above
<1> QED
  BY <1>1, <1>3, <1>4, <1>5 DEF IsPending

(* It hands its navigation to a task or the reactor.                       *)
LEMMA HandedOver ==
  ASSUME Inv, At("started"), stack' = Rest,
         UNCHANGED <<generation, pending, loadFinished, told, finishes, alive, doc>>,
         \/ fetches' = fetches \cup {Top.gen} /\ posted' = posted
         \/ posted' = posted \cup {Top.gen} /\ fetches' = fetches
  PROVE  Inv'
<1>1. /\ alive /\ Rest \in Seq(Frames) /\ Nested(Rest)
      /\ FramesOf(Rest) \subseteq FramesOf(stack)
      /\ Top.gen \in 1 .. generation /\ Top.gen \notin posted \cup fetches
      /\ pending.committed => Top.gen # pending.gen
      /\ \A f \in FramesOf(Rest) : Holder(f) => f.gen # Top.gen
  BY HolderGoesOn DEF IsPending
<1>2. StackInv'
  BY <1>1 DEF StackInv
<1>3. HoldersInv'
  BY <1>1 DEF Inv, HoldersInv
<1>4. TasksInv'
  BY <1>1 DEF Inv, TasksInv
<1>5. loadFinished' \in BOOLEAN /\ finishes' \in [Generations -> 0 .. 2]
      /\ doc' \in [gen : 0 .. MaxNavigations, loading : BOOLEAN]
  BY DEF Inv, TypeOK
<1> QED
  BY <1>1, <1>2, <1>3, <1>4, <1>5, StackChanges

LEMMA StartedReturnsStep ==
  ASSUME Inv, StartedReturns PROVE Inv'
<1>1. At("started") /\ UNCHANGED <<generation, alive, told, finishes>>
  BY DEF StartedReturns
<1>2. /\ stack # <<>> /\ alive /\ Top \in Frames /\ Top.at = "started"
      /\ Rest \in Seq(Frames) /\ Nested(Rest) /\ FramesOf(Rest) \subseteq FramesOf(stack)
      /\ Top.gen \in 1 .. generation /\ Top.gen \notin posted \cup fetches
      /\ pending.committed => ~IsPending(Top.gen)
      /\ \A f \in FramesOf(Rest) : Holder(f) => f.gen # Top.gen
      /\ Top.op # "navigate" => \A f \in FramesOf(Rest) : ~InCommit(f)
  BY <1>1, HolderGoesOn
<1>3. CASE stack' = Rest /\ UNCHANGED <<pending, loadFinished, fetches, posted, doc>>
  BY <1>1, <1>3, DocTyped, Returned
<1>4. CASE /\ IsPending(Top.gen) /\ Top.op = "html"
           /\ Commit(Top.gen, "html", Rest) /\ UNCHANGED <<fetches, posted>>
  BY <1>1, <1>2, <1>4, CommitStarts DEF Ops
<1>5. CASE /\ IsPending(Top.gen) /\ Top.op = "load"
           /\ stack' = <<Call("fetching", Top.gen, "load")>> \o Rest
           /\ UNCHANGED <<pending, loadFinished, fetches, posted, doc>>
  <2> DEFINE c == Call("fetching", Top.gen, "load")
  <2>1. c \in Frames /\ c.at = "fetching" /\ c.gen = Top.gen
    BY <1>2 DEF Call, Frames, Callbacks, Ops
  <2>2. stack' = <<c>> \o Rest
    BY <1>5
  <2> HIDE DEF c
  <2>3. \A f \in FramesOf(Rest) : Above(c, f)
    BY <1>2, <1>5, <2>1 DEF Above
  <2>4. /\ <<c>> \o Rest \in Seq(Frames) /\ Nested(<<c>> \o Rest)
        /\ FramesOf(<<c>> \o Rest) = {c} \cup FramesOf(Rest)
    BY <1>2, <2>1, <2>3, Pushed
  <2>5. StackInv'
    BY <2>2, <2>4 DEF StackInv
  <2>6. HoldersInv'
    <3> SUFFICES ASSUME NEW f \in FramesOf(stack)', Holder(f)
                 PROVE  /\ f.gen \in 1 .. generation /\ f.gen \notin posted \cup fetches
                        /\ pending.committed => f.gen # pending.gen
      BY <1>1, <1>5 DEF HoldersInv
    <3>1. CASE f = c
      BY <1>2, <2>1, <3>1 DEF IsPending
    <3>2. CASE f # c
      BY <1>2, <2>2, <2>4, <3>2 DEF Inv, HoldersInv
    <3> QED
      BY <3>1, <3>2
  <2>7. TasksInv'
    BY <1>1, <1>5 DEF Inv, TasksInv
  <2>8. loadFinished' \in BOOLEAN /\ finishes' \in [Generations -> 0 .. 2]
        /\ doc' \in [gen : 0 .. MaxNavigations, loading : BOOLEAN]
    BY <1>1, <1>5 DEF Inv, TypeOK
  <2>9. \A f \in FramesOf(stack)' :
          f.at \in {"superseding", "committing"} => f \in FramesOf(stack)
    BY <1>2, <2>1, <2>2, <2>4
  <2> QED
    BY <1>1, <1>2, <1>5, <2>5, <2>6, <2>7, <2>8, <2>9, StackChanges
<1>6. CASE /\ fetches' = fetches \cup {Top.gen} /\ stack' = Rest
           /\ UNCHANGED <<pending, loadFinished, posted, doc>>
  BY <1>1, <1>6, HandedOver
<1>7. CASE /\ posted' = posted \cup {Top.gen} /\ stack' = Rest
           /\ UNCHANGED <<pending, loadFinished, fetches, doc>>
  BY <1>1, <1>7, HandedOver
<1> QED
  BY <1>3, <1>4, <1>5, <1>6, <1>7 DEF StartedReturns

(* A fetch is over: a commit or a download.                                *)
LEMMA DeliveredStep ==
  ASSUME Inv, NEW where \in {"fetching", "hook"}, At(where),
         IsPending(Top.gen), NEW op \in Ops \cup {"quiet"}, Delivered(Top.gen, op, Rest),
         UNCHANGED <<generation, fetches, posted, alive>>
  PROVE  Inv'
<1>1. /\ stack # <<>> /\ alive /\ Top \in Frames
      /\ Rest \in Seq(Frames) /\ Nested(Rest) /\ FramesOf(Rest) \subseteq FramesOf(stack)
      /\ Top.gen \notin posted \cup fetches
      /\ ~pending.committed
      /\ \A f \in FramesOf(Rest) : ~InCommit(f) /\ (Holder(f) => f.gen # Top.gen)
  BY HolderGoesOn
<1>2. CASE Commit(Top.gen, op, Rest) /\ UNCHANGED <<told, finishes>>
  BY <1>1, <1>2, CommitStarts
<1>3. CASE End(Top.gen, "download", Rest) /\ UNCHANGED doc
  <2>1. "download" \in Endings
    BY DEF Endings
  <2> QED
    BY <1>1, <1>3, <2>1, Ended
<1> QED
  BY <1>2, <1>3 DEF Delivered

LEMMA FetchingReturnsStep ==
  ASSUME Inv, FetchingReturns PROVE Inv'
<1>1. At("fetching") /\ UNCHANGED <<generation, fetches, posted, alive>>
  BY DEF FetchingReturns
<1>2. CASE IsPending(Top.gen) /\ Delivered(Top.gen, "load", Rest)
  BY <1>1, <1>2, DeliveredStep DEF Ops
<1>3. CASE IsPending(Top.gen) /\ End(Top.gen, "failure", Rest) /\ UNCHANGED doc
  <2>1. "failure" \in Endings
    BY DEF Endings
  <2>2. /\ alive /\ Rest \in Seq(Frames) /\ Nested(Rest)
        /\ FramesOf(Rest) \subseteq FramesOf(stack)
    BY <1>1, HolderGoesOn
  <2> QED
    BY <1>1, <1>3, <2>1, <2>2, Ended
<1>4. CASE stack' = Rest /\ UNCHANGED <<pending, loadFinished, doc, told, finishes>>
  BY <1>1, <1>4, DocTyped, Returned
<1> QED
  BY <1>2, <1>3, <1>4 DEF FetchingReturns

LEMMA HookReturnsStep ==
  ASSUME Inv, HookReturns PROVE Inv'
<1>1. At("hook") /\ UNCHANGED <<generation, fetches, posted, alive>>
  BY DEF HookReturns
<1>2. CASE IsPending(Top.gen) /\ Delivered(Top.gen, Top.op, Rest)
  <2>1. Top.op \in Ops \cup {"quiet"}
    BY <1>1, HolderGoesOn DEF Frames
  <2> QED
    BY <1>1, <1>2, <2>1, DeliveredStep
<1>3. CASE stack' = Rest /\ UNCHANGED <<pending, loadFinished, doc, told, finishes>>
  BY <1>1, <1>3, DocTyped, Returned
<1> QED
  BY <1>2, <1>3 DEF HookReturns

LEMMA CommittingReturnsStep ==
  ASSUME Inv, CommittingReturns PROVE Inv'
<1> DEFINE c == [Top EXCEPT !.at = "committed"]
<1>1. /\ At("committing") /\ stack' = <<c>> \o Rest
      /\ told' = IF pending.committed THEN Tell(pending.gen, "committed") ELSE told
      /\ UNCHANGED <<generation, pending, loadFinished, fetches, posted, doc, alive, finishes>>
  BY DEF CommittingReturns
<1>2. /\ stack # <<>> /\ alive
      /\ Top \in Frames /\ Top.at = "committing" /\ Top \in FramesOf(stack)
      /\ Rest \in Seq(Frames) /\ Nested(Rest)
      /\ FramesOf(Rest) \subseteq FramesOf(stack)
      /\ \A f \in FramesOf(Rest) : Above(Top, f)
  BY <1>1, TopOfStack
<1>3. c \in Frames /\ c.at = "committed" /\ ~Holder(c)
  BY <1>2 DEF Frames, Callbacks, Holder
<1> HIDE DEF c
<1>4. \A f \in FramesOf(Rest) : ~InCommit(f) /\ Above(c, f)
  BY <1>2, <1>3 DEF Above
<1>5. /\ <<c>> \o Rest \in Seq(Frames) /\ Nested(<<c>> \o Rest)
      /\ FramesOf(<<c>> \o Rest) = {c} \cup FramesOf(Rest)
  BY <1>2, <1>3, <1>4, Pushed
<1>6. \A f \in FramesOf(stack)' :
        /\ Holder(f) \/ f.at = "superseding" => f \in FramesOf(stack)
        /\ f.at # "committing"
  BY <1>1, <1>2, <1>3, <1>4, <1>5 DEF InCommit
<1>7. CASE ~pending.committed
  <2>1. told' = told
    BY <1>1, <1>7
  <2>2. StackInv' /\ HoldersInv' /\ TasksInv'
    BY <1>1, <1>5, <1>6 DEF Inv, StackInv, HoldersInv, TasksInv
  <2>3. loadFinished' \in BOOLEAN /\ finishes' \in [Generations -> 0 .. 2]
        /\ doc' \in [gen : 0 .. MaxNavigations, loading : BOOLEAN]
    BY <1>1 DEF Inv, TypeOK
  <2>4. \A f \in FramesOf(stack)' :
          f.at \in {"superseding", "committing"} => f \in FramesOf(stack)
    BY <1>6
  <2> QED
    BY <1>1, <1>2, <2>1, <2>2, <2>3, <2>4, StackChanges
<1>8. CASE pending.committed
  <2>1. pending # NoNavigation /\ pending.gen = generation /\ pending.gen \in Generations
    BY <1>8 DEF NoNavigation, Inv, PendingInv, TypeOK, Pending, Generations
  <2>2. Started(told[pending.gen])
    BY <1>2, <1>8 DEF Inv, CommittingInv
  <2>3. /\ told' \in [Generations -> Seq(Events)]
        /\ Committed(told'[pending.gen])
        /\ \A n \in Generations : n # pending.gen => told'[n] = told[n]
    <3>1. TypeOK /\ Committed(Append(told[pending.gen], "committed")) /\ "committed" \in Events
      BY <2>2, HeardOnce, EventNames DEF Inv
    <3>2. told' = Tell(pending.gen, "committed")
      BY <1>1, <1>8
    <3> QED
      BY <2>1, <3>1, <3>2, Telling
  <2>4. TypeOK'
    BY <1>1, <2>3 DEF Inv, TypeOK
  <2>5. StackInv' /\ TasksInv'
    BY <1>1, <1>5 DEF Inv, StackInv, TasksInv
  <2>6. HoldersInv'
    BY <1>1, <1>6 DEF Inv, HoldersInv
  <2>7. SupersedingInv'
    <3> SUFFICES ASSUME NEW f \in FramesOf(stack)', f.at = "superseding"
                 PROVE  Fresh(told'[f.gen]) /\ f.gen # generation
      BY <1>1 DEF SupersedingInv
    <3>1. f \in FramesOf(stack) /\ Holder(f)
      BY <1>6 DEF Holder
    <3>2. Fresh(told[f.gen]) /\ f.gen \in Generations
      BY <3>1, Numbered DEF Inv, SupersedingInv, HoldersInv
    <3>3. f.gen # pending.gen
      BY <3>2, <2>2, HeardOnce DEF Open
    <3> QED
      BY <3>2, <3>3, <2>1, <2>3
  <2>8. CommittingInv' /\ PendingInv'
    BY <1>1, <1>6, <1>8, <2>1, <2>3 DEF Inv, CommittingInv, PendingInv
  <2>9. EventsInv'
    BY <2>1, <2>3 DEF Inv, EventsInv, Open
  <2>10. OpenInv'
    BY <1>1, <2>3 DEF Inv, OpenInv
  <2>11. FreshInv'
    <3> SUFFICES ASSUME NEW n \in Generations, n > generation PROVE Fresh(told'[n])
      BY <1>1 DEF FreshInv
    <3>1. n # pending.gen
      BY <2>1, Numbered
    <3> QED
      BY <3>1, <2>3 DEF Inv, FreshInv
  <2>12. GoneInv'
    BY <1>1, <1>2 DEF GoneInv
  <2> QED
    BY <2>4, <2>5, <2>6, <2>7, <2>8, <2>9, <2>10, <2>11, <2>12 DEF Inv
<1> QED
  BY <1>7, <1>8

LEMMA CommittedReturnsStep ==
  ASSUME Inv, CommittedReturns PROVE Inv'
<1>1. /\ At("committed")
      /\ UNCHANGED <<generation, pending, loadFinished, fetches, posted, doc, alive, told,
                     finishes>>
  BY DEF CommittedReturns
<1>2. /\ alive /\ Top \in Frames /\ Top.at = "committed"
      /\ Rest \in Seq(Frames) /\ Nested(Rest) /\ FramesOf(Rest) \subseteq FramesOf(stack)
      /\ \A f \in FramesOf(Rest) : Above(Top, f)
  BY <1>1, TopOfStack
<1>3. CASE stack' = Rest
  BY <1>1, <1>3, DocTyped, Returned
<1>4. CASE stack' = <<[Top EXCEPT !.at = "pumping"]>> \o Rest
  <2> DEFINE c == [Top EXCEPT !.at = "pumping"]
  <2>1. c \in Frames /\ c.at = "pumping" /\ ~Holder(c)
    BY <1>2 DEF Frames, Callbacks, Holder
  <2>2. stack' = <<c>> \o Rest
    BY <1>4
  <2> HIDE DEF c
  <2>3. \A f \in FramesOf(Rest) : Above(c, f)
    BY <1>2, <2>1 DEF Above
  <2>4. loadFinished' \in BOOLEAN /\ finishes' \in [Generations -> 0 .. 2]
        /\ doc' \in [gen : 0 .. MaxNavigations, loading : BOOLEAN]
    BY <1>1 DEF Inv, TypeOK
  <2> QED
    BY <1>1, <1>2, <2>1, <2>2, <2>3, <2>4, Entered
<1> QED
  BY <1>3, <1>4 DEF CommittedReturns

LEMMA JustReturnsStep == ASSUME Inv, JustReturns PROVE Inv'
<1>1. /\ At("ended") \/ At("pumping")
      /\ stack' = Rest
      /\ UNCHANGED <<generation, pending, loadFinished, fetches, posted, doc, alive, told,
                     finishes>>
  BY DEF JustReturns
<1> QED
  BY <1>1, DocTyped, Returned

LEMMA StoppingReturnsStep == ASSUME Inv, StoppingReturns PROVE Inv'
<1>1. /\ At("stopping") /\ stack' = Rest
      /\ UNCHANGED <<generation, pending, loadFinished, fetches, posted, alive, told, finishes>>
      /\ doc' = doc \/ doc' = [doc EXCEPT !.loading = FALSE]
  BY DEF StoppingReturns
<1> QED
  BY <1>1, DocTyped, Returned

LEMMA AskingReturnsStep == ASSUME Inv, AskingReturns PROVE Inv'
<1>1. At("asking") /\ UNCHANGED <<fetches, posted, doc, alive>>
  BY DEF AskingReturns
<1>2. /\ alive /\ Rest \in Seq(Frames) /\ Nested(Rest) /\ FramesOf(Rest) \subseteq FramesOf(stack)
      /\ \A f \in FramesOf(Rest) : ~InCommit(f)
  BY <1>1, TopOfStack DEF Above
<1>3. CASE BeginMainNavigation("page", Rest)
  BY <1>1, <1>2, <1>3, Begun DEF Ops
<1>4. CASE stack' = Rest /\ UNCHANGED <<generation, pending, loadFinished, told, finishes>>
  BY <1>1, <1>4, DocTyped, Returned
<1> QED
  BY <1>3, <1>4 DEF AskingReturns

LEMMA TraversingReturnsStep == ASSUME Inv, TraversingReturns PROVE Inv'
<1>1. At("traversing") /\ UNCHANGED <<fetches, posted, doc, alive>>
  BY DEF TraversingReturns
<1>2. /\ alive /\ Rest \in Seq(Frames) /\ Nested(Rest) /\ FramesOf(Rest) \subseteq FramesOf(stack)
      /\ \A f \in FramesOf(Rest) : ~InCommit(f)
  BY <1>1, TopOfStack DEF Above
<1>3. CASE BeginMainNavigation("load", Rest)
  BY <1>1, <1>2, <1>3, Begun DEF Ops
<1>4. CASE stack' = Rest /\ UNCHANGED <<generation, pending, loadFinished, told, finishes>>
  BY <1>1, <1>4, DocTyped, Returned
<1> QED
  BY <1>3, <1>4 DEF TraversingReturns

LEMMA FinishingReturnsStep == ASSUME Inv, FinishingReturns PROVE Inv'
<1>1. At("finishing") /\ OnDidFinishLoad /\ UNCHANGED <<generation, fetches, posted, doc, alive>>
  BY DEF FinishingReturns
<1>2. /\ alive /\ Top \in Frames
      /\ Rest \in Seq(Frames) /\ Nested(Rest) /\ FramesOf(Rest) \subseteq FramesOf(stack)
  BY <1>1, TopOfStack
<1> DEFINE c == Call("ended", Top.gen, "html")
<1>3. c \in Frames /\ c.at = "ended" /\ ~Holder(c)
  BY <1>2 DEF Call, Frames, Callbacks, Holder, Ops
<1>4. CASE stack' = Rest /\ UNCHANGED <<pending, loadFinished, told, finishes>>
  BY <1>1, <1>4, DocTyped, Returned
<1>5. CASE /\ pending' = NoNavigation /\ loadFinished' = TRUE
           /\ told' = IF pending = NoNavigation THEN told ELSE Tell(pending.gen, "success")
           /\ finishes' = Finish(Top.gen) /\ stack' = <<c>> \o Rest
  <2> HIDE DEF c
  <2>1. finishes' \in [Generations -> 0 .. 2]
    BY <1>5, Finished, Zenon DEF Inv
  <2>2. \A f \in FramesOf(Rest) : Above(c, f)
    BY <1>3 DEF Above
  <2>3. CASE pending = NoNavigation
    <3>1. doc' \in [gen : 0 .. MaxNavigations, loading : BOOLEAN]
      BY <1>1 DEF Inv, TypeOK
    <3> QED
      BY <1>1, <1>2, <1>3, <1>5, <2>1, <2>2, <2>3, <3>1, Entered
  <2>4. CASE pending # NoNavigation
    <3>1. "success" \in Endings /\ generation' \in 0 .. MaxNavigations
      BY <1>1 DEF Endings, Inv, TypeOK
    <3> QED
      BY <1>1, <1>2, <1>3, <1>5, <2>1, <2>2, <2>4, <3>1, PendingEnds
  <2> QED
    BY <2>3, <2>4
<1> QED
  BY <1>1, <1>4, <1>5 DEF OnDidFinishLoad

------------------------------------------------------------------------------
(* The tasks.                                                              *)
LEMMA PageNavigatesStep == ASSUME Inv, PageNavigates PROVE Inv'
<1> DEFINE c == Call("asking", generation, "page")
<1>1. /\ TaskMayRun /\ alive /\ stack' = <<c>> \o stack
      /\ UNCHANGED <<generation, pending, loadFinished, fetches, posted, doc, alive, told,
                     finishes>>
  BY DEF PageNavigates
<1>2. c \in Frames /\ c.at = "asking" /\ ~Holder(c)
  BY DEF Call, Frames, Callbacks, Holder, Ops, Inv, TypeOK
<1> HIDE DEF c
<1>3. \A f \in FramesOf(stack) : Above(c, f)
  BY <1>1, <1>2, TaskRunsInNoCommit DEF Above
<1>4. loadFinished' \in BOOLEAN /\ finishes' \in [Generations -> 0 .. 2]
      /\ doc' \in [gen : 0 .. MaxNavigations, loading : BOOLEAN]
  BY <1>1 DEF Inv, TypeOK
<1> QED
  BY <1>1, <1>2, <1>3, <1>4, WholeStack, Entered

LEMMA PageTraversesStep == ASSUME Inv, PageTraverses PROVE Inv'
<1>1. /\ alive /\ alive' = alive /\ UNCHANGED <<fetches, posted, doc>>
      /\ SupersedePendingMainNavigation("superseded", "traversing", stack)
      /\ "superseded" \in Endings
  BY DEF PageTraverses, Endings
<1>2. \A f \in FramesOf(stack) : ~InCommit(f)
  BY TaskRunsInNoCommit DEF PageTraverses
<1> QED
  BY <1>1, <1>2, Superseded

LEMMA DocumentLoadsStep == ASSUME Inv, DocumentLoads PROVE Inv'
<1> DEFINE c == Call("finishing", doc.gen, "html")
<1>1. /\ TaskMayRun /\ doc.loading /\ stack' = <<c>> \o stack
      /\ doc' = [doc EXCEPT !.loading = FALSE]
      /\ UNCHANGED <<generation, pending, loadFinished, fetches, posted, alive, told, finishes>>
  BY DEF DocumentLoads
<1>2. alive
  BY <1>1 DEF Inv, GoneInv, TypeOK
<1>3. c \in Frames /\ c.at = "finishing" /\ ~Holder(c)
  BY DEF Call, Frames, Callbacks, Holder, Ops, Inv, TypeOK
<1> HIDE DEF c
<1>4. \A f \in FramesOf(stack) : Above(c, f)
  BY <1>1, <1>3, TaskRunsInNoCommit DEF Above
<1>5. loadFinished' \in BOOLEAN /\ finishes' \in [Generations -> 0 .. 2]
      /\ doc' \in [gen : 0 .. MaxNavigations, loading : BOOLEAN]
  BY <1>1, DocTyped DEF Inv, TypeOK
<1> QED
  BY <1>1, <1>2, <1>3, <1>4, <1>5, WholeStack, Entered

(* What a task knows of its navigation.                                    *)
LEMMA TaskKnows ==
  ASSUME Inv, NEW g \in posted \cup fetches
  PROVE  /\ g \in 1 .. generation /\ g \in Generations
         /\ g \in posted => g \notin fetches
         /\ pending.committed => ~IsPending(g)
         /\ \A f \in FramesOf(stack) : Holder(f) => f.gen # g
  BY Numbered DEF Inv, TasksInv, HoldersInv, IsPending

LEMMA DoCommitStep ==
  ASSUME Inv, NEW g, DoCommit(g) PROVE Inv'
<1>1. /\ TaskMayRun /\ g \in posted /\ posted' = posted \ {g}
      /\ UNCHANGED <<generation, alive, told, finishes>>
  BY DEF DoCommit
<1>2. /\ g \in 1 .. generation /\ g \in Generations /\ g \notin fetches
      /\ pending.committed => ~IsPending(g)
      /\ \A f \in FramesOf(stack) : Holder(f) => f.gen # g
  BY <1>1, TaskKnows
<1>3. \A f \in FramesOf(stack) : ~InCommit(f)
  BY <1>1, TaskRunsInNoCommit
<1>4. loadFinished \in BOOLEAN /\ finishes \in [Generations -> 0 .. 2]
      /\ doc \in [gen : 0 .. MaxNavigations, loading : BOOLEAN]
  BY DEF Inv, TypeOK
<1>5. CASE UNCHANGED <<pending, loadFinished, fetches, doc, stack>>
  <2>1. StackInv' /\ HoldersInv' /\ TasksInv'
    BY <1>1, <1>5 DEF Inv, StackInv, HoldersInv, TasksInv
  <2>2. ~alive => stack' = <<>> /\ ~doc'.loading
    BY <1>5 DEF Inv, GoneInv
  <2> QED
    BY <1>1, <1>4, <1>5, <2>1, <2>2, StackChanges
<1>6. CASE alive /\ IsPending(g) /\ Commit(g, "page", stack) /\ UNCHANGED fetches
  BY <1>1, <1>2, <1>3, <1>6, WholeStack, CommitStarts DEF Ops
<1>7. CASE /\ alive /\ IsPending(g)
           /\ pending' = [pending EXCEPT !.fetch = TRUE] /\ fetches' = fetches \cup {g}
           /\ UNCHANGED <<loadFinished, doc, stack>>
  <2>1. pending \in Pending /\ pending.gen = g /\ g # 0 /\ ~pending.committed
    BY <1>2, <1>7 DEF Inv, TypeOK, IsPending
  <2>2. /\ pending' \in Pending /\ pending'.gen = pending.gen
        /\ pending'.committed = pending.committed
    BY <1>7, <2>1 DEF Pending
  <2>3. pending # NoNavigation
    BY <2>1 DEF NoNavigation
  <2>4. TypeOK'
    BY <1>1, <1>7, <2>1, <2>2 DEF Inv, TypeOK
  <2>5. StackInv' /\ CommittingInv'
    BY <1>1, <1>7, <2>2, <2>1 DEF Inv, StackInv, CommittingInv
  <2>6. HoldersInv'
    BY <1>1, <1>2, <1>7, <2>1, <2>2 DEF Inv, HoldersInv
  <2>7. TasksInv'
    BY <1>1, <1>2, <1>7, <2>1, <2>2 DEF Inv, TasksInv
  <2>8. SupersedingInv'
    BY <1>1, <1>7, <2>3 DEF Inv, SupersedingInv
  <2>9. PendingInv'
    BY <1>1, <1>7, <2>2, <2>3 DEF Inv, PendingInv
  <2>10. EventsInv' /\ OpenInv' /\ FreshInv' /\ GoneInv'
    BY <1>1, <1>7, <2>2 DEF Inv, EventsInv, OpenInv, FreshInv, GoneInv
  <2> QED
    BY <2>4, <2>5, <2>6, <2>7, <2>8, <2>9, <2>10 DEF Inv
<1> QED
  BY <1>5, <1>6, <1>7 DEF DoCommit

LEMMA FetchCompletesStep ==
  ASSUME Inv, NEW g, FetchCompletes(g) PROVE Inv'
<1>1. /\ TaskMayRun /\ g \in fetches /\ fetches' = fetches \ {g}
      /\ UNCHANGED <<generation, posted, doc, alive>>
  BY DEF FetchCompletes
<1>2. /\ g \in 1 .. generation /\ g \in Generations /\ g \notin posted
      /\ pending.committed => ~IsPending(g)
      /\ \A f \in FramesOf(stack) : Holder(f) => f.gen # g
  BY <1>1, TaskKnows
<1>3. \A f \in FramesOf(stack) : ~InCommit(f)
  BY <1>1, TaskRunsInNoCommit
<1>4. loadFinished \in BOOLEAN /\ finishes \in [Generations -> 0 .. 2]
      /\ doc \in [gen : 0 .. MaxNavigations, loading : BOOLEAN]
  BY DEF Inv, TypeOK
<1>5. CASE UNCHANGED <<pending, loadFinished, stack, told, finishes>>
  <2>1. StackInv' /\ HoldersInv' /\ TasksInv'
    BY <1>1, <1>5 DEF Inv, StackInv, HoldersInv, TasksInv
  <2>2. ~alive => stack' = <<>> /\ ~doc'.loading
    BY <1>1, <1>5 DEF Inv, GoneInv
  <2> QED
    BY <1>1, <1>4, <1>5, <2>1, <2>2, StackChanges
<1>6. CASE alive /\ IsPending(g) /\ End(g, "failure", stack)
  <2>1. "failure" \in Endings
    BY DEF Endings
  <2> QED
    BY <1>1, <1>6, <2>1, WholeStack, Ended
<1>7. ASSUME alive, IsPending(g), NEW op \in {"navigate", "page"},
             stack' = <<Call("hook", g, op)>> \o stack,
             UNCHANGED <<pending, loadFinished, told, finishes>>
      PROVE  Inv'
  <2> DEFINE c == Call("hook", g, op)
  <2>1. c \in Frames /\ c.at = "hook" /\ c.gen = g
    BY <1>2 DEF Call, Frames, Callbacks, Ops, Generations
  <2>2. stack' = <<c>> \o stack
    BY <1>7
  <2> HIDE DEF c
  <2>3. \A f \in FramesOf(stack) : Above(c, f)
    BY <1>2, <1>3, <2>1 DEF Above
  <2>4. /\ <<c>> \o stack \in Seq(Frames) /\ Nested(<<c>> \o stack)
        /\ FramesOf(<<c>> \o stack) = {c} \cup FramesOf(stack)
    BY <2>1, <2>3, WholeStack, Pushed
  <2>5. StackInv'
    BY <2>2, <2>4 DEF StackInv
  <2>6. HoldersInv'
    <3> SUFFICES ASSUME NEW f \in FramesOf(stack)', Holder(f)
                 PROVE  /\ f.gen \in 1 .. generation /\ f.gen \notin posted \cup fetches'
                        /\ pending.committed => f.gen # pending.gen
      BY <1>1, <1>7 DEF HoldersInv
    <3>1. CASE f = c
      BY <1>1, <1>2, <1>7, <2>1, <3>1 DEF IsPending
    <3>2. CASE f # c
      BY <1>1, <2>2, <2>4, <3>2 DEF Inv, HoldersInv
    <3> QED
      BY <3>1, <3>2
  <2>7. TasksInv'
    BY <1>1, <1>7 DEF Inv, TasksInv
  <2>8. \A f \in FramesOf(stack)' :
          f.at \in {"superseding", "committing"} => f \in FramesOf(stack)
    BY <2>1, <2>2, <2>4
  <2> QED
    BY <1>1, <1>4, <1>7, <2>5, <2>6, <2>7, <2>8, StackChanges
<1> QED
  BY <1>5, <1>6, <1>7 DEF FetchCompletes

------------------------------------------------------------------------------
(* The theorems.                                                           *)
LEMMA InitInv == ASSUME Init PROVE Inv
<1>1. TypeOK
  <2>1. 0 \in 0 .. MaxNavigations
    BY NavigationAssumption
  <2>2. NoNavigation \in Pending /\ <<>> \in Seq(Events)
    BY <2>1 DEF NoNavigation, Pending
  <2>3. /\ told = [g \in Generations |-> <<>>] /\ finishes = [g \in Generations |-> 0]
        /\ pending = NoNavigation /\ doc = [gen |-> 0, loading |-> FALSE]
        /\ generation = 0 /\ loadFinished = FALSE /\ alive = TRUE
    BY DEF Init
  <2>4. told \in [Generations -> Seq(Events)]
    BY <2>2, <2>3
  <2>5. finishes \in [Generations -> 0 .. 2]
    BY <2>3
  <2>6. doc \in [gen : 0 .. MaxNavigations, loading : BOOLEAN]
    BY <2>1, <2>3
  <2> QED
    BY <2>1, <2>2, <2>3, <2>4, <2>5, <2>6 DEF TypeOK
<1>2. StackInv /\ HoldersInv /\ SupersedingInv /\ CommittingInv
  BY EmptyStack DEF Init, StackInv, HoldersInv, SupersedingInv, CommittingInv
<1>3. TasksInv /\ PendingInv
  BY DEF Init, TasksInv, PendingInv, NoNavigation
<1>4. EventsInv /\ FreshInv /\ GoneInv
  BY DEF Init, EventsInv, FreshInv, GoneInv, Fresh
<1>5. OpenInv
  BY HeardOnce DEF Init, OpenInv, Fresh
<1> QED
  BY <1>1, <1>2, <1>3, <1>4, <1>5 DEF Inv

LEMMA NextInv == ASSUME Inv, [Next]_vars PROVE Inv'
<1>1. CASE Returns
  BY <1>1, SupersedingReturnsStep, StartedReturnsStep, FetchingReturnsStep, HookReturnsStep,
     CommittingReturnsStep, CommittedReturnsStep, JustReturnsStep, StoppingReturnsStep,
     AskingReturnsStep, TraversingReturnsStep, FinishingReturnsStep DEF Returns
<1>2. CASE Loop
  BY <1>2, DocumentLoadsStep, DoCommitStep, FetchCompletesStep DEF Loop
<1>3. CASE UNCHANGED vars
  BY <1>3 DEF vars, Inv, TypeOK, StackInv, HoldersInv, TasksInv, SupersedingInv, CommittingInv,
     PendingInv, EventsInv, OpenInv, FreshInv, GoneInv
<1> QED
  BY <1>1, <1>2, <1>3, HostNavigatesStep, SupersedesStep, DestroyViewStep, PageNavigatesStep,
     PageTraversesStep DEF Next

(* What the invariant says of an end.                                      *)
LEMMA OverIsOver ==
  ASSUME Inv, NEW g \in Generations
  PROVE  (Fresh(told[g]) \/ Open(told[g]) => ~IsOver(g)) /\ (Over(told[g]) => IsOver(g))
<1>1. CASE Fresh(told[g])
  <2>1. Told(g) = {}
    BY <1>1 DEF Fresh, Told
  <2> QED
    BY <1>1, <2>1, HeardOnce DEF IsOver
<1>2. CASE Started(told[g])
  <2>1. Told(g) = {"started"}
    BY <1>2 DEF Started, Told
  <2> QED
    BY <1>2, <2>1, HeardOnce DEF IsOver, Endings, Open
<1>3. CASE Committed(told[g])
  <2>1. Told(g) = {"started", "committed"}
    BY <1>3 DEF Committed, Told
  <2> QED
    BY <1>3, <2>1, HeardOnce DEF IsOver, Endings, Open
<1>4. ASSUME NEW e \in Endings, told[g] = <<"started", e>> PROVE IsOver(g)
  <2>1. 2 \in DOMAIN told[g] /\ told[g][2] = e
    BY <1>4
  <2> QED
    BY <2>1 DEF IsOver, Told
<1>5. ASSUME NEW e \in Endings, told[g] = <<"started", "committed", e>> PROVE IsOver(g)
  <2>1. 3 \in DOMAIN told[g] /\ told[g][3] = e
    BY <1>5
  <2> QED
    BY <2>1 DEF IsOver, Told
<1> QED
  BY <1>1, <1>2, <1>3, <1>4, <1>5 DEF Open, Over

LEMMA InvTells == ASSUME Inv PROVE EveryNavigationIsTold
<1>1. EventsAreOrderly
  BY Zenon DEF Inv, EventsInv, EventsAreOrderly, Fresh, Open, Started, Committed, Over
<1>2. OpenIsPending
  <2> SUFFICES ASSUME alive
               PROVE  /\ \A g \in Generations : told[g] # <<>> /\ ~IsOver(g) => IsPending(g)
                      /\ pending # NoNavigation => ~IsOver(pending.gen) /\ ~loadFinished
    BY Zenon DEF OpenIsPending
  <2>1. ASSUME NEW g \in Generations, told[g] # <<>>, ~IsOver(g) PROVE IsPending(g)
    <3>1. Open(told[g])
      BY <2>1, OverIsOver DEF Inv, EventsInv, Fresh
    <3>2. pending.gen = g /\ g # 0
      BY <3>1 DEF Inv, OpenInv, Generations
    <3> QED
      BY <3>2 DEF IsPending
  <2>2. ASSUME pending # NoNavigation PROVE ~IsOver(pending.gen) /\ ~loadFinished
    <3>1. pending.gen \in Generations /\ Open(told[pending.gen]) /\ ~loadFinished
      BY <2>2, NavigationAssumption DEF Inv, PendingInv, TypeOK, Pending, Generations, Open
    <3> QED
      BY <3>1, OverIsOver
  <2> QED
    BY <2>1, <2>2
<1> QED
  BY <1>1, <1>2 DEF EveryNavigationIsTold

(* A commit shows the document of the navigation that is the latest and    *)
(* still open.                                                             *)
LEMMA LatestCommits ==
  ASSUME Inv, NEW g, NEW op, NEW below, IsPending(g), Commit(g, op, below)
  PROVE  doc'.gen = generation /\ ~IsOver(doc'.gen)
<1>1. pending # NoNavigation /\ doc'.gen = g /\ g = pending.gen
  BY DEF IsPending, Commit, NoNavigation
<1>2. g = generation /\ g \in Generations /\ Open(told[g])
  BY <1>1, NavigationAssumption DEF Inv, PendingInv, TypeOK, Pending, Generations, Open, IsPending
<1> QED
  BY <1>1, <1>2, OverIsOver

LEMMA NextShowsTheLatest ==
  ASSUME Inv, [Next]_vars, doc'.gen # doc.gen, alive'
  PROVE  doc'.gen = generation /\ ~IsOver(doc'.gen)
<1>1. doc' # doc /\ doc' # [doc EXCEPT !.loading = FALSE]
  BY DocTyped
<1>2. CASE Returns
  <2>1. CASE StartedReturns
    <3>1. IsPending(Top.gen) /\ Commit(Top.gen, "html", Rest)
      BY <1>1, <2>1 DEF StartedReturns
    <3> QED
      BY <3>1, LatestCommits
  <2>2. CASE FetchingReturns \/ HookReturns
    <3>1. PICK op : IsPending(Top.gen) /\ Commit(Top.gen, op, Rest)
      BY <1>1, <2>2, Zenon DEF FetchingReturns, HookReturns, Delivered
    <3> QED
      BY <3>1, LatestCommits
  <2>3. CASE SupersedingReturns \/ CommittingReturns \/ CommittedReturns \/ JustReturns
             \/ StoppingReturns \/ AskingReturns \/ TraversingReturns \/ FinishingReturns
    BY <1>1, <2>3, Zenon DEF SupersedingReturns, CommittingReturns, CommittedReturns, JustReturns,
       StoppingReturns, AskingReturns, TraversingReturns, FinishingReturns
  <2> QED
    BY <1>2, <2>1, <2>2, <2>3 DEF Returns
<1>3. CASE Loop
  <2>1. CASE DocumentLoads
    BY <1>1, <2>1 DEF DocumentLoads
  <2>2. ASSUME NEW g \in Generations, DoCommit(g) PROVE doc'.gen = generation /\ ~IsOver(doc'.gen)
    <3>1. IsPending(g) /\ Commit(g, "page", stack)
      BY <1>1, <2>2 DEF DoCommit
    <3> QED
      BY <3>1, LatestCommits
  <2>3. ASSUME NEW g \in Generations, FetchCompletes(g) PROVE FALSE
    BY <1>1, <2>3 DEF FetchCompletes
  <2> QED
    BY <1>3, <2>1, <2>2, <2>3 DEF Loop
<1>4. CASE UNCHANGED vars
  BY <1>1, <1>4 DEF vars
<1>5. CASE \/ \E op \in Ops \ {"page"} : HostNavigates(op)
           \/ CancelNavigation \/ StopLoading \/ LoadUnhandled \/ DestroyView
           \/ PageNavigates \/ PageTraverses
  BY <1>1, <1>5, Zenon DEF HostNavigates, CancelNavigation, StopLoading, LoadUnhandled,
     DestroyView, PageNavigates, PageTraverses
<1> QED
  BY <1>2, <1>3, <1>4, <1>5 DEF Next

LEMMA InductiveInvariant == Spec => []Inv
<1>1. Init => Inv
  BY InitInv
<1>2. Inv /\ [Next]_vars => Inv'
  BY NextInv
<1> QED
  BY <1>1, <1>2, PTL DEF Spec

(* Every navigation hears of its start, of its commit if there is one, and *)
(* of one end, in this order; and one that has not heard of its end is the *)
(* pending one: for any number of navigations, nested in each other's      *)
(* callbacks to any depth.                                                 *)
THEOREM NavigationsAreTold == Spec => [](TypeOK /\ EveryNavigationIsTold)
<1>1. Inv => TypeOK /\ EveryNavigationIsTold
  BY InvTells DEF Inv
<1> QED
  BY <1>1, InductiveInvariant, PTL

(* A document that replaces another is of the latest navigation, and of    *)
(* one that has not heard of its end.                                      *)
THEOREM TheLatestCommits == Spec => OnlyTheLatestCommits
<1>1. Inv /\ [Next]_vars =>
        [doc'.gen # doc.gen /\ alive' => doc'.gen = generation /\ ~IsOver(doc'.gen)]_vars
  BY NextShowsTheLatest
<1> QED
  BY <1>1, InductiveInvariant, PTL DEF Spec, OnlyTheLatestCommits

------------------------------------------------------------------------------
(* The two histories.                                                      *)
VisitedEntries == [url : Nat \ {0}, visit : Nat \ {0}]

(* Both lists are of what was visited.                                     *)
EntriesOK ==
  /\ visits \in Nat
  /\ entries \in Seq(VisitedEntries) /\ index \in 0 .. Len(entries)
  /\ index = 0 => entries = <<>>

ItemsOK ==
  /\ items \in Seq(VisitedEntries) /\ cursor \in 0 .. Len(items)
  /\ shown.visit # 0 => shown \in VisitedEntries
  /\ task = [kind |-> task.kind, entry |-> task.entry, before |-> task.before]
  /\ task.kind \in History!Loading => task.entry \in VisitedEntries

IsAt(n) == n # 0 => entries[n].visit = shown.visit

(* What the task in progress, or a page's traversal that failed, left in   *)
(* the flags.                                                              *)
FlagsOK ==
  /\ replacing => task.kind \in {"replace", "returning"}
  /\ task.kind = "replace" => replacing
  /\ task.kind = "reload" => reloading /\ task.entry = shown
  /\ inHistoryNav => task.kind \in {"traverse", "page_traverse", "traversed"} \/ failed
  /\ historyUrl # History!NoUrl => task.kind = "page_traverse" \/ failed

HostTraversal ==
  /\ task.kind = "traverse" =>
       inHistoryNav /\ index # 0 /\ task.entry = entries[index]
  /\ task.kind = "traverse" \/ (task.kind = "traversed" /\ inHistoryNav) =>
       task.before \in DOMAIN entries /\ (~astray => IsAt(task.before))

PageTraversal ==
  task.kind = "page_traverse" => inHistoryNav /\ historyUrl = task.entry.url

HistoryInv ==
  /\ EntriesOK /\ ItemsOK /\ FlagsOK /\ HostTraversal /\ PageTraversal
  /\ task.kind = "traverse" \/ (task.kind = "traversed" /\ inHistoryNav) \/ astray \/ IsAt(index)

(* All but the last of r are entries of list.                              *)
Continues(r, list) ==
  \E k \in Nat : \A i \in 1 .. Len(r) - 1 : k + i \in DOMAIN list /\ r[i] = list[k + i]

(* A list that records an entry has it last, after some of what it had.    *)
LEMMA RecordedLast ==
  ASSUME NEW list \in Seq(VisitedEntries), NEW at \in 0 .. Len(list), NEW e \in VisitedEntries,
         NEW r, r = History!Recorded(list, at, e)
  PROVE  /\ r \in Seq(VisitedEntries) /\ Len(r) > 0 /\ r[Len(r)] = e
         /\ Continues(r, list)
<1> DEFINE s == SubSeq(list, 1, at)
           a == Append(s, e)
<1>1. /\ s \in Seq(VisitedEntries) /\ Len(s) = at
      /\ \A i \in 1 .. at : i \in DOMAIN list /\ s[i] = list[i]
  OBVIOUS
<1> HIDE DEF s
<1>2. /\ a \in Seq(VisitedEntries) /\ Len(a) = at + 1 /\ a[at + 1] = e
      /\ \A i \in 1 .. at : i \in DOMAIN list /\ a[i] = list[i]
  BY <1>1
<1>3. r = History!Capped(a)
  BY DEF History!Recorded, s, a
<1> HIDE DEF a
<1>4. CASE Len(a) <= MaxEntries
  <2>1. r = a
    BY <1>2, <1>3, <1>4, AccountsAssumption DEF History!Capped
  <2>2. \A i \in 1 .. Len(r) - 1 : 0 + i \in DOMAIN list /\ r[i] = list[0 + i]
    BY <1>2, <2>1
  <2>3. Continues(r, list)
    <3>1. 0 \in Nat
      OBVIOUS
    <3> QED
      BY <2>2, <3>1, Zenon DEF Continues
  <2>4. Len(r) > 0 /\ r[Len(r)] = e
    BY <1>2, <2>1
  <2> QED
    BY <1>2, <2>1, <2>3, <2>4
<1>5. CASE Len(a) > MaxEntries
  <2> DEFINE d == Len(a) - MaxEntries
  <2>1. r = SubSeq(a, d + 1, Len(a))
    BY <1>2, <1>3, <1>5, AccountsAssumption DEF History!Capped, History!LastOf
  <2>2. /\ r \in Seq(VisitedEntries) /\ Len(r) = MaxEntries
        /\ \A i \in 1 .. MaxEntries : r[i] = a[d + i]
    BY <1>2, <1>5, <2>1, AccountsAssumption
  <2>3. d \in Nat /\ \A i \in 1 .. Len(r) - 1 : d + i \in DOMAIN list /\ r[i] = list[d + i]
    <3> SUFFICES ASSUME NEW i \in 1 .. Len(r) - 1 PROVE d + i \in DOMAIN list /\ r[i] = list[d + i]
      BY <1>2, <1>5, AccountsAssumption
    <3>1. d + i \in 1 .. at /\ r[i] = a[d + i]
      BY <1>2, <1>5, <2>2, AccountsAssumption
    <3> QED
      BY <1>2, <3>1
  <2>4. r[Len(r)] = e
    BY <1>2, <1>5, <2>2, AccountsAssumption
  <2>5. Continues(r, list)
    <3> HIDE DEF d
    <3> QED
      BY <2>3, Zenon DEF Continues
  <2>6. Len(r) > 0
    BY <2>2, AccountsAssumption
  <2> QED
    BY <2>2, <2>4, <2>5, <2>6, Zenon
<1> QED
  BY <1>2, <1>4, <1>5, AccountsAssumption

(* The least place of a URL is one of its places.                          *)
LEMMA LeastPlace ==
  ASSUME NEW S, S \subseteq Nat, S # {}
  PROVE  \E i \in S : \A j \in S : i <= j
<1> DEFINE R == {ss \in Nat \X Nat : ss[1] < ss[2]}
<1>1. IsWellFoundedOn(R, Nat)
  BY NatLessThanWellFounded, Zenon DEF OpToRel
<1>2. PICK i \in S : \A j \in S : ~(<<j, i>> \in R)
  <2> HIDE DEF R
  <2> QED
    BY <1>1, WFMin, Zenon
<1>3. ASSUME NEW j \in S, j < i PROVE FALSE
  <2>1. <<j, i>> \in Nat \X Nat /\ <<j, i>>[1] < <<j, i>>[2]
    BY <1>3
  <2> QED
    BY <1>2, <2>1, Zenon
<1> QED
  BY <1>3

LEMMA IndexIsAPlace ==
  ASSUME NEW list \in Seq(VisitedEntries), NEW u, NEW otherwise
  PROVE  \/ /\ History!IndexOfUrl(list, u, otherwise) \in DOMAIN list
            /\ list[History!IndexOfUrl(list, u, otherwise)].url = u
         \/ /\ History!IndexOfUrl(list, u, otherwise) = otherwise
            /\ \A i \in DOMAIN list : list[i].url # u
<1> DEFINE places == {i \in DOMAIN list : list[i].url = u}
<1>1. places \subseteq Nat
  OBVIOUS
<1>2. ASSUME places # {}
      PROVE  (CHOOSE i \in places : \A j \in places : i <= j) \in places
  <2>1. \E i \in places : \A j \in places : i <= j
    BY <1>1, <1>2, LeastPlace
  <2> QED
    BY <2>1, Zenon
<1>3. CASE places = {}
  BY <1>3 DEF History!IndexOfUrl
<1>4. CASE places # {}
  BY <1>2, <1>4 DEF History!IndexOfUrl
<1> QED
  BY <1>3, <1>4

LEMMA HistoryInit == ASSUME History!Init PROVE HistoryInv
<1>1. /\ entries = <<>> /\ index = 0 /\ items = <<>> /\ cursor = 0 /\ visits = 0
      /\ ~inHistoryNav /\ historyUrl = History!NoUrl /\ ~replacing
      /\ shown.visit = 0 /\ task.kind = "idle"
  BY DEF History!Init, History!Idle, History!Entry
<1>2. task = [kind |-> task.kind, entry |-> task.entry, before |-> task.before]
  BY DEF History!Init, History!Idle
<1>3. EntriesOK /\ ItemsOK
  BY <1>1, <1>2 DEF EntriesOK, ItemsOK, History!Loading
<1> QED
  BY <1>1, <1>3 DEF HistoryInv, IsAt, FlagsOK, HostTraversal, PageTraversal

(* The page's list after a commit.                                         *)
LEMMA PageRecorded ==
  ASSUME EntriesOK, ItemsOK, History!PageRecords(task.entry), task.entry \in VisitedEntries,
         task'.kind \notin History!Loading, shown' = task.entry,
         task' = [kind |-> task'.kind, entry |-> task'.entry, before |-> task'.before]
  PROVE  ItemsOK'
<1>1. items' \in Seq(VisitedEntries) /\ cursor' \in 0 .. Len(items')
  <2>1. CASE suppressed
    BY <2>1 DEF History!PageRecords, ItemsOK
  <2>2. CASE ~suppressed
    <3>1. items' = History!Recorded(items, cursor, task.entry) /\ cursor' = Len(items')
      BY <2>2 DEF History!PageRecords
    <3>2. items' \in Seq(VisitedEntries)
      BY <3>1, RecordedLast DEF ItemsOK
    <3> QED
      BY <3>1, <3>2
  <2> QED
    BY <2>1, <2>2
<1>2. shown'.visit # 0 => shown' \in VisitedEntries
  OBVIOUS
<1> QED
  BY <1>1, <1>2 DEF ItemsOK

(* The host's list after a commit that appends.                            *)
LEMMA CommitAppends ==
  ASSUME EntriesOK, task.entry \in VisitedEntries,
         entries' = History!Recorded(entries, index, task.entry), index' = Len(entries'),
         visits' = visits, shown' = task.entry
  PROVE  /\ EntriesOK' /\ IsAt(index)' /\ index' # 0 /\ entries'[index'] = task.entry
         /\ index = 0 => index' = 1
<1>r. /\ entries' \in Seq(VisitedEntries) /\ Len(entries') > 0
      /\ entries'[Len(entries')] = task.entry
      /\ Continues(entries', entries)
  <2>1. entries \in Seq(VisitedEntries) /\ index \in 0 .. Len(entries)
    BY DEF EntriesOK
  <2>2. task.entry \in VisitedEntries /\ entries' = History!Recorded(entries, index, task.entry)
    OBVIOUS
  <2> QED
    BY ONLY <2>1, <2>2, RecordedLast, SMTT(60)
<1>1. EntriesOK' /\ IsAt(index)' /\ index' # 0 /\ entries'[index'] = task.entry
  BY <1>r DEF EntriesOK, IsAt
<1>2. ASSUME index = 0 PROVE index' = 1
  <2>0. PICK k \in Nat : \A i \in 1 .. Len(entries') - 1 :
                           k + i \in DOMAIN entries /\ entries'[i] = entries[k + i]
    BY <1>r DEF Continues
  <2>1. DOMAIN entries = {}
    BY <1>2 DEF EntriesOK
  <2>2. 1 \notin 1 .. Len(entries') - 1
    BY <2>0, <2>1
  <2>3. Len(entries') \in Nat /\ Len(entries') > 0
    BY <1>r
  <2>4. \A n \in Nat : n > 0 /\ 1 \notin 1 .. n - 1 => n = 1
    OBVIOUS
  <2> QED
    BY <2>2, <2>3, <2>4
<1> QED
  BY <1>1, <1>2

(* What a commit makes of the host's list.                                 *)
LEMMA HostRecorded ==
  ASSUME HistoryInv, task.kind \in History!Loading, History!HostRecords(task.entry),
         shown' = task.entry, UNCHANGED <<replacing, visits>>
  PROVE  /\ EntriesOK' /\ ~inHistoryNav' 
         /\ historyUrl' # History!NoUrl => failed /\ ~inHistoryNav
         /\ \/ History!IsMisplaced(task.entry)
            \/ astray /\ task.kind = "reload" /\ History!IsCurrentUrl(task.entry)
            \/ IsAt(index)'
         /\ ~History!IsMisplaced(task.entry) =>
              CASE task.kind = "navigate" ->
                     entries' = History!Recorded(entries, index, task.entry)
                [] task.kind = "replace"  ->
                     /\ index' = IF index = 0 THEN 1 ELSE index
                     /\ entries'[index'] = task.entry
                     /\ index > 0 => Len(entries') = Len(entries)
                [] task.kind = "reload"   ->
                     History!IsCurrentUrl(task.entry) => UNCHANGED <<entries, index>>
                [] OTHER ->
                     /\ entries' = entries
                     /\ index' \in DOMAIN entries /\ entries[index'].visit = task.entry.visit
<1>0. /\ task.kind \in {"navigate", "replace", "reload", "traverse", "page_traverse"}
      /\ task.entry \in VisitedEntries /\ task.entry.url # History!NoUrl
      /\ EntriesOK /\ entries \in Seq(VisitedEntries)
      /\ index \in 0 .. Len(entries) /\ (index \in DOMAIN entries <=> index # 0)
  BY DEF History!Loading, HistoryInv, EntriesOK, ItemsOK, VisitedEntries, History!NoUrl
<1>1. CASE inHistoryNav
  <2>1. /\ ~inHistoryNav' /\ historyUrl' = History!NoUrl /\ entries' = entries
        /\ index' = IF historyUrl = History!NoUrl THEN index
                    ELSE History!IndexOfUrl(entries, historyUrl, index)
    BY <1>1 DEF History!HostRecords, History!IsTraversal
  <2>2. index' = index \/ index' \in DOMAIN entries
    BY <1>0, <2>1, IndexIsAPlace
  <2>3. EntriesOK'
    BY <1>0, <2>1, <2>2 DEF EntriesOK
  <2>4. CASE History!IsMisplaced(task.entry)
    BY <2>1, <2>3, <2>4
  <2>5. CASE ~History!IsMisplaced(task.entry)
    <3>1. task.kind = "traverse" \/ task.kind = "page_traverse"
      <4>1. task.kind \in {"traverse", "page_traverse", "traversed"} \/ failed
        BY <1>1 DEF HistoryInv, FlagsOK
      <4>2. task.kind = "page_traverse" \/ ~failed
        BY <2>5 DEF History!IsMisplaced
      <4> QED
        BY <1>0, <4>1, <4>2
    <3>2. index' \in DOMAIN entries /\ entries[index'].visit = task.entry.visit
      <4>1. CASE task.kind = "traverse"
        <5>1. historyUrl = History!NoUrl
          BY <2>5, <4>1 DEF History!IsMisplaced, HistoryInv, FlagsOK
        <5> QED
          BY <1>0, <2>1, <4>1, <5>1 DEF HistoryInv, HostTraversal
      <4>2. CASE task.kind = "page_traverse"
        <5>1. historyUrl = task.entry.url /\ History!IsKnownByUrl(task.entry)
          BY <2>5, <4>2 DEF History!IsMisplaced, HistoryInv, PageTraversal
        <5>2. index' = History!IndexOfUrl(entries, task.entry.url, index)
          BY <1>0, <2>1, <5>1
        <5>3. index' \in DOMAIN entries /\ entries[index'].url = task.entry.url
          BY <1>0, <5>1, <5>2, IndexIsAPlace DEF History!IsKnownByUrl
        <5> QED
          BY <5>1, <5>3 DEF History!IsKnownByUrl
      <4> QED
        BY <3>1, <4>1, <4>2
    <3> QED
      BY <2>1, <2>3, <3>1, <3>2 DEF IsAt
  <2> QED
    BY <2>4, <2>5
<1>2. CASE ~inHistoryNav
  <2>1. /\ task.kind \in {"navigate", "replace", "reload"}
        /\ UNCHANGED <<inHistoryNav, historyUrl>>
        /\ task.kind = "replace" <=> replacing
        /\ historyUrl # History!NoUrl => failed
    BY <1>0, <1>2 DEF HistoryInv, FlagsOK, HostTraversal, PageTraversal, History!HostRecords,
                      History!IsTraversal
  <2>2. CASE History!IsReload(task.entry)
    <3>1. UNCHANGED <<entries, index>> /\ History!IsCurrentUrl(task.entry) /\ reloading
      BY <1>0, <1>2, <2>2 DEF History!HostRecords, History!IsTraversal, History!IsReload,
                              History!IsCurrentUrl
    <3>2. EntriesOK'
      BY <1>0, <3>1 DEF EntriesOK
    <3>3. CASE task.kind = "reload"
      <4>1. task.entry = shown
        BY <3>3 DEF HistoryInv, FlagsOK
      <4>2. astray \/ IsAt(index)'
        BY <3>1, <3>3, <4>1 DEF HistoryInv, IsAt
      <4> QED
        BY <1>2, <2>1, <3>1, <3>2, <3>3, <4>2
    <3>4. CASE task.kind # "reload"
      <4>1. History!IsMisplaced(task.entry)
        BY <2>1, <3>1, <3>4 DEF History!IsMisplaced
      <4> QED
        BY <1>2, <2>1, <3>2, <4>1
    <3> QED
      BY <3>3, <3>4
  <2>3. CASE ~History!IsReload(task.entry) /\ replacing /\ index # 0
    <3>1. entries' = [entries EXCEPT ![index] = task.entry] /\ index' = index
      BY <1>0, <1>2, <2>3 DEF History!HostRecords, History!IsTraversal
    <3>2. /\ entries' \in Seq(VisitedEntries) /\ Len(entries') = Len(entries)
          /\ entries'[index] = task.entry
      BY <1>0, <2>3, <3>1
    <3>3. EntriesOK' /\ IsAt(index)'
      BY <1>0, <2>3, <3>1, <3>2 DEF EntriesOK, IsAt
    <3> QED
      BY <1>2, <2>1, <2>3, <3>1, <3>2, <3>3
  <2>4. CASE ~History!IsReload(task.entry) /\ ~(replacing /\ index # 0)
    <3>1. entries' = History!Recorded(entries, index, task.entry) /\ index' = Len(entries')
      BY <1>0, <1>2, <2>4 DEF History!HostRecords, History!IsTraversal
    <3>2. /\ EntriesOK' /\ IsAt(index)' /\ index' # 0 /\ entries'[index'] = task.entry
          /\ index = 0 => index' = 1
      BY <1>0, <3>1, CommitAppends
    <3>3. task.kind = "reload" => ~History!IsCurrentUrl(task.entry)
      BY <1>0, <2>4 DEF HistoryInv, FlagsOK, History!IsReload, History!IsCurrentUrl
    <3>4. task.kind = "replace" => index = 0 /\ index' = 1
      BY <2>1, <2>4, <3>2
    <3> QED
      BY <1>2, <2>1, <3>1, <3>2, <3>3, <3>4
  <2> QED
    BY <2>2, <2>3, <2>4
<1> QED
  BY <1>1, <1>2

LEMMA CommitKeepsHistory ==
  ASSUME HistoryInv, History!Commits PROVE HistoryInv' /\ History!RecordedAsWhatItIs
<1>0. /\ task.kind \in History!Loading /\ History!HostRecords(task.entry) /\ shown' = task.entry
      /\ History!PageRecords(task.entry)
      /\ UNCHANGED <<replacing, visits>>
      /\ failed' = (failed /\ ~inHistoryNav)
      /\ astray' = (History!IsMisplaced(task.entry)
                    \/ (astray /\ task.kind = "reload" /\ History!IsCurrentUrl(task.entry)))
  BY DEF History!Commits, History!DidCommit, History!IsTraversal
<1>1. /\ task'.kind = IF task.kind = "traverse" THEN "traversed" ELSE "returning"
      /\ task' = [kind |-> task'.kind, entry |-> task'.entry, before |-> task'.before]
  <2>1. CASE task.kind = "traverse"
    BY <2>1 DEF History!Commits, History!Loaded, HistoryInv, ItemsOK
  <2>2. CASE task.kind # "traverse"
    BY <2>2 DEF History!Commits, History!Loaded, History!Idle
  <2> QED
    BY <2>1, <2>2
<1>2. /\ EntriesOK' /\ ~inHistoryNav'
      /\ historyUrl' # History!NoUrl => failed /\ ~inHistoryNav
      /\ astray' \/ IsAt(index)'
  BY <1>0, HostRecorded
<1>3. ItemsOK'
  BY <1>0, <1>1, PageRecorded DEF HistoryInv, ItemsOK, History!Loading
<1>4. FlagsOK'
  BY <1>0, <1>1, <1>2 DEF HistoryInv, FlagsOK, History!Loading
<1>5. HostTraversal' /\ PageTraversal'
  BY <1>1, <1>2 DEF HostTraversal, PageTraversal
<1>6. History!RecordedAsWhatItIs
  BY <1>0, HostRecorded, Zenon DEF History!RecordedAsWhatItIs
<1> QED
  BY <1>2, <1>3, <1>4, <1>5, <1>6 DEF HistoryInv

LEMMA EntriesKept ==
  ASSUME EntriesOK, UNCHANGED entries, visits' \in Nat,
         index' = index \/ index' \in DOMAIN entries
  PROVE  EntriesOK'
<1>1. index' \in DOMAIN entries => index' \in 0 .. Len(entries) /\ index' # 0
  BY DEF EntriesOK
<1> QED
  BY <1>1 DEF EntriesOK

(* The typed parts, after a step that records nothing in either list.      *)
LEMMA ItemsKept ==
  ASSUME ItemsOK, UNCHANGED items, cursor' = cursor \/ cursor' \in DOMAIN items,
         shown' = shown \/ shown' \in VisitedEntries,
         task' = [kind |-> task'.kind, entry |-> task'.entry, before |-> task'.before],
         task'.kind \in History!Loading => task'.entry \in VisitedEntries
  PROVE  ItemsOK'
<1>1. cursor' \in DOMAIN items => cursor' \in 0 .. Len(items)
  BY DEF ItemsOK
<1> QED
  BY <1>1 DEF ItemsOK

LEMMA NavigateKeeps ==
  ASSUME HistoryInv, NEW u \in History!Urls, History!Navigate(u) \/ History!Replace(u)
  PROVE  HistoryInv'
<1>1. /\ task.kind = "idle" /\ visits' = visits + 1 /\ visits' \in Nat \ {0}
      /\ UNCHANGED <<entries, index, items, cursor, shown, inHistoryNav, historyUrl, failed, astray>>
      /\ \/ task'.kind = "navigate" /\ UNCHANGED replacing
         \/ task'.kind = "replace" /\ replacing'
      /\ task' = [kind |-> task'.kind, entry |-> task'.entry, before |-> task'.before]
      /\ task'.entry = History!Entry(u, visits')
  <2>1. visits \in Nat
    BY DEF HistoryInv, EntriesOK
  <2>2. CASE History!Navigate(u)
    <3>1. /\ task.kind = "idle" /\ visits' = visits + 1
          /\ UNCHANGED <<entries, index, items, cursor, shown, inHistoryNav, historyUrl, replacing,
                         failed, astray>>
      BY <2>2 DEF History!Navigate, History!IsIdle, History!lists, History!flags,
                  History!histories
    <3>2. task' = [kind |-> "navigate", entry |-> History!Entry(u, visits'), before |-> 0]
      BY <2>2 DEF History!Navigate, History!Idle
    <3> QED
      BY <2>1, <3>1, <3>2
  <2>3. CASE History!Replace(u)
    <3>1. /\ task.kind = "idle" /\ visits' = visits + 1 /\ replacing' = TRUE
          /\ UNCHANGED <<entries, index, items, cursor, shown, inHistoryNav, historyUrl,
                         failed, astray>>
      BY <2>3 DEF History!Replace, History!IsIdle, History!lists, History!histories
    <3>2. task' = [kind |-> "replace", entry |-> History!Entry(u, visits'), before |-> 0]
      BY <2>3 DEF History!Replace, History!Idle
    <3> QED
      BY <2>1, <3>1, <3>2
  <2> QED
    BY <2>2, <2>3
<1>2. task'.entry \in VisitedEntries
  BY <1>1 DEF VisitedEntries, History!Entry, History!Urls
<1>3. EntriesOK' /\ ItemsOK'
  BY <1>1, <1>2, EntriesKept, ItemsKept DEF HistoryInv
<1> QED
  BY <1>1, <1>3 DEF HistoryInv, FlagsOK, IsAt, HostTraversal, PageTraversal

LEMMA PushKeeps ==
  ASSUME HistoryInv, NEW u \in History!Urls, History!PushState(u)
  PROVE  HistoryInv'
<1> DEFINE e == History!Entry(u, shown.visit)
<1>1. /\ task.kind = "idle" /\ shown.visit # 0 /\ shown' = e
      /\ items' = History!Recorded(items, cursor, e) /\ cursor' = Len(items')
      /\ UNCHANGED <<entries, index, inHistoryNav, historyUrl, replacing, visits, task, failed, astray>>
  BY DEF History!PushState, History!IsIdle, History!flags, History!histories
<1>2. e \in VisitedEntries /\ e.visit = shown.visit
  BY <1>1 DEF HistoryInv, ItemsOK, VisitedEntries, History!Entry, History!Urls
<1>3. EntriesOK'
  BY <1>1, EntriesKept DEF HistoryInv, EntriesOK
<1>4. items' \in Seq(VisitedEntries)
  BY <1>1, <1>2, RecordedLast DEF HistoryInv, ItemsOK
<1>5. ItemsOK'
  <2>1. cursor' \in 0 .. Len(items')
    BY <1>1, <1>4
  <2> HIDE DEF e
  <2> QED
    BY <1>1, <1>2, <1>4, <2>1 DEF HistoryInv, ItemsOK
<1> HIDE DEF e
<1> QED
  BY <1>1, <1>2, <1>3, <1>5 DEF HistoryInv, FlagsOK, IsAt, HostTraversal, PageTraversal

LEMMA HostTraversesKeeps ==
  ASSUME HistoryInv, NEW t, History!HostTraverses(t)
  PROVE  HistoryInv'
<1>1. /\ task.kind = "idle" /\ t \in DOMAIN entries /\ index' = t /\ inHistoryNav'
      /\ task'.kind = "traverse" /\ task'.entry = entries[t] /\ task'.before = index
      /\ task' = [kind |-> task'.kind, entry |-> task'.entry, before |-> task'.before]
      /\ UNCHANGED <<entries, items, cursor, historyUrl, replacing, shown, visits, failed, astray>>
  BY DEF History!HostTraverses, History!IsIdle, History!histories
<1>2. /\ EntriesOK /\ entries \in Seq(VisitedEntries) /\ visits' \in Nat
      /\ index \in DOMAIN entries /\ t # 0
  BY <1>1 DEF HistoryInv, EntriesOK
<1>3. task'.entry \in VisitedEntries
  BY <1>1, <1>2
<1>4. EntriesOK' /\ ItemsOK'
  BY <1>1, <1>2, <1>3, EntriesKept, ItemsKept DEF HistoryInv
<1> QED
  BY <1>1, <1>2, <1>4 DEF HistoryInv, FlagsOK, IsAt, HostTraversal, PageTraversal

LEMMA PageTraversesKeeps ==
  ASSUME HistoryInv, NEW t, History!PageTraverses(t)
  PROVE  HistoryInv'
<1>1. /\ task.kind = "idle" /\ t \in DOMAIN items /\ cursor' = t
      /\ UNCHANGED <<entries, index, items, visits, failed, astray, replacing>>
  BY DEF History!PageTraverses, History!IsIdle, History!histories, History!flags
<1>2. EntriesOK'
  BY <1>1, EntriesKept DEF HistoryInv, EntriesOK
<1>3. items[t] \in VisitedEntries
  BY <1>1 DEF HistoryInv, ItemsOK
<1>4. CASE items[t].visit = shown.visit
  <2>1. shown' = items[t] /\ UNCHANGED <<inHistoryNav, historyUrl, task>>
    BY <1>4 DEF History!PageTraverses, History!flags
  <2>2. ItemsOK'
    <3>1. task' = [kind |-> task'.kind, entry |-> task'.entry, before |-> task'.before]
      BY <2>1 DEF HistoryInv, ItemsOK
    <3>2. task'.kind \notin History!Loading
      BY <1>1, <2>1 DEF History!Loading
    <3> QED
      BY <1>1, <1>3, <2>1, <3>1, <3>2, ItemsKept DEF HistoryInv
  <2> QED
    BY <1>1, <1>2, <1>4, <2>1, <2>2 DEF HistoryInv, FlagsOK, IsAt, HostTraversal, PageTraversal
<1>5. CASE items[t].visit # shown.visit
  <2>1. /\ inHistoryNav' /\ historyUrl' = items[t].url /\ UNCHANGED shown
        /\ task'.kind = "page_traverse" /\ task'.entry = items[t]
        /\ task' = [kind |-> task'.kind, entry |-> task'.entry, before |-> task'.before]
    BY <1>5 DEF History!PageTraverses, History!Idle
  <2>2. ItemsOK'
    BY <1>1, <1>3, <2>1, ItemsKept DEF HistoryInv
  <2> QED
    BY <1>1, <1>2, <2>1, <2>2 DEF HistoryInv, FlagsOK, IsAt, HostTraversal, PageTraversal
<1> QED
  BY <1>4, <1>5

LEMMA ReloadKeeps == ASSUME HistoryInv, History!Reload PROVE HistoryInv'
<1>1. /\ task.kind = "idle" /\ shown.visit # 0 /\ reloading'
      /\ task'.kind = "reload" /\ task'.entry = shown
      /\ task' = [kind |-> task'.kind, entry |-> task'.entry, before |-> task'.before]
      /\ UNCHANGED <<entries, index, items, cursor, inHistoryNav, historyUrl, replacing, shown,
                     visits, failed, astray>>
  BY DEF History!Reload, History!Idle, History!IsIdle, History!lists, History!histories
<1>2. EntriesOK' /\ ItemsOK'
  <2>1. visits' \in Nat /\ shown \in VisitedEntries
    BY <1>1 DEF HistoryInv, EntriesOK, ItemsOK
  <2> QED
    BY <1>1, <2>1, EntriesKept, ItemsKept DEF HistoryInv
<1> QED
  BY <1>1, <1>2 DEF HistoryInv, FlagsOK, IsAt, HostTraversal, PageTraversal

LEMMA FailsKeeps == ASSUME HistoryInv, History!Fails PROVE HistoryInv'
<1>1. /\ task.kind \in History!Loading \ {"replace"}
      /\ failed' = (failed \/ task.kind = "page_traverse")
      /\ UNCHANGED <<entries, index, items, cursor, inHistoryNav, historyUrl, replacing, shown,
                     visits, astray>>
  BY DEF History!Fails, History!lists, History!flags
<1>2. /\ task'.kind = IF task.kind = "traverse" THEN "traversed" ELSE "returning"
      /\ task.kind = "traverse" => task'.before = task.before
      /\ task' = [kind |-> task'.kind, entry |-> task'.entry, before |-> task'.before]
  <2>1. CASE task.kind = "traverse"
    BY <2>1 DEF History!Fails, History!Loaded, HistoryInv, ItemsOK
  <2>2. CASE task.kind # "traverse"
    BY <2>2 DEF History!Fails, History!Loaded, History!Idle
  <2> QED
    BY <2>1, <2>2
<1>3. EntriesOK' /\ ItemsOK'
  <2>1. visits' \in Nat /\ task'.kind \notin History!Loading
    BY <1>1, <1>2 DEF HistoryInv, EntriesOK, History!Loading
  <2> QED
    BY <1>1, <1>2, <2>1, EntriesKept, ItemsKept DEF HistoryInv
<1> QED
  BY <1>1, <1>2, <1>3
     DEF HistoryInv, FlagsOK, IsAt, HostTraversal, PageTraversal, History!Loading

LEMMA ReturnsKeep ==
  ASSUME HistoryInv, History!TraversalReturns \/ History!OperationReturns PROVE HistoryInv'
<1>1. /\ task'.kind = "idle" /\ UNCHANGED <<entries, items, historyUrl, shown, visits, failed, astray>>
      /\ task' = [kind |-> task'.kind, entry |-> task'.entry, before |-> task'.before]
  BY DEF History!TraversalReturns, History!OperationReturns, History!Idle, History!lists,
         History!histories
<1>2. CASE History!TraversalReturns
  <2>1. /\ task.kind = "traversed" /\ ~inHistoryNav' /\ UNCHANGED replacing
        /\ IF inHistoryNav THEN index' = task.before /\ UNCHANGED cursor
           ELSE /\ cursor' = History!IndexOfUrl(items, task.entry.url, cursor)
                /\ UNCHANGED index
    BY <1>2 DEF History!TraversalReturns
  <2>2. EntriesOK'
    <3>1. index' = index \/ index' \in DOMAIN entries
      BY <2>1 DEF HistoryInv, HostTraversal
    <3> QED
      BY <1>1, <3>1, EntriesKept DEF HistoryInv, EntriesOK
  <2>3. ItemsOK'
    <3>1. cursor' = cursor \/ cursor' \in DOMAIN items
      BY <2>1, IndexIsAPlace DEF HistoryInv, ItemsOK
    <3>2. task'.kind \notin History!Loading
      BY <1>1 DEF History!Loading
    <3> QED
      BY <1>1, <3>1, <3>2, ItemsKept DEF HistoryInv
  <2> QED
    BY <1>1, <2>1, <2>2, <2>3 DEF HistoryInv, FlagsOK, IsAt, HostTraversal, PageTraversal
<1>3. CASE History!OperationReturns
  <2>1. /\ task.kind = "returning" /\ ~replacing' /\ UNCHANGED <<index, cursor, inHistoryNav>>
    BY <1>3 DEF History!OperationReturns, History!lists
  <2>2. EntriesOK'
    BY <1>1, <2>1, EntriesKept DEF HistoryInv, EntriesOK
  <2>3. ItemsOK'
    <3>1. task'.kind \notin History!Loading
      BY <1>1 DEF History!Loading
    <3> QED
      BY <1>1, <2>1, <3>1, ItemsKept DEF HistoryInv
  <2> QED
    BY <1>1, <2>1, <2>2, <2>3 DEF HistoryInv, FlagsOK, IsAt, HostTraversal, PageTraversal
<1> QED
  BY <1>2, <1>3

LEMMA HistoryNext ==
  ASSUME HistoryInv, History!Next PROVE HistoryInv' /\ History!RecordedAsWhatItIs
<1>1. CASE History!Commits
  BY <1>1, CommitKeepsHistory
<1>2. CASE ~History!Commits
  <2>1. History!RecordedAsWhatItIs
    BY <1>2 DEF History!RecordedAsWhatItIs
  <2>2. HistoryInv'
    BY <1>2, NavigateKeeps, PushKeeps, HostTraversesKeeps, PageTraversesKeeps, ReloadKeeps,
       FailsKeeps, ReturnsKeep DEF History!Next
  <2> QED
    BY <2>1, <2>2
<1> QED
  BY <1>1, <1>2

LEMMA HistoryShows == ASSUME HistoryInv PROVE History!CursorIsAtTheDocument
  BY DEF HistoryInv, IsAt, History!CursorIsAtTheDocument, History!IsIdle

------------------------------------------------------------------------------
(* The traffic of views.                                                   *)
Counters    == [started : Nat, in_flight : Nat, retired : BOOLEAN]
LoadRecords == [by : Addresses \cup {None}, starting : SUBSET Addresses,
                counted : SUBSET Addresses, ends : BOOLEAN]

Direct(ctx, loads) ==
  {ctx[x] : x \in Views \cup Workers}
    \cup UNION {{loads[l].by} \cup loads[l].starting \cup loads[l].counted : l \in Loads}

(* Who is referred to, given the owners.                                   *)
Reached(ctx, own, att, loads) ==
  LET direct == Direct(ctx, loads)
  IN (direct \cup UNION {{own[a]} \cup Activity!ToSet(att[a]) : a \in direct \ {None}}) \ {None}

CountedBy(loads, a) == {l \in Loads : a \in loads[l].counted}

Contexts == [Views \cup Workers -> Addresses \cup {None}]

NetTyped ==
  /\ context \in Contexts
  /\ owner \in [Addresses -> Addresses \cup {None}]
  /\ attached \in [Addresses -> Seq(Addresses)]
  /\ activity \in [Addresses -> Counters \cup {None}]
  /\ load \in [Loads -> LoadRecords]

(* Counters acts are those of loads, of contexts somebody refers to.       *)
Counts(acts, loads, reached) ==
  \A a \in Addresses :
    /\ acts[a] = None => CountedBy(loads, a) = {}
    /\ acts[a] # None => /\ acts[a].in_flight = Cardinality(CountedBy(loads, a))
                         /\ acts[a].started > 0 /\ ~acts[a].retired
                         /\ a \in reached

NetInv ==
  /\ NetTyped
  /\ \A l \in Loads : load[l].starting \cap load[l].counted = {}
  /\ Counts(activity, load, Reached(context, owner, attached, load))

LEMMA NoneIsNoCounter == None \notin Counters
  BY AccountsAssumption DEF Counters

LEMMA ReferredReached ==
  ASSUME NEW ctx, NEW att, NEW loads
  PROVE  Activity!Referred(ctx, att, loads) = Reached(ctx, owner, att, loads)
  BY DEF Activity!Referred, Reached, Direct

LEMMA CountedFinite ==
  ASSUME NEW loads, NEW a
  PROVE  IsFiniteSet(CountedBy(loads, a)) /\ Cardinality(CountedBy(loads, a)) \in Nat
<1>1. CountedBy(loads, a) \subseteq Loads
  BY DEF CountedBy
<1> QED
  BY <1>1, FS_Subset, FS_CardinalityType, AccountsAssumption

LEMMA DirectTyped ==
  ASSUME NEW ctx \in Contexts, NEW loads \in [Loads -> LoadRecords]
  PROVE  Direct(ctx, loads) \subseteq Addresses \cup {None}
  BY DEF Direct, Contexts, LoadRecords

LEMMA ReachedIs ==
  ASSUME NEW ctx, NEW own, NEW att, NEW loads, NEW b
  PROVE  b \in Reached(ctx, own, att, loads)
           <=> /\ b # None
               /\ \/ b \in Direct(ctx, loads)
                  \/ \E a \in Direct(ctx, loads) \ {None} : b = own[a] \/ b \in Activity!ToSet(att[a])
  BY DEF Reached

(* Nobody refers any longer to a context: it takes no load with it.        *)
LEMMA Released ==
  ASSUME NetTyped, NEW ctx \in Contexts, NEW att \in [Addresses -> Seq(Addresses)],
         NEW loads \in [Loads -> LoadRecords], NEW acts \in [Addresses -> Counters \cup {None}],
         Counts(acts, loads, Reached(context, owner, attached, load)),
         Activity!Release(ctx, att, loads, acts)
  PROVE  /\ NetTyped' /\ Counts(activity', load', Reached(context', owner', attached', load'))
         /\ context' = ctx /\ load' = loads
         /\ \A a \in Addresses : a \in Direct(ctx, loads) => activity'[a] = acts[a]
<1> DEFINE old  == Reached(context, owner, attached, load)
           new  == Reached(ctx, owner, att, loads)
           gone == {a \in Addresses : a \in old /\ a \notin new}
<1>1. /\ context' = ctx /\ load' = loads
      /\ activity' = Activity!Forgotten(acts, gone)
      /\ attached' = [a \in Addresses |-> IF a \in gone THEN <<>> ELSE att[a]]
      /\ owner' = [a \in Addresses |-> IF a \in gone THEN None ELSE owner[a]]
  BY ReferredReached DEF Activity!Release
<1>2. \A a \in Direct(ctx, loads) \ {None} :
        a \in Addresses /\ a \in new /\ owner'[a] = owner[a] /\ attached'[a] = att[a]
  BY <1>1, DirectTyped, ReachedIs
<1>3. \A b : b \in Reached(context', owner', attached', load') <=> b \in new
  <2> SUFFICES ASSUME NEW b PROVE b \in Reached(context', owner', attached', load') <=> b \in new
    OBVIOUS
  <2>1. (\E a \in Direct(ctx, loads) \ {None} : b = owner'[a] \/ b \in Activity!ToSet(attached'[a]))
          <=> \E a \in Direct(ctx, loads) \ {None} : b = owner[a] \/ b \in Activity!ToSet(att[a])
    BY <1>2
  <2>2. b \in Reached(ctx, owner', attached', loads) <=> b \in new
    <3>1. PICK own, att2, own2 : own = owner' /\ att2 = attached' /\ own2 = owner
      OBVIOUS
    <3> QED
      BY <2>1, <3>1, ReachedIs
  <2> QED
    BY <1>1, <2>2
<1>4. ASSUME NEW a \in gone PROVE activity'[a] = None /\ CountedBy(loads, a) = {}
  <2>1. a # None /\ a \notin Direct(ctx, loads)
    BY <1>4, ReachedIs, AccountsAssumption
  <2>2. CountedBy(loads, a) = {}
    BY <2>1 DEF Direct, CountedBy
  <2>3. acts[a] = None \/ acts[a].in_flight = 0
    BY <2>2, FS_EmptySet DEF Counts
  <2> QED
    BY <1>1, <2>2, <2>3 DEF Activity!Forgotten
<1>5. ASSUME NEW a \in Addresses \ gone PROVE activity'[a] = acts[a]
  BY <1>1, <1>5 DEF Activity!Forgotten
<1>6. Counts(activity', load', Reached(context', owner', attached', load'))
  <2> SUFFICES ASSUME NEW a \in Addresses
               PROVE  /\ activity'[a] = None => CountedBy(loads, a) = {}
                      /\ activity'[a] # None =>
                           /\ activity'[a].in_flight = Cardinality(CountedBy(loads, a))
                           /\ activity'[a].started > 0 /\ ~activity'[a].retired
                           /\ a \in new
    BY <1>1, <1>3 DEF Counts
  <2>1. CASE a \in gone
    BY <1>4, <2>1
  <2>2. CASE a \notin gone
    BY <1>5, <2>2 DEF Counts
  <2> QED
    BY <2>1, <2>2
<1>7. NetTyped'
  <2>1. activity' \in [Addresses -> Counters \cup {None}]
    BY <1>1, <1>4, <1>5 DEF Activity!Forgotten
  <2> QED
    BY <1>1, <2>1 DEF NetTyped
<1>8. \A a \in Addresses : a \in Direct(ctx, loads) => activity'[a] = acts[a]
  BY <1>2, <1>5, AccountsAssumption
<1> QED
  BY <1>1, <1>6, <1>7, <1>8

LEMMA NetInit == ASSUME Activity!Init PROVE NetInv
<1>1. /\ NetTyped /\ \A l \in Loads : load[l].starting = {} /\ load[l].counted = {}
      /\ \A a \in Addresses : activity[a] = None
  BY DEF Activity!Init, Activity!Idle, NetTyped, Contexts, LoadRecords
<1> QED
  BY <1>1 DEF NetInv, Counts, CountedBy

(* More is referred to, and no load is counted.                            *)
LEMMA RefersToMore ==
  ASSUME NetInv, NetTyped', UNCHANGED activity,
         \A l \in Loads : /\ load'[l].starting \cap load'[l].counted = {}
                         /\ load'[l].counted = load[l].counted,
         Direct(context, load) \ {None} \subseteq Direct(context', load'),
         \A a \in Direct(context, load) \ {None} :
           owner'[a] = owner[a] /\ Activity!ToSet(attached[a]) \subseteq Activity!ToSet(attached'[a])
  PROVE  NetInv'
<1>1. \A a : CountedBy(load', a) = CountedBy(load, a)
  BY DEF CountedBy
<1>2. Reached(context, owner, attached, load) \subseteq Reached(context', owner', attached', load')
  BY DEF Reached
<1>3. Counts(activity', load', Reached(context', owner', attached', load'))
  BY <1>1, <1>2 DEF NetInv, Counts
<1> QED
  BY <1>3 DEF NetInv

LEMMA NetSame ==
  ASSUME NetInv, UNCHANGED <<context, owner, attached, load, activity>> PROVE NetInv'
<1>1. NetTyped'
  BY DEF NetInv, NetTyped
<1>2. Direct(context, load) = Direct(context', load')
  BY DEF Direct
<1>3. \A m \in Loads : load'[m].starting \cap load'[m].counted = {}
  BY DEF NetInv
<1> QED
  BY <1>1, <1>2, <1>3, RefersToMore

LEMMA NetCreates ==
  ASSUME NetInv, NEW v \in Views, NEW a \in Addresses, Activity!CreateView(v, a) PROVE NetInv'
<1>1. /\ context[v] = None /\ context' = [context EXCEPT ![v] = a] /\ context \in Contexts
      /\ UNCHANGED <<owner, attached, load, activity>>
  BY DEF Activity!CreateView, NetInv, NetTyped
<1>2. NetTyped'
  BY <1>1 DEF NetInv, NetTyped, Contexts
<1>3. Direct(context, load) \ {None} \subseteq Direct(context', load')
  BY <1>1 DEF Direct, Contexts
<1> QED
  BY <1>1, <1>2, <1>3, RefersToMore DEF NetInv

LEMMA NetStartsWorker ==
  ASSUME NetInv, NEW w \in Workers, NEW v \in Views, NEW a \in Addresses,
         Activity!StartWorker(w, v, a)
  PROVE  NetInv'
<1>1. /\ context[w] = None /\ context' = [context EXCEPT ![w] = a] /\ context \in Contexts
      /\ context[v] \in Addresses
      /\ owner' = [owner EXCEPT ![a] = context[v]] /\ attached' = [attached EXCEPT ![a] = <<context[v]>>]
      /\ UNCHANGED <<load, activity>>
  BY DEF Activity!StartWorker, NetInv, NetTyped, Contexts
<1>2. NetTyped'
  BY <1>1 DEF NetInv, NetTyped, Contexts
<1>3. Direct(context, load) \ {None} \subseteq Direct(context', load')
  BY <1>1 DEF Direct, Contexts
<1>4. a \notin Direct(context, load)
  BY ReferredReached, ReachedIs, AccountsAssumption
     DEF Activity!StartWorker, Activity!New, Activity!Free
<1>5. \A b \in Direct(context, load) \ {None} : owner'[b] = owner[b] /\ attached'[b] = attached[b]
  BY <1>1, <1>4, DirectTyped DEF NetInv, NetTyped
<1> QED
  BY <1>1, <1>2, <1>3, <1>5, RefersToMore DEF NetInv

LEMMA NetAddsClient ==
  ASSUME NetInv, NEW w \in Workers, NEW v \in Views, Activity!AddClient(w, v) PROVE NetInv'
<1>1. /\ context[w] \in Addresses /\ context[v] \in Addresses
      /\ attached' = [attached EXCEPT ![context[w]] = Append(@, context[v])]
      /\ UNCHANGED <<context, owner, load, activity>>
      /\ attached \in [Addresses -> Seq(Addresses)]
  BY DEF Activity!AddClient, NetInv, NetTyped, Contexts
<1>2. NetTyped'
  BY <1>1 DEF NetInv, NetTyped
<1>3. \A b \in Addresses : Activity!ToSet(attached[b]) \subseteq Activity!ToSet(attached'[b])
  <2> SUFFICES ASSUME NEW b \in Addresses, NEW n \in DOMAIN attached[b]
               PROVE  n \in DOMAIN attached'[b] /\ attached'[b][n] = attached[b][n]
    BY DEF Activity!ToSet
  <2> QED
    BY <1>1
<1>4. Direct(context, load) \subseteq Addresses \cup {None}
  BY DirectTyped DEF NetInv, NetTyped
<1> QED
  BY <1>1, <1>2, <1>3, <1>4, RefersToMore DEF NetInv

LEMMA ActivityContextsTyped ==
  ASSUME NetTyped, NEW a \in Addresses PROVE Activity!ActivityContexts(a) \subseteq Addresses
<1>1. \A n \in DOMAIN attached[a] : attached[a][n] \in Addresses
  BY DEF NetTyped
<1> QED
  BY <1>1 DEF Activity!ActivityContexts, Activity!ToSet

LEMMA NetStartsLoad ==
  ASSUME NetInv, NEW l \in Loads, NEW x \in Views \cup Workers, Activity!StartLoad(l, x) PROVE NetInv'
<1> DEFINE started == [Activity!Idle EXCEPT !.by = context[x],
                                            !.starting = Activity!ActivityContexts(context[x])]
<1>1. /\ load[l] = Activity!Idle /\ context[x] \in Addresses /\ load' = [load EXCEPT ![l] = started]
      /\ UNCHANGED <<context, owner, attached, activity>> /\ load \in [Loads -> LoadRecords]
  BY DEF Activity!StartLoad, NetInv, NetTyped, Contexts, Activity!contextVars
<1>2. started \in LoadRecords /\ started.counted = {}
  BY <1>1, ActivityContextsTyped DEF NetInv, LoadRecords, Activity!Idle
<1>3. load[l].by = None /\ load[l].starting = {} /\ load[l].counted = {}
  BY <1>1 DEF Activity!Idle
<1> HIDE DEF started
<1>4. NetTyped'
  BY <1>1, <1>2 DEF NetInv, NetTyped
<1>5. \A m \in Loads : /\ load'[m].starting \cap load'[m].counted = {}
                       /\ load'[m].counted = load[m].counted
  BY <1>1, <1>2, <1>3 DEF NetInv
<1>6. Direct(context, load) \ {None} \subseteq Direct(context', load')
  BY <1>1, <1>3 DEF Direct
<1> QED
  BY <1>1, <1>4, <1>5, <1>6, RefersToMore DEF NetInv

LEMMA NetEndsLoad ==
  ASSUME NetInv, NEW l \in Loads, Activity!EndLoad(l) PROVE NetInv'
<1>1. /\ load' = [load EXCEPT ![l].ends = TRUE] /\ load \in [Loads -> LoadRecords]
      /\ UNCHANGED <<context, owner, attached, activity>>
  BY DEF Activity!EndLoad, NetInv, NetTyped, Activity!contextVars
<1>2. /\ load' \in [Loads -> LoadRecords]
      /\ \A m \in Loads : /\ load'[m].starting = load[m].starting
                          /\ load'[m].counted = load[m].counted /\ load'[m].by = load[m].by
  BY <1>1 DEF LoadRecords
<1>3. NetTyped'
  BY <1>1, <1>2 DEF NetInv, NetTyped
<1>4. Direct(context, load) = Direct(context', load')
  BY <1>1, <1>2 DEF Direct
<1>5. \A m \in Loads : load'[m].starting \cap load'[m].counted = {}
  BY <1>2 DEF NetInv
<1> QED
  BY <1>1, <1>2, <1>3, <1>4, <1>5, RefersToMore

(* How many loads a context has seen start.                                *)
Starts(a) == IF activity[a] = None THEN 0 ELSE activity[a].started

LEMMA NetRequestStarts ==
  ASSUME NetInv, NEW l \in Loads, NEW a \in Addresses, Activity!RequestStarted(l, a)
  PROVE  /\ NetInv' /\ context' = context
         /\ \A c \in Addresses : Starts(c)' = Starts(c) + (IF c = a THEN 1 ELSE 0)
<1> DEFINE old == activity[a]
           fresh == old = None
           next == [started   |-> 1 + (IF fresh THEN 0 ELSE old.started),
                    in_flight |-> 1 + (IF fresh THEN 0 ELSE old.in_flight),
                    retired   |-> FALSE]
<1>1. /\ a \in load[l].starting /\ load \in [Loads -> LoadRecords]
      /\ load' = [load EXCEPT ![l].starting = @ \ {a}, ![l].counted = @ \cup {a}]
      /\ UNCHANGED <<context, owner, attached>>
      /\ activity \in [Addresses -> Counters \cup {None}]
  BY DEF Activity!RequestStarted, NetInv, NetTyped, Activity!contextVars
<1>2. old = None \/ (old \in Counters /\ ~old.retired)
  BY <1>1 DEF NetInv, Counts
<1>3. activity' = [activity EXCEPT ![a] = next]
  BY <1>2 DEF Activity!RequestStarted
<1>4. /\ load' \in [Loads -> LoadRecords]
      /\ \A m \in Loads : load'[m].by = load[m].by
      /\ \A m \in Loads : m # l => load'[m] = load[m]
      /\ load'[l].starting = load[l].starting \ {a}
      /\ load'[l].counted = load[l].counted \cup {a}
  BY <1>1 DEF LoadRecords
<1>5. /\ next \in Counters /\ next # None /\ ~next.retired
      /\ next.started = Starts(a) + 1
      /\ next.in_flight = (IF old = None THEN 0 ELSE old.in_flight) + 1
  <2>1. /\ (IF fresh THEN 0 ELSE old.started) \in Nat /\ (IF fresh THEN 0 ELSE old.in_flight) \in Nat
        /\ Starts(a) = IF fresh THEN 0 ELSE old.started
    BY <1>2 DEF Counters, Starts
  <2>2. next \in Counters
    BY <2>1 DEF Counters
  <2>3. next # None
    BY <2>2, NoneIsNoCounter
  <2> QED
    BY <2>1, <2>2, <2>3
<1> HIDE DEF next
<1>6. NetTyped'
  BY <1>1, <1>3, <1>4, <1>5 DEF NetInv, NetTyped
<1>7. \A m \in Loads : load'[m].starting \cap load'[m].counted = {}
  BY <1>1, <1>4 DEF NetInv
<1>8. Direct(context', load') = Direct(context, load)
  <2>1. \A m \in Loads : {load'[m].by} \cup load'[m].starting \cup load'[m].counted
                            = {load[m].by} \cup load[m].starting \cup load[m].counted
    BY <1>1, <1>4
  <2> QED
    BY <1>1, <2>1 DEF Direct
<1>9. Reached(context', owner', attached', load') = Reached(context, owner, attached, load)
  BY <1>1, <1>8 DEF Reached
<1>10. /\ a \in Reached(context, owner, attached, load) /\ l \notin CountedBy(load, a)
       /\ CountedBy(load', a) = CountedBy(load, a) \cup {l}
  <2>1. a \in Direct(context, load) /\ a # None
    BY <1>1, AccountsAssumption DEF Direct
  <2> QED
    BY <1>1, <1>4, <2>1, ReachedIs DEF CountedBy, NetInv
<1>11. next.in_flight = Cardinality(CountedBy(load', a))
  <2>1. (IF old = None THEN 0 ELSE old.in_flight) = Cardinality(CountedBy(load, a))
    BY FS_EmptySet DEF NetInv, Counts
  <2> QED
    BY <1>5, <1>10, <2>1, CountedFinite, FS_AddElement
<1>12. \A b \in Addresses : b # a => CountedBy(load', b) = CountedBy(load, b)
  BY <1>4 DEF CountedBy
<1>13. Counts(activity', load', Reached(context', owner', attached', load'))
  <2> SUFFICES ASSUME NEW b \in Addresses
               PROVE  /\ activity'[b] = None => CountedBy(load', b) = {}
                      /\ activity'[b] # None =>
                           /\ activity'[b].in_flight = Cardinality(CountedBy(load', b))
                           /\ activity'[b].started > 0 /\ ~activity'[b].retired
                           /\ b \in Reached(context, owner, attached, load)
    BY <1>9 DEF Counts
  <2>1. CASE b = a
    <3>1. Starts(a) \in Nat
      BY <1>2 DEF Starts, Counters
    <3> QED
      BY <1>1, <1>3, <1>5, <1>10, <1>11, <2>1, <3>1
  <2>2. CASE b # a
    BY <1>1, <1>3, <1>12, <2>2 DEF NetInv, Counts
  <2> QED
    BY <2>1, <2>2
<1>14. \A c \in Addresses : Starts(c)' = Starts(c) + (IF c = a THEN 1 ELSE 0)
  <2> SUFFICES ASSUME NEW c \in Addresses PROVE Starts(c)' = Starts(c) + (IF c = a THEN 1 ELSE 0)
    OBVIOUS
  <2>1. CASE c = a
    BY <1>1, <1>3, <1>5, <2>1 DEF Starts
  <2>2. CASE c # a
    <3>1. Starts(c) \in Nat
      BY <1>1 DEF Starts, Counters
    <3> QED
      BY <1>1, <1>3, <2>2, <3>1 DEF Starts
  <2> QED
    BY <2>1, <2>2
<1> QED
  BY <1>1, <1>6, <1>7, <1>13, <1>14 DEF NetInv

(* References go, and counters change that count no start.                 *)
LEMMA NetReleases ==
  ASSUME NetInv, NEW ctx \in Contexts, NEW att \in [Addresses -> Seq(Addresses)],
         NEW loads \in [Loads -> LoadRecords], NEW acts \in [Addresses -> Counters \cup {None}],
         Counts(acts, loads, Reached(context, owner, attached, load)),
         Activity!Release(ctx, att, loads, acts),
         \A m \in Loads : loads[m].starting \cap loads[m].counted = {}
  PROVE  /\ NetInv' /\ context' = ctx /\ load' = loads
         /\ \A x \in Views : ctx[x] # None => activity'[ctx[x]] = acts[ctx[x]]
<1>1. NetTyped
  BY DEF NetInv
<1>2. \A x \in Views : ctx[x] # None => ctx[x] \in Addresses /\ ctx[x] \in Direct(ctx, loads)
  BY DEF Contexts, Direct
<1> QED
  BY <1>1, <1>2, Released DEF NetInv

LEMMA NetDestroys ==
  ASSUME NetInv, NEW v \in Views, Activity!DestroyView(v)
  PROVE  /\ NetInv' /\ load' = load /\ context' = [context EXCEPT ![v] = None]
         /\ \A x \in Views \ {v} : context[x] # None => activity'[context[x]] = activity[context[x]]
<1>1. /\ context \in Contexts /\ [context EXCEPT ![v] = None] \in Contexts
      /\ attached \in [Addresses -> Seq(Addresses)] /\ load \in [Loads -> LoadRecords]
      /\ activity \in [Addresses -> Counters \cup {None}]
      /\ Counts(activity, load, Reached(context, owner, attached, load))
      /\ \A m \in Loads : load[m].starting \cap load[m].counted = {}
  BY DEF NetInv, NetTyped, Contexts
<1>2. Activity!Release([context EXCEPT ![v] = None], attached, load, activity)
  BY DEF Activity!DestroyView
<1>3. \A x \in Views \ {v} : [context EXCEPT ![v] = None][x] = context[x]
  BY <1>1 DEF Contexts
<1>4. /\ NetInv' /\ context' = [context EXCEPT ![v] = None] /\ load' = load
      /\ \A x \in Views : [context EXCEPT ![v] = None][x] # None =>
           activity'[[context EXCEPT ![v] = None][x]] = activity[[context EXCEPT ![v] = None][x]]
  BY <1>1, <1>2, NetReleases
<1> QED
  BY <1>3, <1>4

LEMMA NetClientGone ==
  ASSUME NetInv, NEW w \in Workers, NEW i \in 1 .. 2, Activity!OnClientGone(w, i)
  PROVE  /\ NetInv' /\ load' = load /\ \A x \in Views : context'[x] = context[x]
         /\ \A x \in Views : context[x] # None => activity'[context[x]] = activity[context[x]]
<1> DEFINE a == context[w]
           left == Activity!RemoveAt(attached[a], i)
           ctx == [context EXCEPT ![w] = IF left = <<>> THEN None ELSE a]
           att == [attached EXCEPT ![a] = left]
<1>1. /\ a \in Addresses /\ i \in DOMAIN attached[a] /\ context \in Contexts
      /\ attached \in [Addresses -> Seq(Addresses)] /\ load \in [Loads -> LoadRecords]
      /\ activity \in [Addresses -> Counters \cup {None}]
      /\ Counts(activity, load, Reached(context, owner, attached, load))
      /\ \A m \in Loads : load[m].starting \cap load[m].counted = {}
  BY DEF Activity!OnClientGone, NetInv, NetTyped, Contexts
<1>2. Activity!Release(ctx, att, load, activity)
  BY DEF Activity!OnClientGone
<1>3. left \in Seq(Addresses)
  <2>1. attached[a] \in Seq(Addresses)
    BY <1>1
  <2>2. SubSeq(attached[a], 1, i - 1) \in Seq(Addresses)
    BY <1>1, <2>1
  <2>3. SubSeq(attached[a], i + 1, Len(attached[a])) \in Seq(Addresses)
    BY <1>1, <2>1
  <2> QED
    BY <2>2, <2>3 DEF Activity!RemoveAt
<1>4. ctx \in Contexts /\ att \in [Addresses -> Seq(Addresses)]
  BY <1>1, <1>3 DEF Contexts
<1>5. \A x \in Views : ctx[x] = context[x]
  BY <1>1, AccountsAssumption DEF Contexts
<1> HIDE DEF ctx, att
<1>6. /\ NetInv' /\ context' = ctx /\ load' = load
      /\ \A x \in Views : ctx[x] # None => activity'[ctx[x]] = activity[ctx[x]]
  BY <1>1, <1>2, <1>4, NetReleases
<1> QED
  BY <1>5, <1>6

LEMMA NetRequestFinishes ==
  ASSUME NetInv, NEW l \in Loads, NEW a \in Addresses, Activity!RequestFinished(l, a)
  PROVE  /\ NetInv' /\ context' = context
         /\ \A m \in Loads : load'[m].counted \subseteq load[m].counted
         /\ \A x \in Views : context[x] # None => Starts(context[x])' = Starts(context[x])
<1> DEFINE old == activity[a]
           rest == IF load[l].counted \ {a} = {} THEN Activity!Idle
                   ELSE [load[l] EXCEPT !.counted = load[l].counted \ {a}]
           loads == [load EXCEPT ![l] = rest]
           left == [old EXCEPT !.in_flight = old.in_flight - 1]
           acts == [activity EXCEPT ![a] = left]
<1>1. /\ a \in load[l].counted /\ context \in Contexts
      /\ attached \in [Addresses -> Seq(Addresses)] /\ load \in [Loads -> LoadRecords]
      /\ activity \in [Addresses -> Counters \cup {None}]
      /\ Counts(activity, load, Reached(context, owner, attached, load))
      /\ \A m \in Loads : load[m].starting \cap load[m].counted = {}
  BY DEF Activity!RequestFinished, NetInv, NetTyped
<1>2. /\ old \in Counters /\ ~old.retired /\ old.in_flight = Cardinality(CountedBy(load, a))
      /\ old # None /\ l \in CountedBy(load, a)
  BY <1>1 DEF CountedBy, Counts
<1>3. /\ Cardinality(CountedBy(load, a) \ {l}) = old.in_flight - 1
      /\ Cardinality(CountedBy(load, a) \ {l}) \in Nat
  BY <1>2, CountedFinite, FS_RemoveElement, FS_CardinalityType
<1>4. Activity!Release(context, attached, loads, acts)
  <2>1. old.in_flight # 0 /\ ~(old.in_flight = 1 /\ old.retired)
    BY <1>2, <1>3 DEF Counters
  <2> QED
    BY <1>2, <2>1 DEF Activity!RequestFinished
<1>5. /\ left \in Counters /\ left # None /\ left.started = old.started /\ ~left.retired
      /\ left.in_flight = old.in_flight - 1
  BY <1>2, <1>3, AccountsAssumption DEF Counters
<1>6. /\ rest \in LoadRecords /\ rest.counted = load[l].counted \ {a}
      /\ rest.starting \cap rest.counted = {}
  BY <1>1 DEF LoadRecords, Activity!Idle
<1> HIDE DEF rest, left
<1>7. /\ loads \in [Loads -> LoadRecords]
      /\ \A m \in Loads : loads[m].starting \cap loads[m].counted = {}
      /\ \A m \in Loads : loads[m].counted \subseteq load[m].counted
  BY <1>1, <1>6
<1>8. /\ CountedBy(loads, a) = CountedBy(load, a) \ {l}
      /\ \A b \in Addresses : b # a => CountedBy(loads, b) = CountedBy(load, b)
  BY <1>1, <1>6 DEF CountedBy
<1>9. acts \in [Addresses -> Counters \cup {None}]
  BY <1>1, <1>5
<1>10. Counts(acts, loads, Reached(context, owner, attached, load))
  <2> SUFFICES ASSUME NEW b \in Addresses
               PROVE  /\ acts[b] = None => CountedBy(loads, b) = {}
                      /\ acts[b] # None =>
                           /\ acts[b].in_flight = Cardinality(CountedBy(loads, b))
                           /\ acts[b].started > 0 /\ ~acts[b].retired
                           /\ b \in Reached(context, owner, attached, load)
    BY DEF Counts
  <2>1. CASE b = a
    BY <1>1, <1>2, <1>3, <1>5, <1>8, <2>1 DEF Counts
  <2>2. CASE b # a
    BY <1>1, <1>8, <2>2 DEF Counts
  <2> QED
    BY <2>1, <2>2
<1> HIDE DEF loads, acts
<1>11. /\ NetInv' /\ context' = context /\ load' = loads
       /\ \A x \in Views : context[x] # None => activity'[context[x]] = acts[context[x]]
  BY <1>1, <1>4, <1>7, <1>9, <1>10, NetReleases
<1>12. \A b \in Addresses : acts[b] # activity[b] => b = a /\ acts[b] = left
  BY <1>1 DEF acts
<1>13. ASSUME NEW x \in Views, context[x] # None PROVE Starts(context[x])' = Starts(context[x])
  <2>1. context[x] \in Addresses
    BY <1>1, <1>13 DEF Contexts
  <2> QED
    BY <1>2, <1>5, <1>11, <1>12, <1>13, <2>1 DEF Starts
<1> QED
  BY <1>7, <1>11, <1>13

------------------------------------------------------------------------------
(* The wait of a host for the network of a view.                           *)
Seen == Starts(context[wait.view])
Loading == CountedBy(load, context[wait.view]) # {}

(* When the present window of quiet began.                                 *)
Since == wait.idle_deadline - IdleTime

WaitRecords ==
  [view : Views \cup {None}, pc : {"none", "pump", "started", "done"}, pumped : Nat,
   last_started : Nat, started : Nat, idle_deadline : Nat, hard_deadline : Nat, quiet : Nat,
   result : {"none", "idle", "timeout"}]

(* As long as no load started since the one before last look at what has   *)
(* started, none was under way later than a turn into the window; what has *)
(* started since then will be seen.                                        *)
Watches ==
  /\ wait.pumped <= MaxPump /\ 0 <= Since /\ Since <= now - wait.pumped
  /\ wait.last_started <= Seen
  /\ Seen = wait.last_started =>
       /\ busy <= Since + MaxPump
       /\ Loading => Since = now - wait.pumped
  /\ wait.pc = "started" =>
       /\ wait.last_started <= wait.started /\ wait.started <= Seen
       /\ wait.started = wait.last_started => wait.quiet >= now - Since - MaxPump

WaitInv ==
  /\ wait \in WaitRecords /\ now \in Nat /\ busy \in Nat /\ busy <= now
  /\ (wait.view = None) <=> (wait.pc = "none")
  /\ wait.view # None => context[wait.view] # None
  /\ wait.pc # "done" => wait.result = "none"
  /\ wait.pc \in {"pump", "started"} => Watches
  /\ wait.result = "idle" => wait.quiet >= IdleTime - MaxPump

LEMMA SeenTyped ==
  ASSUME NetTyped, wait \in WaitRecords, wait.view # None, context[wait.view] # None
  PROVE  context[wait.view] \in Addresses /\ Seen \in Nat
BY DEF NetTyped, Contexts, WaitRecords, Seen, Starts, Counters

LEMMA SeenIsStarted ==
  ASSUME NetInv, NEW v \in Views, context[v] # None
  PROVE  /\ Activity!Started(v) = Starts(context[v])
         /\ Activity!InFlight(v) \in Nat
         /\ (Activity!InFlight(v) > 0) <=> (CountedBy(load, context[v]) # {})
         /\ Activity!UnderWay(v, load) <=> CountedBy(load, context[v]) # {}
<1>1. context[v] \in Addresses
  BY DEF NetInv, NetTyped, Contexts
<1>2. Activity!UnderWay(v, load) <=> CountedBy(load, context[v]) # {}
  BY DEF Activity!UnderWay, CountedBy
<1>3. Activity!Started(v) = Starts(context[v])
  BY DEF Activity!Started, Starts
<1>4. CASE activity[context[v]] = None
  BY <1>1, <1>2, <1>3, <1>4 DEF Activity!InFlight, NetInv, Counts
<1>5. CASE activity[context[v]] # None
  <2>1. activity[context[v]].in_flight = Cardinality(CountedBy(load, context[v]))
    BY <1>1, <1>5 DEF NetInv, Counts
  <2>2. /\ Cardinality(CountedBy(load, context[v])) \in Nat
        /\ (Cardinality(CountedBy(load, context[v])) = 0) <=> (CountedBy(load, context[v]) = {})
    BY CountedFinite, FS_EmptySet
  <2> QED
    BY <1>2, <1>3, <1>5, <2>1, <2>2 DEF Activity!InFlight
<1> QED
  BY <1>4, <1>5

(* While the wait takes no step: a load that starts is seen.               *)
LEMMA WaitKept ==
  ASSUME NetInv, WaitInv, NetTyped', UNCHANGED <<wait, now>>, busy' \in {busy, now},
         wait.view # None =>
           /\ context'[wait.view] = context[wait.view]
           /\ Seen' >= Seen
           /\ Seen' = Seen => (Loading' => Loading) /\ (busy' = busy \/ Loading)
  PROVE  WaitInv'
<1>1. CASE wait.view = None
  BY <1>1 DEF WaitInv
<1>2. CASE wait.view # None
  <2>1. context'[wait.view] # None /\ context[wait.view] # None /\ wait \in WaitRecords
    BY <1>2 DEF WaitInv
  <2>2. Seen \in Nat /\ Seen' \in Nat
    <3>1. Seen \in Nat
      BY <1>2, <2>1, SeenTyped DEF NetInv
    <3>2. Seen' \in Nat
      BY <1>2, <2>1 DEF NetTyped, Contexts, WaitRecords, Seen, Starts, Counters
    <3> QED
      BY <3>1, <3>2
  <2>3. Since' = Since /\ Since \in Int
    BY <2>1, AccountsAssumption DEF Since, WaitRecords
  <2>4. Watches => Watches'
    <3> SUFFICES ASSUME Watches PROVE Watches'
      OBVIOUS
    <3>1. /\ wait.pumped \in Nat /\ wait.last_started \in Nat /\ wait.started \in Nat
          /\ wait.quiet \in Nat /\ now \in Nat /\ busy \in Nat /\ MaxPump \in Nat
      BY <2>1, AccountsAssumption DEF WaitInv, WaitRecords
    <3> QED
      BY <1>2, <2>2, <2>3, <3>1 DEF Watches
  <2> QED
    BY <2>1, <2>4 DEF WaitInv
<1> QED
  BY <1>1, <1>2

LEMMA WaitStarts ==
  ASSUME NetInv, WaitInv, NEW v \in Waits, Activity!WaitForNetworkIdle(v) PROVE WaitInv'
<1>1. /\ v \in Views /\ v # None /\ context[v] # None /\ now = 0 /\ wait.view = None
      /\ UNCHANGED <<context, activity, load, now>> /\ busy' = 0
      /\ IdleTime \in Nat /\ Timeout \in Nat /\ MaxPump \in Nat
  BY AccountsAssumption DEF Activity!WaitForNetworkIdle, Activity!contextVars
<1>2. Activity!Started(v) = Starts(context[v]) /\ Starts(context[v]) \in Nat
  BY <1>1, SeenIsStarted DEF NetInv, NetTyped, Contexts, Starts, Counters
<1>3. /\ wait' \in WaitRecords /\ wait'.view = v /\ wait'.pc = "pump" /\ wait'.pumped = 0
      /\ wait'.last_started = Starts(context[v]) /\ wait'.idle_deadline = IdleTime
      /\ wait'.result = "none"
  <2>1. 0 + IdleTime = IdleTime /\ 0 + Timeout = Timeout
    BY <1>1
  <2>2. wait' = [Activity!NotWaiting EXCEPT !.view = v, !.pc = "pump",
                   !.last_started = Starts(context[v]), !.idle_deadline = IdleTime,
                   !.hard_deadline = Timeout]
    BY <1>1, <1>2, <2>1 DEF Activity!WaitForNetworkIdle
  <2> QED
    BY <1>1, <1>2, <2>2 DEF Activity!NotWaiting, WaitRecords
<1>4. wait' \in WaitRecords
  BY <1>3
<1>5. Seen' = wait'.last_started /\ Since' = 0
  BY <1>1, <1>2, <1>3 DEF Seen, Since, Starts
<1>6. Watches'
  BY <1>1, <1>2, <1>3, <1>5 DEF Watches
<1> QED
  BY <1>1, <1>3, <1>4, <1>6 DEF WaitInv

LEMMA WaitTicks ==
  ASSUME NetInv, WaitInv, Activity!Tick PROVE WaitInv'
<1>1. /\ wait.pc = "pump" /\ wait.pumped < MaxPump /\ wait \in WaitRecords
      /\ now' = now + 1 /\ UNCHANGED <<context, activity, load>>
      /\ wait.view \in Views /\ context[wait.view] # None /\ now \in Nat /\ busy \in Nat
      /\ wait.view # None /\ wait.result = "none" /\ Watches /\ busy <= now
  BY DEF Activity!Tick, WaitInv, WaitRecords, Activity!contextVars
<1>2. /\ wait' \in WaitRecords /\ wait'.pumped = wait.pumped + 1 /\ wait'.pc = "pump"
      /\ wait'.view = wait.view /\ wait'.last_started = wait.last_started
      /\ wait'.idle_deadline = wait.idle_deadline /\ wait'.result = "none"
  BY <1>1 DEF Activity!Tick, WaitRecords
<1>3. /\ Seen' = Seen /\ Loading' = Loading /\ Since' = Since
  BY <1>1, <1>2 DEF Seen, Loading, Since, Starts, CountedBy
<1>4. busy' = IF Loading THEN now + 1 ELSE busy
  BY <1>1, SeenIsStarted DEF Activity!Tick, Loading
<1>5. Seen \in Nat /\ Since \in Int /\ MaxPump \in Nat /\ wait.pumped \in Nat
  BY <1>1, SeenTyped, AccountsAssumption DEF Since, WaitRecords, NetInv
<1>6. Watches'
  BY <1>1, <1>2, <1>3, <1>4, <1>5 DEF Watches
<1> QED
  BY <1>1, <1>2, <1>4, <1>6 DEF WaitInv

LEMMA WaitReads ==
  ASSUME NetInv, WaitInv, Activity!ReadStarted PROVE WaitInv'
<1>1. /\ wait.pc = "pump" /\ wait \in WaitRecords
      /\ UNCHANGED <<context, activity, load, now, busy>>
      /\ wait.view \in Views /\ context[wait.view] # None /\ now \in Nat /\ busy \in Nat
      /\ wait.view # None /\ wait.result = "none" /\ Watches /\ busy <= now
  BY DEF Activity!ReadStarted, WaitInv, WaitRecords, Activity!contextVars
<1>2. Seen \in Nat /\ Since \in Int /\ MaxPump \in Nat /\ wait.pumped \in Nat
  BY <1>1, SeenTyped, AccountsAssumption DEF Since, WaitRecords, NetInv
<1>3. Activity!Started(wait.view) = Seen
  BY <1>1, SeenIsStarted DEF Seen
<1>4. /\ wait' \in WaitRecords /\ wait'.pumped = wait.pumped /\ wait'.pc = "started"
      /\ wait'.view = wait.view /\ wait'.last_started = wait.last_started
      /\ wait'.started = Seen /\ wait'.quiet = now - busy
      /\ wait'.idle_deadline = wait.idle_deadline /\ wait'.result = "none"
  <2>1. PICK quiet \in Nat : quiet = now - busy
    BY <1>1
  <2>2. PICK seen \in Nat : seen = Seen
    BY <1>2
  <2>3. wait' = [wait EXCEPT !.pc = "started", !.started = seen, !.quiet = quiet]
    BY <1>1, <1>3, <2>1, <2>2 DEF Activity!ReadStarted
  <2> HIDE DEF Seen
  <2> QED
    BY <1>1, <2>1, <2>2, <2>3 DEF WaitRecords
<1>5. /\ Seen' = Seen /\ Loading' = Loading /\ Since' = Since
  BY <1>1, <1>4 DEF Seen, Loading, Since, Starts, CountedBy
<1>6. Watches'
  <2>1. Since' = Since /\ Seen' = Seen /\ (Loading' <=> Loading) /\ now' = now /\ busy' = busy
    BY <1>1, <1>5
  <2>2. wait.last_started = Seen => now - busy >= now - Since - MaxPump
    BY <1>1, <1>2 DEF Watches
  <2>3. /\ wait'.pumped <= MaxPump /\ 0 <= Since' /\ Since' <= now' - wait'.pumped
        /\ wait'.last_started <= Seen' /\ wait'.last_started <= wait'.started
        /\ wait'.started <= Seen'
    BY <1>1, <1>2, <1>4, <2>1 DEF Watches
  <2>4. Seen' = wait'.last_started =>
          /\ busy' <= Since' + MaxPump
          /\ Loading' => Since' = now' - wait'.pumped
    BY <1>1, <1>4, <2>1 DEF Watches
  <2>5. wait'.started = wait'.last_started => wait'.quiet >= now' - Since' - MaxPump
    BY <1>1, <1>4, <2>1, <2>2
  <2> QED
    BY <2>3, <2>4, <2>5 DEF Watches
<1> QED
  BY <1>1, <1>4, <1>6 DEF WaitInv

LEMMA WaitSamples ==
  ASSUME NetInv, WaitInv, Activity!Sample PROVE WaitInv'
<1> DEFINE deadline == IF Activity!Restarts THEN now + IdleTime ELSE wait.idle_deadline
<1>1. /\ wait.pc = "started" /\ wait \in WaitRecords
      /\ UNCHANGED <<context, activity, load, now, busy>>
      /\ wait.view \in Views /\ context[wait.view] # None /\ now \in Nat /\ busy \in Nat
      /\ wait.view # None /\ wait.result = "none" /\ Watches /\ busy <= now
  BY DEF Activity!Sample, WaitInv, WaitRecords, Activity!contextVars
<1>2. /\ Seen \in Nat /\ Since \in Int /\ MaxPump \in Nat /\ IdleTime \in Nat
      /\ wait.started \in Nat /\ wait.last_started \in Nat /\ wait.quiet \in Nat
      /\ wait.pumped \in Nat /\ wait.idle_deadline = Since + IdleTime
  BY <1>1, SeenTyped, AccountsAssumption DEF Since, WaitRecords, NetInv
<1>3. Activity!Restarts <=> wait.started # wait.last_started \/ Loading
  BY <1>1, SeenIsStarted DEF Activity!Restarts, Loading
<1>4. deadline \in Nat
  BY <1>1, <1>2 DEF WaitRecords
<1>5. CASE now >= deadline /\ deadline <= wait.hard_deadline
  <2>1. /\ wait' \in WaitRecords /\ wait'.pc = "done" /\ wait'.result = "idle"
        /\ wait'.view = wait.view /\ wait'.quiet = wait.quiet
    BY <1>1, <1>5 DEF Activity!Sample, WaitRecords
  <2>2. wait.quiet >= IdleTime - MaxPump
    BY <1>1, <1>2, <1>3, <1>5 DEF Watches
  <2> QED
    BY <1>1, <2>1, <2>2 DEF WaitInv
<1>6. CASE ~(now >= deadline /\ deadline <= wait.hard_deadline) /\ now >= wait.hard_deadline
  <2>1. /\ wait' \in WaitRecords /\ wait'.pc = "done" /\ wait'.result = "timeout"
        /\ wait'.view = wait.view
    BY <1>1, <1>6 DEF Activity!Sample, WaitRecords
  <2> QED
    BY <1>1, <2>1 DEF WaitInv
<1>7. CASE ~(now >= deadline /\ deadline <= wait.hard_deadline) /\ ~(now >= wait.hard_deadline)
  <2>1. wait' = [wait EXCEPT !.pc = "pump", !.pumped = 0, !.last_started = wait.started,
                             !.idle_deadline = deadline]
    BY <1>1, <1>7 DEF Activity!Sample
  <2> HIDE DEF deadline
  <2>2. /\ wait' \in WaitRecords /\ wait'.pc = "pump" /\ wait'.result = "none"
        /\ wait'.view = wait.view /\ wait'.pumped = 0 /\ wait'.last_started = wait.started
        /\ wait'.idle_deadline = deadline
    BY <1>1, <1>4, <2>1 DEF WaitRecords
  <2>3. /\ Seen' = Seen /\ Loading' = Loading /\ Since' = deadline - IdleTime
    BY <1>1, <2>2 DEF Seen, Loading, Since, Starts, CountedBy
  <2>4. deadline - IdleTime = IF wait.started # wait.last_started \/ Loading THEN now ELSE Since
    BY <1>1, <1>2, <1>3 DEF deadline
  <2>5. Watches'
    BY <1>1, <1>2, <2>2, <2>3, <2>4 DEF Watches
  <2> QED
    BY <1>1, <2>2, <2>5 DEF WaitInv
<1> QED
  BY <1>5, <1>6, <1>7

LEMMA LoadingSame ==
  ASSUME \A m \in Loads : load'[m].counted = load[m].counted,
         wait' = wait, context'[wait.view] = context[wait.view]
  PROVE  Loading' = Loading
BY DEF Loading, CountedBy

(* Steps that start and end no request.                                    *)
LEMMA WaitWatchesOn ==
  ASSUME NetInv, WaitInv, NetInv', UNCHANGED <<wait, now, busy>>,
         \A m \in Loads : load'[m].counted = load[m].counted,
         wait.view # None => /\ context'[wait.view] = context[wait.view]
                             /\ activity'[context[wait.view]] = activity[context[wait.view]]
  PROVE  WaitInv'
<1>1. wait.view # None => /\ context'[wait.view] = context[wait.view] /\ Seen \in Nat
                          /\ Seen' = Seen /\ Loading' = Loading
  <2> SUFFICES ASSUME wait.view # None
               PROVE  Seen \in Nat /\ Seen' = Seen /\ Loading' = Loading
    OBVIOUS
  <2>1. Seen \in Nat
    BY SeenTyped DEF WaitInv, NetInv
  <2>2. Seen' = Seen
    BY DEF Seen, Starts
  <2> QED
    BY <2>1, <2>2, LoadingSame
<1>2. NetTyped'
  BY DEF NetInv
<1> QED
  BY <1>1, <1>2, WaitKept

LEMMA NetNext ==
  ASSUME NetInv, WaitInv, Activity!Next PROVE NetInv' /\ WaitInv'
<1>0. /\ wait \in WaitRecords /\ context \in Contexts
      /\ wait.view # None => wait.view \in Views /\ context[wait.view] # None
                             /\ context[wait.view] \in Addresses
  BY DEF WaitInv, WaitRecords, NetInv, NetTyped, Contexts
<1>1. ASSUME NEW v \in Views, NEW a \in Addresses, Activity!CreateView(v, a)
      PROVE  NetInv' /\ WaitInv'
  <2>1. NetInv'
    BY <1>1, NetCreates
  <2>2. /\ UNCHANGED <<wait, now, busy, load, activity>>
        /\ context' = [context EXCEPT ![v] = a] /\ context[v] = None
    BY <1>1 DEF Activity!CreateView
  <2> QED
    BY <1>0, <2>1, <2>2, WaitWatchesOn DEF Contexts
<1>2. ASSUME NEW v \in Views, Activity!DestroyView(v) PROVE NetInv' /\ WaitInv'
  <2>1. /\ NetInv' /\ load' = load /\ context' = [context EXCEPT ![v] = None]
        /\ \A x \in Views \ {v} : context[x] # None => activity'[context[x]] = activity[context[x]]
    BY <1>2, NetDestroys
  <2>2. UNCHANGED <<wait, now, busy>> /\ wait.view # v
    BY <1>2 DEF Activity!DestroyView
  <2> QED
    BY <1>0, <2>1, <2>2, WaitWatchesOn DEF Contexts
<1>3. ASSUME NEW v \in Waits, Activity!WaitForNetworkIdle(v) PROVE NetInv' /\ WaitInv'
  <2>1. UNCHANGED <<context, owner, attached, load, activity>>
    BY <1>3 DEF Activity!WaitForNetworkIdle, Activity!contextVars
  <2> QED
    BY <1>3, <2>1, WaitStarts, NetSame
<1>4. ASSUME NEW w \in Workers, NEW v \in Views, Activity!AddClient(w, v) PROVE NetInv' /\ WaitInv'
  <2>1. UNCHANGED <<wait, now, busy, load, activity, context>>
    BY <1>4 DEF Activity!AddClient
  <2> QED
    BY <1>4, <2>1, NetAddsClient, WaitWatchesOn
<1>5. ASSUME NEW w \in Workers, NEW v \in Views, NEW a \in Addresses, Activity!StartWorker(w, v, a)
      PROVE  NetInv' /\ WaitInv'
  <2>1. /\ UNCHANGED <<wait, now, busy, load, activity>> /\ context' = [context EXCEPT ![w] = a]
    BY <1>5 DEF Activity!StartWorker
  <2>2. wait.view # None => context'[wait.view] = context[wait.view]
    BY <1>0, <2>1, AccountsAssumption DEF Contexts
  <2> QED
    BY <1>5, <2>1, <2>2, NetStartsWorker, WaitWatchesOn
<1>6. ASSUME NEW w \in Workers, NEW i \in 1 .. 2, Activity!OnClientGone(w, i)
      PROVE  NetInv' /\ WaitInv'
  <2>1. /\ NetInv' /\ load' = load /\ \A x \in Views : context'[x] = context[x]
        /\ \A x \in Views : context[x] # None => activity'[context[x]] = activity[context[x]]
    BY <1>6, NetClientGone
  <2>2. UNCHANGED <<wait, now, busy>>
    BY <1>6 DEF Activity!OnClientGone
  <2> QED
    BY <1>0, <2>1, <2>2, WaitWatchesOn
<1>7. ASSUME NEW l \in Loads, NEW x \in Views \cup Workers, Activity!StartLoad(l, x)
      PROVE  NetInv' /\ WaitInv'
  <2>1. /\ UNCHANGED <<wait, now, busy, activity, context>>
        /\ load[l] = Activity!Idle /\ load \in [Loads -> LoadRecords]
        /\ load' = [load EXCEPT ![l] = [Activity!Idle EXCEPT !.by = context[x],
                       !.starting = Activity!ActivityContexts(context[x])]]
    BY <1>7 DEF Activity!StartLoad, Activity!contextVars, NetInv, NetTyped
  <2>2. \A m \in Loads : load'[m].counted = load[m].counted
    BY <2>1 DEF Activity!Idle
  <2> QED
    BY <1>7, <2>1, <2>2, NetStartsLoad, WaitWatchesOn
<1>8. ASSUME NEW l \in Loads, Activity!EndLoad(l) PROVE NetInv' /\ WaitInv'
  <2>1. /\ UNCHANGED <<wait, now, busy, activity, context>>
        /\ load' = [load EXCEPT ![l].ends = TRUE] /\ load \in [Loads -> LoadRecords]
    BY <1>8 DEF Activity!EndLoad, Activity!contextVars, NetInv, NetTyped
  <2>2. \A m \in Loads : load'[m].counted = load[m].counted
    BY <2>1 DEF LoadRecords
  <2> QED
    BY <1>8, <2>1, <2>2, NetEndsLoad, WaitWatchesOn
<1>9. ASSUME NEW l \in Loads, NEW a \in Addresses, Activity!RequestStarted(l, a)
      PROVE  NetInv' /\ WaitInv'
  <2>1. /\ NetInv' /\ context' = context
        /\ \A c \in Addresses : Starts(c)' = Starts(c) + (IF c = a THEN 1 ELSE 0)
    BY <1>9, NetRequestStarts
  <2>2. /\ UNCHANGED <<wait, now>> /\ load \in [Loads -> LoadRecords]
        /\ load' = [load EXCEPT ![l].starting = @ \ {a}, ![l].counted = @ \cup {a}]
        /\ Activity!Busy(load')
    BY <1>9 DEF Activity!RequestStarted, Activity!contextVars, NetInv, NetTyped
  <2>3. wait.view # None =>
           /\ Seen \in Nat /\ Seen' = Seen + (IF context[wait.view] = a THEN 1 ELSE 0)
           /\ context[wait.view] # a => (Loading' <=> Loading) /\ (busy' = busy \/ Loading)
    <3> SUFFICES ASSUME wait.view # None
                 PROVE  /\ Seen \in Nat /\ Seen' = Seen + (IF context[wait.view] = a THEN 1 ELSE 0)
                        /\ context[wait.view] # a => (Loading' <=> Loading) /\ (busy' = busy \/ Loading)
      OBVIOUS
    <3>1. Seen \in Nat
      BY <1>0, SeenTyped DEF NetInv
    <3>2. Seen' = Starts(context[wait.view])'
      BY <2>1, <2>2 DEF Seen
    <3>3. PICK c \in Addresses : c = context[wait.view]
      BY <1>0
    <3>4. Starts(context[wait.view])' = Starts(c)'
      BY <2>1, <2>2, <3>3
    <3>5. Seen' = Seen + (IF c = a THEN 1 ELSE 0)
      BY <2>1, <3>2, <3>3, <3>4 DEF Seen
    <3>6. ASSUME c # a PROVE (Loading' <=> Loading) /\ (busy' = busy \/ Loading)
      <4>1. \A m \in Loads : c \in load'[m].counted <=> c \in load[m].counted
        BY <2>2, <3>6 DEF LoadRecords
      <4>2. Loading' <=> Loading
        BY <2>1, <2>2, <3>3, <4>1 DEF Loading, CountedBy
      <4>3. Activity!UnderWay(wait.view, load') <=> Loading
        BY <3>3, <4>1 DEF Activity!UnderWay, Loading, CountedBy
      <4>4. Activity!UnderWay(wait.view, load) <=> Loading
        BY DEF Activity!UnderWay, Loading, CountedBy
      <4> QED
        BY <2>2, <4>2, <4>3, <4>4 DEF Activity!Busy
    <3> QED
      BY <3>1, <3>3, <3>5, <3>6
  <2>4. busy' \in {busy, now}
    BY <2>2 DEF Activity!Busy
  <2>5. wait.view # None =>
           /\ context'[wait.view] = context[wait.view]
           /\ Seen' >= Seen
           /\ Seen' = Seen => (Loading' => Loading) /\ (busy' = busy \/ Loading)
    BY <2>1, <2>3
  <2> QED
    BY <2>1, <2>2, <2>4, <2>5, WaitKept DEF NetInv
<1>10. ASSUME NEW l \in Loads, NEW a \in Addresses, Activity!RequestFinished(l, a)
       PROVE  NetInv' /\ WaitInv'
  <2>1. /\ NetInv' /\ context' = context
        /\ \A m \in Loads : load'[m].counted \subseteq load[m].counted
        /\ \A x \in Views : context[x] # None => Starts(context[x])' = Starts(context[x])
    BY <1>10, NetRequestFinishes
  <2>2. /\ UNCHANGED <<wait, now>> /\ Activity!Busy(load')
    BY <1>10 DEF Activity!RequestFinished, Activity!Release
  <2>3. Loading' => Loading
    BY <2>1, <2>2 DEF Loading, CountedBy
  <2>4. /\ Activity!UnderWay(wait.view, load') => Loading
        /\ Activity!UnderWay(wait.view, load) <=> Loading
    BY <2>1 DEF Activity!UnderWay, Loading, CountedBy
  <2>5. busy' \in {busy, now} /\ (busy' = busy \/ Loading)
    BY <2>2, <2>4 DEF Activity!Busy
  <2>6. wait.view # None => Seen' = Seen /\ Seen \in Nat
    <3> SUFFICES ASSUME wait.view # None PROVE Seen' = Seen /\ Seen \in Nat
      OBVIOUS
    <3>1. Seen \in Nat
      BY <1>0, SeenTyped DEF NetInv
    <3>2. Starts(context[wait.view])' = Starts(context[wait.view])
      <4>1. PICK x \in Views : x = wait.view
        BY <1>0
      <4>2. Starts(context[x])' = Starts(context[x])
        BY <1>0, <2>1, <4>1
      <4> QED
        BY <2>2, <4>1, <4>2
    <3> QED
      BY <3>1, <3>2 DEF Seen
  <2> QED
    BY <2>1, <2>2, <2>3, <2>5, <2>6, WaitKept DEF NetInv
<1>11. ASSUME Activity!Tick \/ Activity!ReadStarted \/ Activity!Sample PROVE NetInv' /\ WaitInv'
  <2>1. UNCHANGED <<context, owner, attached, load, activity>>
    BY <1>11 DEF Activity!Tick, Activity!ReadStarted, Activity!Sample, Activity!contextVars
  <2>2. NetInv'
    BY <2>1, NetSame
  <2> QED
    BY <1>11, <2>2, WaitTicks, WaitReads, WaitSamples
<1> QED
  BY <1>1, <1>2, <1>3, <1>4, <1>5, <1>6, <1>7, <1>8, <1>9, <1>10, <1>11 DEF Activity!Next

LEMMA WaitsNot == ASSUME Activity!Init PROVE WaitInv
BY AccountsAssumption DEF Activity!Init, Activity!NotWaiting, WaitInv, WaitRecords

LEMMA CardinalitySame == ASSUME NEW S PROVE Activity!Cardinality(S) = Cardinality(S)
BY DEF Activity!Cardinality, Cardinality

LEMMA ActivityTrue ==
  ASSUME NetInv, WaitInv PROVE Activity!ActivityIsTrue
<1>1. Activity!TypeOK
  <2>1. \A x \in DOMAIN context : context[x] \in Addresses \cup {None}
    BY DEF NetInv, NetTyped, Contexts
  <2>2. ASSUME NEW a \in Addresses
        PROVE  activity[a] = None \/ activity[a].in_flight \in 0 .. Activity!Cardinality(Loads)
    <3>1. CountedBy(load, a) \subseteq Loads
      BY DEF CountedBy
    <3>2. /\ Cardinality(CountedBy(load, a)) \in Nat /\ Cardinality(Loads) \in Nat
          /\ Cardinality(CountedBy(load, a)) <= Cardinality(Loads)
      BY <3>1, CountedFinite, FS_Subset, FS_CardinalityType, AccountsAssumption
    <3>3. activity[a] # None => activity[a].in_flight = Cardinality(CountedBy(load, a))
      BY DEF NetInv, Counts
    <3>4. Activity!Cardinality(Loads) = Cardinality(Loads)
      BY CardinalitySame
    <3> QED
      BY <3>2, <3>3, <3>4
  <2> QED
    BY <2>1, <2>2 DEF Activity!TypeOK, WaitInv, WaitRecords
<1>2. Activity!CountsAreTrue
  <2> SUFFICES ASSUME NEW a \in Addresses
               PROVE  /\ (IF activity[a] = None THEN 0 ELSE activity[a].in_flight)
                           = Activity!Cardinality({l \in Loads : a \in load[l].counted})
                      /\ Activity!Free(a) => activity[a] = None
                      /\ activity[a] # None => ~activity[a].retired
    BY DEF Activity!CountsAreTrue
  <2>1. Activity!Cardinality({l \in Loads : a \in load[l].counted}) = Cardinality(CountedBy(load, a))
    BY CardinalitySame DEF CountedBy
  <2>2. (IF activity[a] = None THEN 0 ELSE activity[a].in_flight) = Cardinality(CountedBy(load, a))
    BY FS_EmptySet DEF NetInv, Counts
  <2>3. Activity!Free(a) => activity[a] = None
    BY ReferredReached DEF Activity!Free, NetInv, Counts
  <2> QED
    BY <2>1, <2>2, <2>3 DEF NetInv, Counts
<1>3. Activity!IdleButForATurn
  BY DEF Activity!IdleButForATurn, WaitInv
<1> QED
  BY <1>1, <1>2, <1>3 DEF Activity!ActivityIsTrue

------------------------------------------------------------------------------
(* Images.                                                                 *)
ImageEntries == [png : BOOLEAN, borrowed : Buffers \cup {None}]
ImageCalls   == [id : Ids, entry : ImageEntries \cup {None}]

Holds(e, b)   == e # None /\ e.borrowed = b
HeldBy(src, b) == {i \in Ids : Holds(src[i], b)}
OwedBy(s, b)  == {n \in DOMAIN s : Holds(s[n].entry, b)}

(* A call that waits for its callback has the entry of its id to itself.   *)
ImagesInv ==
  /\ sources \in [Ids -> ImageEntries \cup {None}]
  /\ calls \in Seq(ImageCalls)
  /\ lent \in [Buffers -> Nat] /\ returned \in [Buffers -> Nat]
  /\ \A n \in DOMAIN calls : sources[calls[n].id] = None
  /\ \A n, m \in DOMAIN calls : calls[n].id = calls[m].id => n = m
  /\ \A b \in Buffers :
       lent[b] - returned[b] = Cardinality(HeldBy(sources, b)) + Cardinality(OwedBy(calls, b))

LEMMA SourcesHold ==
  ASSUME NEW src \in [Ids -> ImageEntries \cup {None}], NEW i \in Ids,
         NEW new \in [Ids -> ImageEntries \cup {None}], NEW b,
         \A j \in Ids : j # i => new[j] = src[j]
  PROVE  /\ Cardinality(HeldBy(src, b)) \in Nat
         /\ Cardinality(HeldBy(new, b))
              = Cardinality(HeldBy(src, b)) + (IF Holds(new[i], b) THEN 1 ELSE 0)
                                            - (IF Holds(src[i], b) THEN 1 ELSE 0)
<1> DEFINE rest == HeldBy(src, b) \ {i}
<1>1. IsFiniteSet(HeldBy(src, b)) /\ IsFiniteSet(rest)
  BY FS_Subset, AccountsAssumption DEF HeldBy
<1>2. HeldBy(src, b) = IF Holds(src[i], b) THEN rest \cup {i} ELSE rest
  BY DEF HeldBy
<1>3. HeldBy(new, b) = IF Holds(new[i], b) THEN rest \cup {i} ELSE rest
  BY DEF HeldBy
<1>4. /\ Cardinality(rest \cup {i}) = Cardinality(rest) + 1 /\ Cardinality(rest) \in Nat
      /\ Cardinality(HeldBy(src, b)) \in Nat
  BY <1>1, FS_AddElement, FS_CardinalityType
<1> HIDE DEF rest
<1>5. Cardinality(HeldBy(new, b))
        = Cardinality(HeldBy(src, b)) + (IF Holds(new[i], b) THEN 1 ELSE 0)
                                      - (IF Holds(src[i], b) THEN 1 ELSE 0)
  BY <1>2, <1>3, <1>4
<1> QED
  BY <1>4, <1>5

(* A call more, ahead of the others.                                       *)
LEMMA CallsOwe ==
  ASSUME NEW s \in Seq(ImageCalls), NEW t \in Seq(ImageCalls), NEW b,
         Len(s) = Len(t) + 1, \A n \in DOMAIN t : s[n + 1] = t[n]
  PROVE  /\ Cardinality(OwedBy(t, b)) \in Nat
         /\ Cardinality(OwedBy(s, b))
              = Cardinality(OwedBy(t, b)) + (IF Holds(s[1].entry, b) THEN 1 ELSE 0)
<1> DEFINE f == [n \in OwedBy(t, b) |-> n + 1]
           rest == {n \in OwedBy(s, b) : n # 1}
<1>1. IsFiniteSet(OwedBy(t, b)) /\ IsFiniteSet(OwedBy(s, b)) /\ IsFiniteSet(rest)
  <2>1. /\ DOMAIN t = 1 .. Len(t) /\ DOMAIN s = 1 .. Len(s)
        /\ 1 \in Int /\ Len(t) \in Int /\ Len(s) \in Int
    OBVIOUS
  <2>2. IsFiniteSet(DOMAIN t) /\ IsFiniteSet(DOMAIN s)
    BY <2>1, FS_Interval
  <2> QED
    BY <2>2, FS_Subset DEF OwedBy
<1>2. f \in Bijection(OwedBy(t, b), rest)
  <2>1. \A n \in OwedBy(t, b) : n \in Nat /\ n + 1 \in rest
    BY DEF OwedBy
  <2>2. \A n \in rest : n - 1 \in OwedBy(t, b) /\ f[n - 1] = n
    <3> SUFFICES ASSUME NEW n \in rest PROVE n - 1 \in OwedBy(t, b) /\ f[n - 1] = n
      OBVIOUS
    <3>1. n \in 2 .. Len(s) /\ Holds(s[n].entry, b)
      BY DEF OwedBy
    <3>2. n - 1 \in DOMAIN t /\ s[(n - 1) + 1] = t[n - 1] /\ (n - 1) + 1 = n
      BY <3>1
    <3> QED
      BY <3>1, <3>2 DEF OwedBy
  <2>3. f \in Injection(OwedBy(t, b), rest)
    BY <2>1 DEF Injection, IsInjective
  <2>4. f \in Surjection(OwedBy(t, b), rest)
    BY <2>1, <2>2 DEF Surjection
  <2> QED
    BY <2>3, <2>4 DEF Bijection
<1>3. Cardinality(rest) = Cardinality(OwedBy(t, b)) /\ Cardinality(rest) \in Nat
  BY <1>1, <1>2, FS_Bijection, FS_CardinalityType DEF ExistsBijection
<1>4. 1 \in DOMAIN s
  OBVIOUS
<1>5. OwedBy(s, b) = IF Holds(s[1].entry, b) THEN rest \cup {1} ELSE rest
  BY <1>4 DEF OwedBy
<1>6. Cardinality(rest \cup {1}) = Cardinality(rest) + 1
  BY <1>1, FS_AddElement
<1> HIDE DEF rest
<1> QED
  BY <1>3, <1>5, <1>6

LEMMA ImagesInit == ASSUME Images!Init PROVE ImagesInv
<1>1. \A b \in Buffers : HeldBy(sources, b) = {} /\ OwedBy(calls, b) = {}
  BY DEF Images!Init, HeldBy, OwedBy, Holds
<1>2. Cardinality({}) = 0
  BY FS_EmptySet
<1>3. \A b \in Buffers :
        lent[b] - returned[b] = Cardinality(HeldBy(sources, b)) + Cardinality(OwedBy(calls, b))
  <2>1. \A b \in Buffers : lent[b] = 0 /\ returned[b] = 0
    BY DEF Images!Init
  <2> QED
    BY <1>1, <1>2, <2>1
<1>4. calls \in Seq(ImageCalls) /\ DOMAIN calls = {}
  BY DEF Images!Init
<1> QED
  BY <1>3, <1>4 DEF Images!Init, ImagesInv

LEMMA ImagesReplace ==
  ASSUME ImagesInv, NEW i \in Ids, NEW e \in ImageEntries \cup {None}, Images!Replace(i, e)
  PROVE  ImagesInv'
<1> DEFINE old == sources[i]
<1>1. /\ sources \in [Ids -> ImageEntries \cup {None}] /\ calls \in Seq(ImageCalls)
      /\ lent \in [Buffers -> Nat] /\ returned \in [Buffers -> Nat]
      /\ \A n \in DOMAIN calls : sources[calls[n].id] = None /\ calls[n].id # i
      /\ \A n, m \in DOMAIN calls : calls[n].id = calls[m].id => n = m
  BY DEF ImagesInv, Images!Replace, Images!HostRuns
<1>2. /\ lent' \in [Buffers -> Nat]
      /\ \A b \in Buffers : lent'[b] = lent[b] + (IF Holds(e, b) THEN 1 ELSE 0)
  <2>1. CASE e = None \/ e.borrowed = None
    BY <1>1, <2>1, AccountsAssumption DEF Images!Replace, Images!Lends, Holds
  <2>2. CASE e # None /\ e.borrowed # None
    <3>1. e.borrowed \in Buffers /\ lent' = [lent EXCEPT ![e.borrowed] = @ + 1]
      BY <2>2 DEF Images!Replace, Images!Lends, ImageEntries
    <3> QED
      BY <1>1, <2>2, <3>1 DEF Holds
  <2> QED
    BY <2>1, <2>2
<1>3. CASE old # None /\ old.borrowed # None
  <2>1. /\ sources' = [sources EXCEPT ![i] = None]
        /\ returned' = [returned EXCEPT ![old.borrowed] = @ + 1]
        /\ calls' = <<[id |-> i, entry |-> e]>> \o calls
        /\ old.borrowed \in Buffers
    BY <1>1, <1>3 DEF Images!Replace, Images!Erased, ImageEntries
  <2>2. /\ returned' \in [Buffers -> Nat]
        /\ \A b \in Buffers : returned'[b] = returned[b] + (IF Holds(old, b) THEN 1 ELSE 0)
    BY <1>1, <1>3, <2>1 DEF Holds
  <2>3. [id |-> i, entry |-> e] \in ImageCalls
    BY DEF ImageCalls
  <2>4. /\ calls' \in Seq(ImageCalls) /\ Len(calls') = Len(calls) + 1
        /\ \A n \in DOMAIN calls : calls'[n + 1] = calls[n]
        /\ calls'[1] = [id |-> i, entry |-> e]
        /\ \A n \in DOMAIN calls' : n # 1 => n - 1 \in DOMAIN calls /\ calls'[n] = calls[n - 1]
    BY <1>1, <2>1, <2>3
  <2>5. \A n \in DOMAIN calls' : sources'[calls'[n].id] = None
    BY <1>1, <2>1, <2>4 DEF ImageCalls
  <2>6. \A n, m \in DOMAIN calls' : calls'[n].id = calls'[m].id => n = m
    <3> SUFFICES ASSUME NEW n \in DOMAIN calls', NEW m \in DOMAIN calls', calls'[n].id = calls'[m].id
                 PROVE  n = m
      OBVIOUS
    <3>1. CASE n = 1 \/ m = 1
      BY <1>1, <2>4, <3>1
    <3>2. CASE n # 1 /\ m # 1
      <4>1. n - 1 = m - 1
        BY <1>1, <2>4, <3>2
      <4> QED
        BY <2>4, <4>1
    <3> QED
      BY <3>1, <3>2
  <2>7. \A b \in Buffers : lent'[b] - returned'[b]
                             = Cardinality(HeldBy(sources, b)') + Cardinality(OwedBy(calls, b)')
    <3> SUFFICES ASSUME NEW b \in Buffers
                 PROVE  lent'[b] - returned'[b]
                          = Cardinality(HeldBy(sources, b)') + Cardinality(OwedBy(calls, b)')
      OBVIOUS
    <3>1. /\ Cardinality(HeldBy(sources, b)) \in Nat
          /\ Cardinality(HeldBy(sources', b))
               = Cardinality(HeldBy(sources, b)) - (IF Holds(old, b) THEN 1 ELSE 0)
      <4>1. sources'[i] = None /\ ~Holds(None, b)
        BY <1>1, <2>1 DEF Holds
      <4>2. /\ Cardinality(HeldBy(sources, b)) \in Nat
            /\ Cardinality(HeldBy(sources', b))
                 = Cardinality(HeldBy(sources, b)) + (IF Holds(sources'[i], b) THEN 1 ELSE 0)
                                                  - (IF Holds(sources[i], b) THEN 1 ELSE 0)
        <5>1. PICK src, new : src = sources /\ new = sources'
          OBVIOUS
        <5>2. /\ src \in [Ids -> ImageEntries \cup {None}] /\ new \in [Ids -> ImageEntries \cup {None}]
              /\ \A j \in Ids : j # i => new[j] = src[j]
          BY <1>1, <2>1, <5>1
        <5> QED
          BY <5>1, <5>2, SourcesHold
      <4> QED
        BY <4>1, <4>2
    <3>2. /\ Cardinality(OwedBy(calls, b)) \in Nat
          /\ Cardinality(OwedBy(calls', b))
               = Cardinality(OwedBy(calls, b)) + (IF Holds(e, b) THEN 1 ELSE 0)
      <4>1. calls'[1].entry = e
        BY <2>4
      <4>2. /\ Cardinality(OwedBy(calls, b)) \in Nat
            /\ Cardinality(OwedBy(calls', b))
                 = Cardinality(OwedBy(calls, b)) + (IF Holds(calls'[1].entry, b) THEN 1 ELSE 0)
        <5>1. PICK s, t : s = calls' /\ t = calls
          OBVIOUS
        <5>2. /\ s \in Seq(ImageCalls) /\ t \in Seq(ImageCalls) /\ Len(s) = Len(t) + 1
              /\ \A n \in DOMAIN t : s[n + 1] = t[n]
          BY <1>1, <2>4, <5>1
        <5> QED
          BY <5>1, <5>2, CallsOwe
      <4> QED
        BY <4>1, <4>2
    <3>3. lent[b] - returned[b] = Cardinality(HeldBy(sources, b)) + Cardinality(OwedBy(calls, b))
      BY DEF ImagesInv
    <3>4. lent[b] \in Nat /\ returned[b] \in Nat
      BY <1>1
    <3> HIDE DEF old
    <3> QED
      BY <1>2, <2>2, <3>1, <3>2, <3>3, <3>4
  <2> QED
    BY <1>2, <2>1, <2>2, <2>4, <2>5, <2>6, <2>7, <1>1 DEF ImagesInv
<1>4. CASE ~(old # None /\ old.borrowed # None)
  <2>1. sources' = [sources EXCEPT ![i] = e] /\ UNCHANGED <<returned, calls>>
    BY <1>4 DEF Images!Replace
  <2>2. ASSUME NEW b \in Buffers
        PROVE  lent'[b] - returned'[b]
                 = Cardinality(HeldBy(sources, b)') + Cardinality(OwedBy(calls, b)')
    <3>1. ~Holds(old, b)
      BY <1>4, AccountsAssumption DEF Holds
    <3>2. /\ Cardinality(HeldBy(sources, b)) \in Nat
          /\ Cardinality(HeldBy(sources', b))
               = Cardinality(HeldBy(sources, b)) + (IF Holds(e, b) THEN 1 ELSE 0)
      <4>2. /\ Cardinality(HeldBy(sources, b)) \in Nat
            /\ Cardinality(HeldBy(sources', b))
                 = Cardinality(HeldBy(sources, b)) + (IF Holds(sources'[i], b) THEN 1 ELSE 0)
                                                  - (IF Holds(sources[i], b) THEN 1 ELSE 0)
        <5>1. PICK src, new : src = sources /\ new = sources'
          OBVIOUS
        <5>2. /\ src \in [Ids -> ImageEntries \cup {None}] /\ new \in [Ids -> ImageEntries \cup {None}]
              /\ \A j \in Ids : j # i => new[j] = src[j]
          BY <1>1, <2>1, <5>1
        <5> QED
          BY <5>1, <5>2, SourcesHold
      <4> QED
        BY <1>1, <2>1, <3>1, <4>2
    <3>3. lent[b] - returned[b] = Cardinality(HeldBy(sources, b)) + Cardinality(OwedBy(calls, b))
      BY DEF ImagesInv
    <3>4. lent[b] \in Nat /\ returned[b] \in Nat
      BY <1>1
    <3>5. IsFiniteSet(OwedBy(calls, b))
      <4>1. DOMAIN calls = 1 .. Len(calls) /\ IsFiniteSet(1 .. Len(calls))
        BY <1>1, FS_Interval
      <4> QED
        BY <4>1, FS_Subset DEF OwedBy
    <3>6. Cardinality(OwedBy(calls, b)) \in Nat /\ OwedBy(calls, b)' = OwedBy(calls, b)
      BY <2>1, <3>5, FS_CardinalityType DEF OwedBy
    <3> QED
      BY <1>2, <2>1, <3>2, <3>3, <3>4, <3>6
  <2> QED
    <3>1. /\ sources' \in [Ids -> ImageEntries \cup {None}] /\ calls' \in Seq(ImageCalls)
          /\ returned' \in [Buffers -> Nat]
      BY <1>1, <2>1
    <3>2. \A n \in DOMAIN calls' : sources'[calls'[n].id] = None
      BY <1>1, <2>1
    <3> QED
      BY <1>1, <1>2, <2>1, <2>2, <3>1, <3>2 DEF ImagesInv
<1> QED
  BY <1>3, <1>4

(* The call stores what it was to store under an id nobody has touched.    *)
LEMMA ImagesReturn == ASSUME ImagesInv, Images!Returns PROVE ImagesInv'
<1> DEFINE h == Head(calls)
           e == h.entry
           i == h.id
<1>1. /\ sources \in [Ids -> ImageEntries \cup {None}] /\ calls \in Seq(ImageCalls)
      /\ lent \in [Buffers -> Nat] /\ returned \in [Buffers -> Nat]
      /\ \A n \in DOMAIN calls : sources[calls[n].id] = None
      /\ \A n, m \in DOMAIN calls : calls[n].id = calls[m].id => n = m
      /\ calls # <<>> /\ calls' = Tail(calls) /\ UNCHANGED <<lent, returned>>
  BY DEF ImagesInv, Images!Returns
<1>2. /\ h = calls[1] /\ h \in ImageCalls /\ 1 \in DOMAIN calls
      /\ calls' \in Seq(ImageCalls) /\ Len(calls) = Len(calls') + 1
      /\ \A n \in DOMAIN calls' : n + 1 \in DOMAIN calls /\ n + 1 # 1 /\ calls[n + 1] = calls'[n]
  BY <1>1
<1>3. i \in Ids /\ e \in ImageEntries \cup {None} /\ sources[i] = None
  BY <1>1, <1>2 DEF ImageCalls
<1>4. /\ sources' \in [Ids -> ImageEntries \cup {None}]
      /\ sources'[i] = e /\ \A j \in Ids : j # i => sources'[j] = sources[j]
  BY <1>1, <1>3 DEF Images!Returns
<1>5. \A n \in DOMAIN calls' : sources'[calls'[n].id] = None
  <2> SUFFICES ASSUME NEW n \in DOMAIN calls' PROVE sources'[calls'[n].id] = None
    OBVIOUS
  <2>1. calls'[n] = calls[n + 1] /\ calls[n + 1] \in ImageCalls /\ calls[n + 1].id # i
    BY <1>1, <1>2
  <2> QED
    BY <1>1, <1>2, <1>4, <2>1 DEF ImageCalls
<1>6. \A n, m \in DOMAIN calls' : calls'[n].id = calls'[m].id => n = m
  <2> SUFFICES ASSUME NEW n \in DOMAIN calls', NEW m \in DOMAIN calls', calls'[n].id = calls'[m].id
               PROVE  n = m
    OBVIOUS
  <2>1. n + 1 = m + 1
    BY <1>1, <1>2
  <2> QED
    BY <1>2, <2>1
<1>7. ASSUME NEW b \in Buffers
      PROVE  lent'[b] - returned'[b]
               = Cardinality(HeldBy(sources, b)') + Cardinality(OwedBy(calls, b)')
  <2> HIDE DEF h, e, i
  <2>1. ~Holds(sources[i], b)
    BY <1>3 DEF Holds
  <2>2. /\ Cardinality(HeldBy(sources, b)) \in Nat
        /\ Cardinality(HeldBy(sources', b))
             = Cardinality(HeldBy(sources, b)) + (IF Holds(sources'[i], b) THEN 1 ELSE 0)
                                              - (IF Holds(sources[i], b) THEN 1 ELSE 0)
    <3>1. PICK src, new, j : src = sources /\ new = sources' /\ j = i
      OBVIOUS
    <3>2. /\ src \in [Ids -> ImageEntries \cup {None}] /\ new \in [Ids -> ImageEntries \cup {None}]
          /\ j \in Ids /\ \A k \in Ids : k # j => new[k] = src[k]
      BY <1>1, <1>3, <1>4, <3>1
    <3> QED
      BY <3>1, <3>2, SourcesHold
  <2>3. /\ Cardinality(OwedBy(calls', b)) \in Nat
        /\ Cardinality(OwedBy(calls, b))
             = Cardinality(OwedBy(calls', b)) + (IF Holds(calls[1].entry, b) THEN 1 ELSE 0)
    <3>1. PICK s, t : s = calls /\ t = calls'
      OBVIOUS
    <3>2. /\ s \in Seq(ImageCalls) /\ t \in Seq(ImageCalls) /\ Len(s) = Len(t) + 1
          /\ \A n \in DOMAIN t : s[n + 1] = t[n]
      BY <1>1, <1>2, <3>1
    <3> QED
      BY <3>1, <3>2, CallsOwe
  <2>4. lent[b] - returned[b] = Cardinality(HeldBy(sources, b)) + Cardinality(OwedBy(calls, b))
    BY DEF ImagesInv
  <2>5. calls[1].entry = sources'[i]
    BY <1>2, <1>4 DEF e, h
  <2> QED
    BY <1>1, <2>1, <2>2, <2>3, <2>4, <2>5
<1> QED
  BY <1>1, <1>2, <1>4, <1>5, <1>6, <1>7 DEF ImagesInv

LEMMA ImagesFind ==
  ASSUME ImagesInv, NEW i \in Ids, Images!FindImageSource(i) PROVE ImagesInv'
<1>1. /\ sources \in [Ids -> ImageEntries \cup {None}] /\ sources[i] # None
      /\ sources' = [sources EXCEPT ![i].png = TRUE]
      /\ calls = <<>> /\ UNCHANGED <<calls, lent, returned>>
  BY DEF ImagesInv, Images!FindImageSource
<1>2. sources[i] \in ImageEntries
  BY <1>1
<1>3. /\ [sources[i] EXCEPT !.png = TRUE] \in ImageEntries
      /\ [sources[i] EXCEPT !.png = TRUE].borrowed = sources[i].borrowed
      /\ [sources[i] EXCEPT !.png = TRUE] # None
  BY <1>2, AccountsAssumption DEF ImageEntries
<1>4. /\ sources' \in [Ids -> ImageEntries \cup {None}]
      /\ \A j \in Ids : \A b : Holds(sources'[j], b) <=> Holds(sources[j], b)
  BY <1>1, <1>3 DEF Holds
<1>5. \A b : HeldBy(sources', b) = HeldBy(sources, b) /\ OwedBy(calls', b) = OwedBy(calls, b)
  BY <1>1, <1>4 DEF HeldBy
<1>6. ASSUME NEW b \in Buffers
      PROVE  lent'[b] - returned'[b]
               = Cardinality(HeldBy(sources, b)') + Cardinality(OwedBy(calls, b)')
  BY <1>1, <1>5 DEF ImagesInv
<1>7. DOMAIN calls' = {}
  BY <1>1
<1> QED
  BY <1>1, <1>4, <1>6, <1>7 DEF ImagesInv

LEMMA ImagesNext == ASSUME ImagesInv, Images!Next PROVE ImagesInv'
<1>1. ASSUME NEW i \in Ids, Images!SetImageSource(i) PROVE ImagesInv'
  <2>1. Images!Eager \in ImageEntries
    BY DEF Images!Eager, ImageEntries
  <2> QED
    BY <1>1, <2>1, ImagesReplace DEF Images!SetImageSource
<1>2. ASSUME NEW i \in Ids, NEW b \in Buffers, Images!SetImageSourceBuffer(i, b) PROVE ImagesInv'
  <2>1. Images!Borrowed(b) \in ImageEntries
    BY DEF Images!Borrowed, ImageEntries
  <2> QED
    BY <1>2, <2>1, ImagesReplace DEF Images!SetImageSourceBuffer
<1>3. ASSUME NEW i \in Ids, Images!RemoveImageSource(i) PROVE ImagesInv'
  BY <1>3, ImagesReplace DEF Images!RemoveImageSource
<1> QED
  BY <1>1, <1>2, <1>3, ImagesReturn, ImagesFind DEF Images!Next

LEMMA ImagesSound == ASSUME ImagesInv PROVE Images!ImagesAreSound
<1>1. Images!TypeOK
  <2>1. \A i \in Ids : sources[i] = None \/ sources[i] \in ImageEntries
    BY DEF ImagesInv
  <2>2. \A n \in DOMAIN calls : calls[n] \in ImageCalls
    BY DEF ImagesInv
  <2> QED
    BY <2>1, <2>2 DEF Images!TypeOK, ImageEntries, ImageCalls
<1>2. \A b \in Buffers : Images!Holding(b)
                            = Cardinality(HeldBy(sources, b)) + Cardinality(OwedBy(calls, b))
  BY DEF Images!Holding, HeldBy, OwedBy, Holds, Images!Cardinality, Cardinality
<1>3. Images!LoansAreReturned
  BY <1>2 DEF ImagesInv, Images!LoansAreReturned
<1> QED
  BY <1>1, <1>3 DEF Images!ImagesAreSound

------------------------------------------------------------------------------
(* Side by side.                                                           *)
AccountsInv == HistoryInv /\ NetInv /\ WaitInv /\ ImagesInv

LEMMA AccountsStart == SumInit => AccountsInv
BY HistoryInit, NetInit, WaitsNot, ImagesInit DEF SumInit, AccountsInv

LEMMA HistorySame == ASSUME HistoryInv, UNCHANGED historyVars PROVE HistoryInv'
BY DEF HistoryInv, historyVars, EntriesOK, ItemsOK, IsAt, FlagsOK, HostTraversal,
       PageTraversal

LEMMA ActivitySame == ASSUME NetInv, WaitInv, UNCHANGED activityVars PROVE NetInv' /\ WaitInv'
<1>1. NetInv'
  BY NetSame DEF activityVars
<1> QED
  BY <1>1, WaitWatchesOn DEF activityVars

LEMMA ImagesSame == ASSUME ImagesInv, UNCHANGED imageVars PROVE ImagesInv'
BY DEF ImagesInv, imageVars

LEMMA AccountsNext ==
  ASSUME AccountsInv, [SumNext]_SumVars
  PROVE  AccountsInv' /\ [History!RecordedAsWhatItIs]_historyVars
<1>1. CASE which = "history" /\ SumNext
  <2>1. History!Next /\ UNCHANGED <<activityVars, imageVars>>
    BY <1>1 DEF SumNext
  <2> QED
    BY <2>1, HistoryNext, ActivitySame, ImagesSame DEF AccountsInv
<1>2. CASE which \in {"contexts", "wait"} /\ SumNext
  <2>1. Activity!Next /\ UNCHANGED <<historyVars, imageVars>>
    BY <1>2 DEF SumNext
  <2> QED
    BY <2>1, NetNext, HistorySame, ImagesSame DEF AccountsInv
<1>3. CASE which = "images" /\ SumNext
  <2>1. Images!Next /\ UNCHANGED <<historyVars, activityVars>>
    BY <1>3 DEF SumNext
  <2> QED
    BY <2>1, ImagesNext, HistorySame, ActivitySame DEF AccountsInv
<1>4. CASE UNCHANGED <<historyVars, activityVars, imageVars>>
  BY <1>4, HistorySame, ActivitySame, ImagesSame DEF AccountsInv
<1> QED
  <2>1. CASE SumNext
    BY <1>1, <1>2, <1>3, <1>4, <2>1 DEF SumNext
  <2>2. CASE UNCHANGED SumVars
    BY <1>4, <2>2 DEF SumVars
  <2> QED
    BY <2>1, <2>2

(* What a view tells of itself is so, for any numbers of visits, loads,    *)
(* addresses, views, workers and images and any times: at rest the cursor  *)
(* of the host is at the entry of the document shown, but after a commit   *)
(* that had to be misplaced and until one that had not; the counters of a  *)
(* context are those of the loads under way for it, and of no context that *)
(* had its address before; a wait that reports idle was quiet for the time *)
(* asked but for one turn; and borrowed pixels come back once.             *)
THEOREM TheAccountsAreTrue == SumSpec => []AccountsAreTrue
<1>1. AccountsInv => AccountsAreTrue
  BY HistoryShows, ActivityTrue, ImagesSound DEF AccountsInv, AccountsAreTrue
<1>2. AccountsInv /\ [SumNext]_SumVars => AccountsInv'
  BY AccountsNext
<1> QED
  BY <1>1, <1>2, AccountsStart, PTL DEF SumSpec

(* A commit is recorded as what it is, whatever failed, was pushed or      *)
(* shown before: a new visit as an entry after the cursor and nothing      *)
(* behind it, a replacement or a reload in place, and a traversal as a     *)
(* move of the cursor to the entry it was to.  Three kinds of commit are   *)
(* excepted: one after a page's traversal that failed, a page's traversal  *)
(* to what the host's list has not or has twice, and a navigation to the   *)
(* URL it is at after a reload that failed.                                *)
THEOREM TheCommitsAreRecorded == SumSpec => CommitsAreRecordedAsWhatTheyAre
<1>1. AccountsInv /\ [SumNext]_SumVars => AccountsInv' /\ [History!RecordedAsWhatItIs]_historyVars
  BY AccountsNext
<1> QED
  BY <1>1, AccountsStart, PTL DEF SumSpec, CommitsAreRecordedAsWhatTheyAre
=============================================================================
