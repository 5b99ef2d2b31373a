-------------------------- MODULE EventViewsProofs --------------------------
(***************************************************************************)
(* What TLC checks of EventViews on two runs and three commands, for any    *)
(* runs, projects, values, commands and bounds.                            *)
(***************************************************************************)
EXTENDS EventViews, FiniteSetTheorems, SequenceTheorems, WellFoundedInduction, TLAPS

-----------------------------------------------------------------------------
(* NUMBERS                                                                  *)

Below == {ss \in Nat \X Nat : ss[1] < ss[2]}

(* Going down from a number ends.                                           *)
LEMMA BelowWellFounded == IsWellFoundedOn(Below, Nat)
<1>1. OpToRel(<, Nat) = Below
  BY Zenon DEF OpToRel, Below
<1>2. QED
  BY <1>1, NatLessThanWellFounded, Zenon

(* Some numbers have a least one.                                           *)
LEMMA Least ==
  ASSUME NEW S \in SUBSET Nat, S # {}
  PROVE  \E i \in S : \A j \in S : i <= j
<1>1. PICK i \in S : \A j \in S : <<j, i>> \notin Below
  BY BelowWellFounded, WFMin
<1>2. ASSUME NEW j \in S PROVE i <= j
  <2>1. ~(j < i) /\ i \in Nat /\ j \in Nat
    BY <1>1 DEF Below
  <2>2. QED
    BY <2>1
<1>3. QED
  BY <1>2

(* Positions of a sequence have a first and a last one.                     *)
LEMMA MinIs ==
  ASSUME NEW n \in Nat, NEW S \in SUBSET (1 .. n), S # {}
  PROVE  Min(S) \in S /\ \A j \in S : Min(S) <= j
<1>1. S \in SUBSET Nat
  OBVIOUS
<1>2. \E i \in S : \A j \in S : i <= j
  BY <1>1, Least
<1>3. QED
  BY <1>2 DEF Min

(* ... and so have those that are searched from the end.                    *)
LEMMA MaxIs ==
  ASSUME NEW n \in Nat, NEW S \in SUBSET (1 .. n), S # {}
  PROVE  Max(S) \in S /\ \A j \in S : j <= Max(S)
<1> DEFINE T == {n - i : i \in S}
<1>1. T \in SUBSET Nat /\ T # {}
  <2>1. \A i \in S : i \in Nat /\ i <= n
    OBVIOUS
  <2>2. \A i \in S : n - i \in Nat
    BY <2>1
  <2>3. QED
    BY <2>2
<1>2. PICK t \in T : \A u \in T : t <= u
  BY <1>1, Least
<1>3. PICK i \in S : t = n - i
  OBVIOUS
<1>4. ASSUME NEW j \in S PROVE i >= j
  <2>1. n - j \in T /\ i \in Int /\ j \in Int
    BY <1>1
  <2>2. t <= n - j
    BY <1>2, <2>1
  <2>3. QED
    BY <1>3, <2>1, <2>2
<1>5. \A j \in S : Max(S) >= j
  BY <1>4 DEF Max
<1>6. Max(S) \in S
  BY <1>4 DEF Max
<1>7. QED
  BY <1>5, <1>6

-----------------------------------------------------------------------------
(* TYPES                                                                    *)

(* A command, and one that has written its field; "idle" is nobody's stage. *)
Commands == [at : {"work", "leave", "exit"}, run : Runs, cmd : DOMAIN Tier,
             slug : Slugs \cup {NoSlug}, code : {0, 1}]
Updates  == [at : {"row", "leave", "exit"}, run : Runs, cmd : {"update"},
             slug : Slugs, code : {0, 1}, old : Values]

Busy == proc.at # "idle"

(* The session of a command that is at work is open.                        *)
ProcInv ==
    /\ proc = Idle \/ proc \in Commands \/ proc \in Updates
    /\ ~Busy => queue = <<>> /\ sending = <<>>
    /\ Busy => (proc.cmd = "update" <=> proc.slug # NoSlug) /\ count >= 1
    /\ proc.at \in {"work", "row"} => open = proc.run
    /\ Busy /\ proc.at # "exit" => Len(queue) <= 1

TypeInv ==
    /\ log \in Seq(Event) /\ queue \in Seq(Event) /\ sending \in Seq(Event)
    /\ Len(sending) <= 1 /\ Len(queue) <= 2
    /\ store \in [Runs -> Seq(Event)] /\ watching \in BOOLEAN
    /\ open \in (Runs \ ended) \cup {NoRun} /\ ended \subseteq Runs
    /\ lr \in [Slugs -> Values] /\ changes \in Seq(Change)
    /\ Registered \subseteq Runs /\ DOMAIN closes \subseteq Registered
    /\ now \in 0 .. MaxClock /\ count \in 0 .. MaxCommands
    /\ final \in [Runs -> [Slugs -> Values]] /\ torn \subseteq Slugs
    /\ ProcInv

(* The commands by name.                                                    *)
LEMMA TierNames == DOMAIN Tier = {"acquire", "update", "close", "release"}
  BY DEF Tier

-----------------------------------------------------------------------------
(* THE FOLD OF A LOG                                                        *)

Unfolded == [tl |-> <<>>, opened |-> [key \in Keys |-> 0]]

(* The table and timeline up to the event n.                                *)
FoldsTo(f, l, r, n) ==
    f = [i \in 0 .. n |->
            IF i = 0 THEN Unfolded
            ELSE IF l[i].run = r THEN FoldStep(f[i - 1], l[i])
            ELSE f[i - 1]]

After(s, l, r, i) == IF l[i].run = r THEN FoldStep(s, l[i]) ELSE s

(* A fold goes on with the event after its last one.                        *)
LEMMA FoldsOn ==
  ASSUME NEW l, NEW r, NEW n \in Nat, NEW f, FoldsTo(f, l, r, n)
  PROVE  FoldsTo([i \in 0 .. n + 1 |-> IF i <= n THEN f[i] ELSE After(f[n], l, r, n + 1)],
                 l, r, n + 1)
<1> DEFINE g == [i \in 0 .. n + 1 |-> IF i <= n THEN f[i] ELSE After(f[n], l, r, n + 1)]
           h == [i \in 0 .. n + 1 |-> IF i = 0 THEN Unfolded
                                      ELSE IF l[i].run = r THEN FoldStep(g[i - 1], l[i])
                                      ELSE g[i - 1]]
<1>1. ASSUME NEW i \in 0 .. n PROVE f[i] = IF i = 0 THEN Unfolded ELSE After(f[i - 1], l, r, i)
  BY DEF FoldsTo, After
<1>2. ASSUME NEW i \in 0 .. n + 1 PROVE g[i] = h[i]
  <2>1. h[i] = IF i = 0 THEN Unfolded ELSE After(g[i - 1], l, r, i)
    BY DEF After
  <2>2. CASE i = 0
    BY <1>1, <2>1, <2>2
  <2>3. CASE i \in 1 .. n
    <3>1. g[i] = f[i] /\ g[i - 1] = f[i - 1]
      BY <2>3
    <3>2. f[i] = After(f[i - 1], l, r, i)
      BY <1>1, <2>3
    <3>3. QED
      BY <2>1, <2>3, <3>1, <3>2
  <2>4. CASE i = n + 1
    <3>1. g[i] = After(f[n], l, r, n + 1) /\ g[i - 1] = f[n]
      BY <2>4
    <3>2. QED
      BY <2>1, <2>4, <3>1
  <2>5. QED
    BY <2>2, <2>3, <2>4
<1>3. g = h
  BY <1>2
<1>4. QED
  BY <1>3 DEF FoldsTo

(* Every log can be folded, and there is but one way.                       *)
LEMMA FoldExists ==
  ASSUME NEW l, NEW r, NEW n \in Nat
  PROVE  \E f : FoldsTo(f, l, r, n)
<1> DEFINE S == {m \in Nat : ~ \E f : FoldsTo(f, l, r, m)}
<1>1. SUFFICES ASSUME S # {} PROVE FALSE
  OBVIOUS
<1>2. PICK m \in S : \A k \in S : m <= k
  BY <1>1, Least
<1>3. m # 0
  <2>1. FoldsTo([i \in 0 .. 0 |-> Unfolded], l, r, 0)
    BY DEF FoldsTo
  <2>2. QED
    BY <2>1
<1>4. m - 1 \in Nat /\ m - 1 \notin S /\ (m - 1) + 1 = m
  BY <1>2, <1>3
<1>5. PICK f : FoldsTo(f, l, r, m - 1)
  BY <1>4
<1>6. \E g : FoldsTo(g, l, r, (m - 1) + 1)
  BY <1>4, <1>5, FoldsOn
<1>7. QED
  BY <1>4, <1>6

(* What fold_eventlog_views comes to is such a fold.                        *)
LEMMA FoldedIs ==
  ASSUME NEW l \in Seq(Event), NEW r
  PROVE  FoldsTo(Folded(l, r), l, r, Len(l))
<1>1. Len(l) \in Nat
  OBVIOUS
<1>2. \E f : FoldsTo(f, l, r, Len(l))
  BY <1>1, FoldExists
<1>3. QED
  BY <1>2 DEF FoldsTo, Folded, Unfolded

(* Two folds agree on the events that both have.                            *)
LEMMA FoldUnique ==
  ASSUME NEW l, NEW m, NEW r, NEW n \in Nat, NEW f, NEW g,
         NEW a \in Nat, NEW b \in Nat, n <= a, n <= b,
         FoldsTo(f, l, r, a), FoldsTo(g, m, r, b), \A i \in 1 .. n : l[i] = m[i]
  PROVE  f[n] = g[n]
<1> DEFINE S == {i \in 0 .. n : f[i] # g[i]}
<1>1. SUFFICES ASSUME S # {} PROVE FALSE
  OBVIOUS
<1>2. S \in SUBSET Nat
  OBVIOUS
<1>3. PICK i \in S : \A k \in S : i <= k
  BY <1>1, <1>2, Least
<1>4. /\ f[i] = IF i = 0 THEN Unfolded ELSE After(f[i - 1], l, r, i)
      /\ g[i] = IF i = 0 THEN Unfolded ELSE After(g[i - 1], m, r, i)
  <2>1. i \in 0 .. a /\ i \in 0 .. b
    OBVIOUS
  <2>2. QED
    BY <2>1 DEF FoldsTo, After
<1>5. i # 0
  BY <1>4
<1>6. i - 1 \in 0 .. n /\ i - 1 \notin S /\ i \in 1 .. n
  BY <1>3, <1>5
<1>7. f[i - 1] = g[i - 1] /\ l[i] = m[i]
  BY <1>6
<1>8. QED
  BY <1>4, <1>5, <1>7 DEF After

(* The fold so far.                                                         *)
Fold(l, r) == Folded(l, r)[Len(l)]

(* An event more is a step more.                                            *)
LEMMA FoldAppend ==
  ASSUME NEW l \in Seq(Event), NEW e \in Event, NEW r
  PROVE  Fold(Append(l, e), r) = IF e.run = r THEN FoldStep(Fold(l, r), e) ELSE Fold(l, r)
<1> DEFINE m == Append(l, e)
<1>1. /\ m \in Seq(Event) /\ Len(m) = Len(l) + 1 /\ m[Len(l) + 1] = e
      /\ \A i \in 1 .. Len(l) : m[i] = l[i] /\ Len(l) \in Nat
  OBVIOUS
<1> HIDE DEF m
<1>2. FoldsTo(Folded(l, r), l, r, Len(l)) /\ FoldsTo(Folded(m, r), m, r, Len(l) + 1)
  BY <1>1, FoldedIs
<1>3. Folded(m, r)[Len(l)] = Fold(l, r)
  <2>1. Len(l) \in Nat /\ Len(l) + 1 \in Nat /\ Len(l) <= Len(l) + 1 /\ Len(l) <= Len(l)
    OBVIOUS
  <2>2. \A i \in 1 .. Len(l) : m[i] = l[i]
    BY <1>1
  <2>3. QED
    BY <1>2, <2>1, <2>2, FoldUnique DEF Fold
<1>4. Fold(m, r) = After(Folded(m, r)[Len(l)], m, r, Len(l) + 1)
  <2>1. /\ Len(l) + 1 \in 0 .. Len(l) + 1 /\ Len(l) + 1 # 0 /\ (Len(l) + 1) - 1 = Len(l)
    OBVIOUS
  <2>2. QED
    BY <1>1, <1>2, <2>1 DEF FoldsTo, Fold, After
<1>5. QED
  BY <1>1, <1>3, <1>4 DEF After, m

(* A log without events has no step.                                        *)
LEMMA FoldNone ==
  ASSUME NEW r
  PROVE  Fold(<<>>, r) = Unfolded
<1>1. <<>> \in Seq(Event) /\ Len(<<>>) = 0
  OBVIOUS
<1>2. FoldsTo(Folded(<<>>, r), <<>>, r, 0)
  BY <1>1, FoldedIs
<1>3. QED
  BY <1>1, <1>2 DEF FoldsTo, Fold

-----------------------------------------------------------------------------
(* COMMANDS                                                                 *)

(* What the table of a fold holds: positions of steps of its key.           *)
Table(s) ==
    /\ s = [tl |-> s.tl, opened |-> s.opened]
    /\ s.tl \in Seq(Event) /\ s.opened \in [Keys -> Nat]
    /\ \A key \in Keys :
          /\ s.opened[key] <= Len(s.tl)
          /\ s.opened[key] # 0 => <<s.tl[s.opened[key]].cmd, s.tl[s.opened[key]].slug>> = key

TableInv == \A r \in Runs : Table(Fold(log, r))

(* A sequence with one more element.                                        *)
LEMMA Appended ==
  ASSUME NEW S, NEW s \in Seq(S), NEW e \in S
  PROVE  /\ Append(s, e) \in Seq(S) /\ Len(Append(s, e)) = Len(s) + 1
         /\ Append(s, e)[Len(s) + 1] = e /\ \A i \in 1 .. Len(s) : Append(s, e)[i] = s[i]
         /\ DOMAIN s = 1 .. Len(s) /\ DOMAIN Append(s, e) = 1 .. Len(s) + 1 /\ Len(s) \in Nat
  OBVIOUS

(* The exit code of a step is filled in, and nothing else changes.          *)
LEMMA Closed ==
  ASSUME NEW tl \in Seq(Event), NEW k \in 1 .. Len(tl), NEW code \in {NoCode, 0, 1},
         NEW new, new = [tl EXCEPT ![k].code = code]
  PROVE  /\ new \in Seq(Event) /\ Len(new) = Len(tl) /\ DOMAIN new = DOMAIN tl
         /\ \A i \in 1 .. Len(tl) :
               /\ new[i].exec = tl[i].exec /\ new[i].run = tl[i].run
               /\ new[i].cmd = tl[i].cmd /\ new[i].slug = tl[i].slug
               /\ new[i].code = IF i = k THEN code ELSE tl[i].code
               /\ i # k => new[i] = tl[i]
<1>1. tl[k] \in Event
  OBVIOUS
<1>2. PICK x : x = [exec |-> tl[k].exec, run |-> tl[k].run, cmd |-> tl[k].cmd,
                    slug |-> tl[k].slug, code |-> code, at |-> tl[k].at]
  OBVIOUS
<1>3. [tl[k] EXCEPT !.code = code] = x /\ x \in Event
  BY <1>1, <1>2, SMTT(30) DEF Event
<1>4. [tl EXCEPT ![k].code = code] = [tl EXCEPT ![k] = [tl[k] EXCEPT !.code = code]]
  OBVIOUS
<1>5. /\ [tl EXCEPT ![k] = x] \in Seq(Event) /\ Len([tl EXCEPT ![k] = x]) = Len(tl)
      /\ DOMAIN [tl EXCEPT ![k] = x] = DOMAIN tl
      /\ \A i \in 1 .. Len(tl) : [tl EXCEPT ![k] = x][i] = IF i = k THEN x ELSE tl[i]
  BY <1>3
<1>6. new = [tl EXCEPT ![k] = x]
  BY <1>3, <1>4
<1>7. ASSUME NEW i \in 1 .. Len(tl)
      PROVE  /\ new[i].exec = tl[i].exec /\ new[i].run = tl[i].run
             /\ new[i].cmd = tl[i].cmd /\ new[i].slug = tl[i].slug
             /\ new[i].code = IF i = k THEN code ELSE tl[i].code
             /\ i # k => new[i] = tl[i]
  <2>1. new[i] = IF i = k THEN x ELSE tl[i]
    BY <1>5, <1>6
  <2>2. x.exec = tl[k].exec /\ x.run = tl[k].run /\ x.cmd = tl[k].cmd /\ x.slug = tl[k].slug /\ x.code = code
    BY <1>2
  <2>3. QED
    BY <2>1, <2>2
<1>8. QED
  BY <1>5, <1>6, <1>7

(* The key of an event, and the step that its end would close, if any.      *)
Key(e) == <<e.cmd, e.slug>>
Closes(s, e) == e.code # NoCode /\ s.opened[Key(e)] # 0 /\ s.tl[s.opened[Key(e)]].code = NoCode

(* The table has a place for every event.                                   *)
LEMMA KeyTyped ==
  ASSUME NEW e \in Event
  PROVE  Key(e) \in Keys
  BY DEF Key, Keys, Event

(* An event of the log closes a step of the timeline or becomes one.        *)
LEMMA FoldStepIs ==
  ASSUME NEW s, NEW e \in Event
  PROVE  /\ Closes(s, e) =>
              FoldStep(s, e) = [tl |-> [s.tl EXCEPT ![s.opened[Key(e)]].code = e.code],
                                opened |-> s.opened]
         /\ ~Closes(s, e) =>
              FoldStep(s, e) = [tl |-> Append(s.tl, e),
                                opened |-> IF e.code # NoCode THEN s.opened
                                           ELSE [s.opened EXCEPT ![Key(e)] = Len(s.tl) + 1]]
  BY DEF FoldStep, Closes, Key

(* The table goes on pointing at steps of its command and project.          *)
LEMMA FoldStepTyped ==
  ASSUME NEW s, Table(s), NEW e \in Event
  PROVE  Table(FoldStep(s, e))
<1> DEFINE k == s.opened[Key(e)]
<1>1. Key(e) \in Keys /\ k \in Nat /\ k <= Len(s.tl) /\ Len(s.tl) \in Nat
  BY KeyTyped DEF Table
<1>2. CASE Closes(s, e)
  <2>1. k \in 1 .. Len(s.tl) /\ e.code \in {NoCode, 0, 1}
    BY <1>1, <1>2 DEF Closes, Event
  <2>2. PICK new : new = [s.tl EXCEPT ![k].code = e.code]
    OBVIOUS
  <2>3. /\ new \in Seq(Event) /\ Len(new) = Len(s.tl)
        /\ \A i \in 1 .. Len(s.tl) : new[i].cmd = s.tl[i].cmd /\ new[i].slug = s.tl[i].slug
    <3>1. s.tl \in Seq(Event)
      BY DEF Table
    <3>2. QED
      BY <2>1, <2>2, <3>1, Closed
  <2>4. PICK new2 : new2 = [tl |-> new, opened |-> s.opened]
    OBVIOUS
  <2>5. new2.tl = new /\ new2.opened = s.opened /\ new2 = [tl |-> new2.tl, opened |-> new2.opened]
    BY <2>4
  <2>6. FoldStep(s, e) = new2
    BY <1>2, <2>2, <2>4, FoldStepIs
  <2>7. ASSUME NEW key \in Keys
        PROVE  /\ new2.opened[key] <= Len(new2.tl)
               /\ new2.opened[key] # 0 =>
                     <<new2.tl[new2.opened[key]].cmd, new2.tl[new2.opened[key]].slug>> = key
    BY <2>3, <2>5 DEF Table
  <2>8. Table(new2)
    BY <2>3, <2>5, <2>7 DEF Table
  <2>9. QED
    BY <2>6, <2>8
<1>3. CASE ~Closes(s, e)
  <2>1. PICK new : new = Append(s.tl, e)
    OBVIOUS
  <2>2. /\ new \in Seq(Event) /\ Len(new) = Len(s.tl) + 1 /\ new[Len(s.tl) + 1] = e
        /\ \A i \in 1 .. Len(s.tl) : new[i] = s.tl[i]
    BY <2>1, Appended DEF Table
  <2>3. PICK opened : opened = IF e.code # NoCode THEN s.opened
                               ELSE [s.opened EXCEPT ![Key(e)] = Len(s.tl) + 1]
    OBVIOUS
  <2>4. /\ opened \in [Keys -> Nat]
        /\ \A key \in Keys : opened[key] = s.opened[key]
                             \/ (key = Key(e) /\ opened[key] = Len(s.tl) + 1)
    BY <1>1, <2>3 DEF Table
  <2>5. PICK new2 : new2 = [tl |-> new, opened |-> opened]
    OBVIOUS
  <2>6. new2.tl = new /\ new2.opened = opened /\ new2 = [tl |-> new2.tl, opened |-> new2.opened]
    BY <2>5
  <2>7. FoldStep(s, e) = new2
    BY <1>3, <2>1, <2>3, <2>5, FoldStepIs
  <2>8. ASSUME NEW key \in Keys
        PROVE  /\ new2.opened[key] <= Len(new2.tl)
               /\ new2.opened[key] # 0 =>
                     <<new2.tl[new2.opened[key]].cmd, new2.tl[new2.opened[key]].slug>> = key
    <3>1. CASE opened[key] = s.opened[key]
      BY <2>2, <2>6, <3>1, <1>1 DEF Table
    <3>2. CASE key = Key(e) /\ opened[key] = Len(s.tl) + 1
      BY <2>2, <2>6, <3>2, <1>1 DEF Key
    <3>3. QED
      BY <2>4, <3>1, <3>2
  <2>9. Table(new2)
    BY <2>2, <2>4, <2>6, <2>8 DEF Table
  <2>10. QED
    BY <2>7, <2>9
<1>4. QED
  BY <1>2, <1>3

(* MonitorStore: an end closes the open step that is last.                  *)
Opens(tl, e) == {i \in 1 .. Len(tl) : OpenAt(tl, e, i)}

(* apply_opsstepevent either fills in the last open step or appends one.    *)
LEMMA StoreStepIs ==
  ASSUME NEW tl \in Seq(Event), NEW e \in Event
  PROVE  \/ /\ e.code = NoCode \/ Opens(tl, e) = {}
            /\ StoreStep(tl, e) = Append(tl, e)
         \/ /\ e.code # NoCode
            /\ \E k \in Opens(tl, e) :
                  /\ \A j \in Opens(tl, e) : j <= k
                  /\ StoreStep(tl, e) = [tl EXCEPT ![k].code = e.code]
<1> DEFINE S == Opens(tl, e)
<1>1. CASE e.code = NoCode \/ S = {}
  BY <1>1 DEF StoreStep, Opens
<1>2. CASE e.code # NoCode /\ S # {}
  <2>1. S \in SUBSET (1 .. Len(tl)) /\ Len(tl) \in Nat
    BY DEF Opens
  <2>2. Max(S) \in S /\ \A j \in S : j <= Max(S)
    BY <1>2, <2>1, MaxIs
  <2>3. \A j \in S : Max(S) >= j
    BY <2>1, <2>2
  <2>4. PICK k : k = CHOOSE i \in S : \A j \in S : i >= j
    OBVIOUS
  <2>5. k \in S /\ \A j \in S : k >= j
    BY <2>2, <2>3, <2>4
  <2>6. \A j \in S : j <= k
    BY <2>1, <2>5
  <2>7. StoreStep(tl, e) = [tl EXCEPT ![k].code = e.code]
    BY <1>2, <2>4, Zenon DEF StoreStep, Opens
  <2>8. QED
    BY <1>2, <2>5, <2>6, <2>7
<1>3. QED
  BY <1>1, <1>2

(* A timeline of the store stays one of events.                             *)
LEMMA StoreStepTyped ==
  ASSUME NEW tl \in Seq(Event), NEW e \in Event
  PROVE  StoreStep(tl, e) \in Seq(Event)
<1>1. CASE StoreStep(tl, e) = Append(tl, e)
  BY <1>1
<1>2. CASE \E k \in Opens(tl, e) : StoreStep(tl, e) = [tl EXCEPT ![k].code = e.code]
  <2>1. PICK k \in Opens(tl, e) : StoreStep(tl, e) = [tl EXCEPT ![k].code = e.code]
    BY <1>2
  <2>2. k \in 1 .. Len(tl) /\ e.code \in {NoCode, 0, 1}
    BY DEF Opens, Event
  <2>3. PICK new : new = [tl EXCEPT ![k].code = e.code]
    OBVIOUS
  <2>4. new \in Seq(Event)
    BY <2>2, <2>3, Closed
  <2>5. QED
    BY <2>1, <2>3, <2>4
<1>3. QED
  BY <1>1, <1>2, StoreStepIs

-----------------------------------------------------------------------------
(* THE TYPES ARE KEPT                                                       *)

(* What is known of a command.                                              *)
LEMMA BusyFields ==
  ASSUME TypeInv, Busy
  PROVE  /\ proc \in Commands \/ proc \in Updates
         /\ proc.run \in Runs /\ proc.cmd \in DOMAIN Tier /\ proc.slug \in Slugs \cup {NoSlug}
         /\ proc.code \in {0, 1} /\ proc.at \in {"work", "row", "leave", "exit"}
         /\ count \in 1 .. MaxCommands
         /\ proc.at = "work" => proc \in Commands
         /\ proc.at = "row" => proc \in Updates
<1>1. proc \in Commands \/ proc \in Updates
  BY DEF TypeInv, ProcInv, Busy, Idle
<1>2. "update" \in DOMAIN Tier
  BY TierNames
<1>3. count \in 1 .. MaxCommands
  BY ViewAssumption DEF TypeInv, ProcInv
<1>4. QED
  BY <1>1, <1>2, <1>3 DEF Commands, Updates

(* A later stage of the same command.                                       *)
LEMMA GotoIs ==
  ASSUME TypeInv, Busy, NEW stage \in {"leave", "exit"}, Goto(stage)
  PROVE  /\ proc' \in Commands \/ proc' \in Updates
         /\ proc'.run = proc.run /\ proc'.cmd = proc.cmd /\ proc'.slug = proc.slug
         /\ proc'.code = proc.code /\ proc'.at = stage /\ Busy'
<1>1. CASE proc \in Commands
  BY <1>1 DEF Goto, Commands, Busy
<1>2. CASE proc \in Updates
  BY <1>2 DEF Goto, Updates, Busy
<1>3. QED
  BY <1>1, <1>2, BusyFields

(* A command that refuses goes on to its end, with exit code 1.             *)
LEMMA RefuseIs ==
  ASSUME TypeInv, Refuse
  PROVE  /\ proc' \in Commands /\ Busy
         /\ proc'.run = proc.run /\ proc'.cmd = proc.cmd /\ proc'.slug = proc.slug
         /\ proc'.code = 1 /\ proc'.at = "leave" /\ Busy'
<1>1. proc \in Commands /\ Busy
  BY BusyFields DEF Refuse, Busy
<1>2. proc' = [at |-> "leave", run |-> proc.run, cmd |-> proc.cmd, slug |-> proc.slug, code |-> 1]
  BY DEF Refuse
<1>3. QED
  BY <1>1, <1>2 DEF Commands, Busy

(* The event of a command has its fields.                                   *)
LEMMA SaysIs ==
  ASSUME TypeInv, count' \in 1 .. MaxCommands, proc' \in Commands \/ proc' \in Updates,
         NEW code \in {NoCode, 0, 1}
  PROVE  /\ Says(code) \in Event
         /\ Says(code).exec = count' /\ Says(code).run = proc'.run
         /\ Says(code).cmd = proc'.cmd /\ Says(code).slug = proc'.slug
         /\ Says(code).code = code /\ Says(code).at = now
<1>1. /\ proc'.run \in Runs /\ proc'.cmd \in DOMAIN Tier
      /\ proc'.slug \in Slugs \cup {NoSlug}
  BY TierNames DEF Commands, Updates
<1>2. now \in 0 .. MaxClock
  BY DEF TypeInv
<1>3. QED
  BY <1>1, <1>2 DEF Says, Event

(* The first and the last of an empty or a longer sequence.                 *)
LEMMA HeadIs ==
  ASSUME NEW S, NEW s \in Seq(S), s # <<>>
  PROVE  /\ Head(s) = s[1] /\ s[1] \in S /\ Tail(s) \in Seq(S) /\ Len(Tail(s)) = Len(s) - 1
         /\ \A i \in 1 .. Len(s) - 1 : Tail(s)[i] = s[i + 1] /\ Len(s) \in Nat /\ Len(s) >= 1
  OBVIOUS

(* The empty log, queue and change log are what their types say.            *)
LEMMA EmptyIs == \A S : <<>> \in Seq(S) /\ Len(<<>>) = 0
  OBVIOUS

(* A queue of the one event a command starts with.                          *)
LEMMA OneIs ==
  ASSUME NEW S, NEW e \in S
  PROVE  <<e>> \in Seq(S) /\ Len(<<e>>) = 1 /\ <<e>>[1] = e
  OBVIOUS

(* Nothing but the session changes when it is over.                         *)
LEMMA OverTyped ==
  ASSUME TypeInv, NEW r \in Runs, OverAt(r)
  PROVE  /\ open' \in (Runs \ ended') \cup {NoRun} /\ ended' \subseteq Runs
         /\ final' \in [Runs -> [Slugs -> Values]]
  BY DEF TypeInv, OverAt

(* The wrapper begins a command: the types are kept.                        *)
LEMMA EnterTyped ==
  ASSUME TypeInv, NEW r \in Runs, NEW c \in DOMAIN Tier, NEW s \in Slugs \cup {NoSlug},
         Enter(r, c, s)
  PROVE  TypeInv'
<1>1. proc' \in Commands /\ proc'.at = "work" /\ proc'.run = r /\ proc'.cmd = c /\ proc'.slug = s
  BY DEF Enter, Commands
<1>2. count' = count + 1 /\ count' \in 1 .. MaxCommands
  BY ViewAssumption DEF Enter, TypeInv
<1>3. Says(NoCode) \in Event
  BY <1>1, <1>2, SaysIs
<1>4. PICK e \in Event : e = Says(NoCode)
  BY <1>3
<1>5. queue' = <<e>> /\ queue' \in Seq(Event) /\ Len(queue') = 1
  BY <1>4, OneIs DEF Enter
<1>6. open' = r /\ (open = NoRun => r \notin ended) /\ (open # NoRun => open = r)
  BY DEF Enter
<1>7. ProcInv'
  BY <1>1, <1>2, <1>5, <1>6 DEF ProcInv, Busy, Enter
<1>8. /\ open' \in (Runs \ ended') \cup {NoRun} /\ ended' \subseteq Runs
  BY <1>6, ViewAssumption DEF TypeInv, Enter
<1>9. QED
  BY <1>2, <1>5, <1>7, <1>8 DEF TypeInv, Enter, bridge, files, history, Registered

(* longrunner_update writes its field: the types are kept.                  *)
LEMMA WriteFieldTyped ==
  ASSUME TypeInv, WriteField
  PROVE  TypeInv'
<1>1. Busy /\ proc \in Commands /\ proc.at = "work" /\ proc.cmd = "update" /\ proc.slug \in Slugs
  BY BusyFields DEF WriteField, AtWork, Busy, TypeInv, ProcInv
<1>2. lr[proc.slug] \in Values /\ lr' \in [Slugs -> Values]
  BY <1>1 DEF TypeInv, WriteField
<1>3. proc' = [at |-> "row", run |-> proc.run, cmd |-> proc.cmd, slug |-> proc.slug,
               code |-> proc.code, old |-> lr[proc.slug]]
  BY DEF WriteField
<1>4. /\ proc' \in Updates /\ proc'.at = "row" /\ proc'.run = proc.run
      /\ proc'.cmd = "update" /\ proc'.slug = proc.slug
  BY <1>1, <1>2, <1>3 DEF Commands, Updates
<1>5. proc'.slug # NoSlug
  BY <1>1, <1>4, ViewAssumption
<1>6. ProcInv'
  BY <1>1, <1>4, <1>5 DEF TypeInv, ProcInv, Busy, WriteField, telemetry
<1>7. QED
  BY <1>2, <1>6 DEF TypeInv, WriteField, telemetry, bridge, history, Registered

(* longrunner_update writes its row: the types are kept.                    *)
LEMMA WriteRowTyped ==
  ASSUME TypeInv, WriteRow
  PROVE  TypeInv'
<1>1. Busy /\ proc \in Updates /\ proc.at = "row"
  BY BusyFields DEF WriteRow, Unlogged, Busy
<1>2. Goto("leave")
  BY DEF WriteRow
<1>3. /\ proc' \in Commands \/ proc' \in Updates
      /\ proc'.run = proc.run /\ proc'.cmd = proc.cmd /\ proc'.slug = proc.slug
      /\ proc'.at = "leave" /\ Busy'
  BY <1>1, <1>2, GotoIs
<1>4. [run |-> proc.run, slug |-> proc.slug, old |-> proc.old, new |-> lr[proc.slug]] \in Change
  BY <1>1 DEF Updates, TypeInv, Change
<1>5. changes' \in Seq(Change)
  BY <1>4 DEF WriteRow, TypeInv
<1>6. ProcInv'
  BY <1>1, <1>3 DEF TypeInv, ProcInv, Busy, WriteRow, telemetry
<1>7. QED
  BY <1>5, <1>6 DEF TypeInv, WriteRow, telemetry, bridge, history, Registered

(* session_close registers its run: the types are kept.                     *)
LEMMA RegisterTyped ==
  ASSUME TypeInv, Register
  PROVE  TypeInv'
<1>1. Busy /\ proc.run \in Runs
  BY BusyFields DEF Register, AtWork, Busy
<1>2. Registered' = Registered \cup {proc.run}
  BY DEF Register, Registered
<1>3. Registered' \subseteq Runs /\ DOMAIN closes' \subseteq Registered'
  BY <1>1, <1>2 DEF TypeInv, Register
<1>4. ProcInv'
  BY DEF TypeInv, ProcInv, Busy, Register, telemetry
<1>5. QED
  BY <1>3, <1>4 DEF TypeInv, Register, telemetry, bridge, history

(* session_close logs the end of its run: the types are kept.               *)
LEMMA LogCloseTyped ==
  ASSUME TypeInv, LogClose
  PROVE  TypeInv'
<1>1. Busy /\ proc.run \in Runs /\ proc.at = "work"
  BY BusyFields DEF LogClose, AtWork, Busy
<1>2. Goto("leave")
  BY DEF LogClose
<1>3. /\ proc' \in Commands \/ proc' \in Updates
      /\ proc'.cmd = proc.cmd /\ proc'.slug = proc.slug /\ proc'.at = "leave" /\ Busy'
  BY <1>1, <1>2, GotoIs
<1>4. /\ open' \in (Runs \ ended') \cup {NoRun} /\ ended' \subseteq Runs
      /\ final' \in [Runs -> [Slugs -> Values]]
  BY <1>1, OverTyped DEF LogClose
<1>5. DOMAIN closes' \subseteq Registered'
  <2>1. DOMAIN closes' = DOMAIN closes \cup {proc.run}
    BY DEF LogClose, LogsClose, ClosedRuns
  <2>2. QED
    BY <2>1 DEF TypeInv, LogClose, Registered
<1>6. ProcInv'
  BY <1>1, <1>3 DEF TypeInv, ProcInv, Busy, LogClose, telemetry
<1>7. QED
  BY <1>4, <1>5, <1>6 DEF TypeInv, LogClose, telemetry, bridge, Registered

(* lock-acquire: the types are kept.                                        *)
LEMMA AcquireTyped ==
  ASSUME TypeInv, Acquire
  PROVE  TypeInv'
<1>1. Busy /\ proc.at = "work" /\ Goto("leave")
  BY DEF Acquire, AtWork, Busy
<1>2. /\ proc' \in Commands \/ proc' \in Updates
      /\ proc'.cmd = proc.cmd /\ proc'.slug = proc.slug /\ proc'.at = "leave" /\ Busy'
  BY <1>1, GotoIs
<1>3. ProcInv'
  BY <1>1, <1>2 DEF TypeInv, ProcInv, Busy, Acquire, telemetry
<1>4. QED
  BY <1>3 DEF TypeInv, Acquire, telemetry, bridge, files, history, Registered

(* lock-release ends a session: the types are kept.                         *)
LEMMA ReleaseTyped ==
  ASSUME TypeInv, Release
  PROVE  TypeInv'
<1>1. Busy /\ proc.run \in Runs /\ proc.at = "work" /\ Goto("leave")
  BY BusyFields DEF Release, AtWork, Busy
<1>2. /\ proc' \in Commands \/ proc' \in Updates
      /\ proc'.cmd = proc.cmd /\ proc'.slug = proc.slug /\ proc'.at = "leave" /\ Busy'
  BY <1>1, GotoIs
<1>3. /\ open' \in (Runs \ ended') \cup {NoRun} /\ ended' \subseteq Runs
      /\ final' \in [Runs -> [Slugs -> Values]]
  BY <1>1, OverTyped DEF Release
<1>4. ProcInv'
  BY <1>1, <1>2 DEF TypeInv, ProcInv, Busy, Release, telemetry
<1>5. QED
  BY <1>3, <1>4 DEF TypeInv, Release, telemetry, bridge, files, Registered

(* A command refuses: the types are kept.                                   *)
LEMMA RefuseTyped ==
  ASSUME TypeInv, Refuse
  PROVE  TypeInv'
<1>1. /\ proc' \in Commands /\ Busy /\ proc.at = "work"
      /\ proc'.cmd = proc.cmd /\ proc'.slug = proc.slug /\ proc'.at = "leave" /\ Busy'
  BY RefuseIs DEF Refuse
<1>2. ProcInv'
  BY <1>1 DEF TypeInv, ProcInv, Busy, Refuse, telemetry
<1>3. QED
  BY <1>2 DEF TypeInv, Refuse, telemetry, bridge, files, history, Registered

(* The wrapper tells of the end of a command: the types are kept.           *)
LEMMA LeaveTyped ==
  ASSUME TypeInv, Leave
  PROVE  TypeInv'
<1>1. Busy /\ proc.at = "leave" /\ Goto("exit") /\ count' = count /\ count \in 1 .. MaxCommands
      /\ proc.code \in {0, 1}
  BY BusyFields DEF Leave, Busy
<1>2. /\ proc' \in Commands \/ proc' \in Updates
      /\ proc'.cmd = proc.cmd /\ proc'.slug = proc.slug /\ proc'.at = "exit" /\ Busy'
  BY <1>1, GotoIs
<1>3. Says(proc.code) \in Event
  BY <1>1, <1>2, SaysIs
<1>4. Len(queue) <= 1
  BY <1>1 DEF TypeInv, ProcInv
<1>5. queue' \in Seq(Event) /\ Len(queue') = Len(queue) + 1
  BY <1>3, Appended DEF Leave, TypeInv
<1>6. ProcInv'
  BY <1>1, <1>2 DEF TypeInv, ProcInv, Busy, Leave
<1>7. QED
  BY <1>1, <1>4, <1>5, <1>6 DEF TypeInv, Leave, bridge, files, history, Registered

(* Nothing is left of the process.                                          *)
LEMMA GoneTyped ==
  ASSUME TypeInv, Gone, UNCHANGED <<log, watching, store, open, ended, lr, changes, registry,
                                    closes, now, count, final>>, torn' \subseteq Slugs
  PROVE  TypeInv'
<1>1. proc' = Idle /\ queue' = <<>> /\ sending' = <<>>
  BY DEF Gone
<1>2. /\ queue' \in Seq(Event) /\ Len(queue') = 0 /\ sending' \in Seq(Event)
      /\ Len(sending') = 0
  BY <1>1
<1>3. ProcInv'
  BY <1>1 DEF ProcInv, Busy, Idle
<1>4. QED
  BY <1>2, <1>3 DEF TypeInv, Registered

(* A command is killed: the types are kept.                                 *)
LEMMA KillTyped ==
  ASSUME TypeInv, Kill
  PROVE  TypeInv'
<1>1. torn' \subseteq Slugs
  <2>1. CASE Unlogged
    <3>1. proc.slug \in Slugs
      BY <2>1, BusyFields DEF Unlogged, Busy, Updates
    <3>2. QED
      BY <2>1, <3>1 DEF Kill, TypeInv
  <2>2. CASE ~Unlogged
    BY <2>2 DEF Kill, TypeInv
  <2>3. QED
    BY <2>1, <2>2
<1>2. QED
  BY <1>1, GoneTyped DEF Kill, bridge, files

(* A session ends without a release: the types are kept.                    *)
LEMMA AbandonTyped ==
  ASSUME TypeInv, Abandon
  PROVE  TypeInv'
<1>1. open \in Runs /\ proc = Idle /\ proc' = proc
  BY DEF TypeInv, Abandon
<1>2. /\ open' \in (Runs \ ended') \cup {NoRun} /\ ended' \subseteq Runs
      /\ final' \in [Runs -> [Slugs -> Values]]
  BY <1>1, OverTyped DEF Abandon
<1>3. ProcInv'
  BY <1>1 DEF TypeInv, ProcInv, Busy, Abandon, telemetry, Idle
<1>4. QED
  BY <1>2, <1>3 DEF TypeInv, Abandon, telemetry, bridge, files, Registered

(* The telemetry thread takes an event: the types are kept.                 *)
LEMMA TakeTyped ==
  ASSUME TypeInv, Take
  PROVE  TypeInv'
<1>1. queue \in Seq(Event) /\ queue # <<>>
  BY DEF TypeInv, Take
<1>2. Head(queue) \in Event /\ Tail(queue) \in Seq(Event) /\ Len(Tail(queue)) = Len(queue) - 1
      /\ Len(queue) \in Nat
  BY <1>1, HeadIs
<1>3. /\ sending' \in Seq(Event) /\ Len(sending') = 1
      /\ queue' \in Seq(Event) /\ Len(queue') = Len(queue) - 1
  BY <1>2, OneIs DEF Take
<1>4. Busy
  BY <1>1 DEF TypeInv, ProcInv
<1>5. ProcInv'
  BY <1>2, <1>3, <1>4 DEF TypeInv, ProcInv, Busy, Take
<1>6. QED
  BY <1>2, <1>3, <1>5 DEF TypeInv, Take, bridge, files, history, Registered

(* An event arrives, and the store folds it: the types are kept.            *)
LEMMA ArriveTyped ==
  ASSUME TypeInv, Arrive
  PROVE  TypeInv'
<1>1. sending \in Seq(Event) /\ sending # <<>>
  BY DEF TypeInv, Arrive
<1>2. PICK e \in Event : e = Head(sending)
  BY <1>1, HeadIs
<1>3. log' \in Seq(Event)
  BY <1>2 DEF TypeInv, Arrive
<1>4. store' \in [Runs -> Seq(Event)]
  <2>1. e.run \in Runs
    BY DEF Event
  <2>2. store[e.run] \in Seq(Event)
    BY <2>1 DEF TypeInv
  <2>3. StoreStep(store[e.run], e) \in Seq(Event)
    BY <2>2, StoreStepTyped
  <2>4. store' = store \/ store' = [store EXCEPT ![e.run] = StoreStep(store[e.run], e)]
    BY <1>2 DEF Arrive
  <2>5. QED
    BY <2>1, <2>3, <2>4 DEF TypeInv
<1>5. sending' \in Seq(Event) /\ Len(sending') = 0 /\ Busy
  BY <1>1 DEF TypeInv, ProcInv, Arrive
<1>6. ProcInv'
  BY <1>5 DEF TypeInv, ProcInv, Busy, Arrive
<1>7. QED
  BY <1>3, <1>4, <1>5, <1>6 DEF TypeInv, Arrive, files, history, Registered

(* An event is given up: the types are kept.                                *)
LEMMA LoseTyped ==
  ASSUME TypeInv, Lose
  PROVE  TypeInv'
<1>1. sending' \in Seq(Event) /\ Len(sending') = 0 /\ queue' = queue
  BY DEF Lose, AfterLoss
<1>2. ProcInv'
  BY <1>1 DEF TypeInv, ProcInv, Busy, Lose
<1>3. QED
  BY <1>1, <1>2 DEF TypeInv, Lose, bridge, files, history, Registered

(* The timeline is a part of the fold.                                      *)
LEMMA TimelineIs ==
  ASSUME NEW l, NEW r
  PROVE  Timeline(l, r) = Fold(l, r).tl
  BY DEF Timeline, Fold

(* A client comes back to the timelines of the bridge: types are kept.      *)
LEMMA WatchTyped ==
  ASSUME TypeInv, TableInv, Watch
  PROVE  TypeInv'
<1>1. \A r \in Runs : Timeline(log, r) \in Seq(Event)
  BY TimelineIs DEF TableInv, Table
<1>2. store' \in [Runs -> Seq(Event)]
  BY <1>1 DEF Watch
<1>3. ProcInv'
  BY DEF TypeInv, ProcInv, Busy, Watch, telemetry
<1>4. QED
  BY <1>2, <1>3 DEF TypeInv, Watch, telemetry, files, history, Registered

(* A client leaves: the types are kept.                                     *)
LEMMA UnwatchTyped ==
  ASSUME TypeInv, Unwatch
  PROVE  TypeInv'
<1>1. <<>> \in Seq(Event)
  BY EmptyIs
<1>2. store' \in [Runs -> Seq(Event)]
  BY <1>1 DEF Unwatch
<1>3. ProcInv'
  BY DEF TypeInv, ProcInv, Busy, Unwatch, telemetry
<1>4. QED
  BY <1>2, <1>3 DEF TypeInv, Unwatch, telemetry, files, history, Registered

(* Time passes: the types are kept.                                         *)
LEMMA TickTyped ==
  ASSUME TypeInv, Tick
  PROVE  TypeInv'
<1>1. ProcInv'
  BY DEF TypeInv, ProcInv, Busy, Tick, telemetry
<1>2. now' \in 0 .. MaxClock
  BY ViewAssumption DEF TypeInv, Tick
<1>3. QED
  BY <1>1, <1>2 DEF TypeInv, Tick, telemetry, bridge, files, history, Registered

(* Nothing happens: the types are kept.                                     *)
LEMMA StutterTyped ==
  ASSUME TypeInv, UNCHANGED vars
  PROVE  TypeInv'
<1>1. ProcInv'
  BY DEF TypeInv, ProcInv, Busy, vars, telemetry
<1>2. QED
  BY <1>1 DEF TypeInv, vars, telemetry, bridge, files, history, Registered

(* An empty workspace has the types.                                        *)
LEMMA InitTyped ==
  ASSUME Init
  PROVE  TypeInv
<1>1. (CHOOSE v \in Values : TRUE) \in Values
  BY ViewAssumption
<1>2. lr \in [Slugs -> Values]
  BY <1>1 DEF Init
<1>3. final \in [Runs -> [Slugs -> Values]]
  BY <1>2 DEF Init
<1>4. <<>> \in Seq(Event) /\ <<>> \in Seq(Change) /\ Len(<<>>) = 0
  BY EmptyIs
<1>5. Registered = {}
  BY DEF Init, Registered
<1>6. ProcInv
  BY <1>4 DEF Init, ProcInv, Busy, Idle
<1>7. log \in Seq(Event) /\ queue \in Seq(Event) /\ sending \in Seq(Event)
      /\ Len(queue) = 0 /\ Len(sending) = 0 /\ changes \in Seq(Change)
      /\ store \in [Runs -> Seq(Event)]
  BY <1>4 DEF Init
<1>8. now \in 0 .. MaxClock /\ count \in 0 .. MaxCommands
  BY ViewAssumption DEF Init
<1>9. QED
  BY <1>2, <1>3, <1>5, <1>6, <1>7, <1>8 DEF Init, TypeInv

(* Every step keeps the types.                                              *)
LEMMA TypeStep ==
  ASSUME TypeInv, TableInv, [Next]_vars
  PROVE  TypeInv'
<1>1. CASE \E r \in Runs, c \in DOMAIN Tier, s \in Slugs \cup {NoSlug} : Enter(r, c, s)
  BY <1>1, EnterTyped
<1>2. CASE UNCHANGED vars
  BY <1>2, StutterTyped
<1>3. CASE Exit
  <2>1. torn' \subseteq Slugs
    BY <1>3 DEF Exit, history, TypeInv
  <2>2. QED
    BY <1>3, <2>1, GoneTyped DEF Exit, bridge, files, history
<1>4. QED
  BY <1>1, <1>2, <1>3, WriteFieldTyped, WriteRowTyped, RegisterTyped, LogCloseTyped,
     AcquireTyped, ReleaseTyped, RefuseTyped, LeaveTyped, KillTyped, AbandonTyped,
     TakeTyped, ArriveTyped, LoseTyped, WatchTyped, UnwatchTyped, TickTyped DEF Next

(* The log grows by what arrives, and by nothing else.                      *)
LEMMA LogStep ==
  ASSUME TypeInv, [Next]_vars
  PROVE  \/ log' = log
         \/ /\ Arrive /\ Head(sending) \in Event /\ sending # <<>>
            /\ log' = Append(log, Head(sending))
<1>1. CASE Arrive
  <2>1. sending \in Seq(Event) /\ sending # <<>>
    BY <1>1 DEF TypeInv, Arrive
  <2>2. QED
    BY <1>1, <2>1, HeadIs DEF Arrive
<1>2. CASE ~Arrive
  BY <1>2 DEF Next, vars, bridge, Enter, WriteField, WriteRow, Register, LogClose, Acquire,
     Release, Refuse, Leave, Exit, Kill, Abandon, Take, Lose, Unwatch, Watch, Tick
<1>3. QED
  BY <1>1, <1>2

(* An empty log has an empty table.                                         *)
LEMMA InitTable ==
  ASSUME Init
  PROVE  TableInv
<1>1. PICK u : u = Unfolded
  OBVIOUS
<1>2. u.tl = <<>> /\ u.opened = [key \in Keys |-> 0] /\ u = [tl |-> u.tl, opened |-> u.opened]
  BY <1>1 DEF Unfolded
<1>3. Table(u)
  BY <1>2, EmptyIs DEF Table
<1>4. \A r \in Runs : Fold(log, r) = u
  BY <1>1, FoldNone DEF Init
<1>5. QED
  BY <1>3, <1>4 DEF TableInv

(* Every step keeps the tables of all runs.                                 *)
LEMMA TableStep ==
  ASSUME TypeInv, TableInv, [Next]_vars
  PROVE  TableInv'
<1>1. CASE log' = log
  BY <1>1 DEF TableInv
<1>2. CASE Head(sending) \in Event /\ log' = Append(log, Head(sending))
  <2>1. PICK e \in Event : e = Head(sending)
    BY <1>2
  <2>2. ASSUME NEW r \in Runs PROVE Table(Fold(log', r))
    <3>1. log \in Seq(Event) /\ log' = Append(log, e) /\ Table(Fold(log, r))
      BY <1>2, <2>1 DEF TypeInv, TableInv
    <3>2. Fold(log', r) = IF e.run = r THEN FoldStep(Fold(log, r), e) ELSE Fold(log, r)
      BY <3>1, FoldAppend
    <3>3. Table(FoldStep(Fold(log, r), e))
      BY <3>1, FoldStepTyped
    <3>4. QED
      BY <3>1, <3>2, <3>3
  <2>3. QED
    BY <2>2 DEF TableInv
<1>3. QED
  BY <1>1, <1>2, LogStep

(* The types and the tables of the fold hold throughout.                    *)
THEOREM Types == Spec => [](TypeInv /\ TableInv)
<1>1. Init => TypeInv /\ TableInv
  BY InitTyped, InitTable
<1>2. TypeInv /\ TableInv /\ [Next]_vars => (TypeInv /\ TableInv)'
  BY TypeStep, TableStep
<1>3. QED
  BY <1>1, <1>2, PTL DEF Spec

(* TypeOK: what TLC checks of the types.                                    *)
THEOREM TypeCorrect == Spec => []TypeOK
<1>1. TypeInv => TypeOK
  <2>1. ASSUME NEW S, NEW s \in Seq(S) PROVE ToSet(s) \subseteq S
    BY DEF ToSet
  <2>2. QED
    BY <2>1 DEF TypeInv, TypeOK, ClosedRuns
<1>2. QED
  BY <1>1, Types, PTL

-----------------------------------------------------------------------------
(* THE PAGES AGREE                                                          *)

(* The exit code a page goes by is the one of an event.                     *)
LEMMA ExitCodeIs ==
  ASSUME TypeInv, NEW r
  PROVE  /\ ExitCode(r) \in {NoCode, 0, 1}
         /\ Heard(r) = {} => ~SawT9(r) /\ LastSeen(r) = Never
<1>1. log \in Seq(Event)
  BY DEF TypeInv
<1>2. Finals(r) \in SUBSET (1 .. Len(log)) /\ Len(log) \in Nat /\ Finals(r) \subseteq Heard(r)
  BY <1>1 DEF Finals, Heard
<1>3. CASE Finals(r) # {}
  <2>1. PICK i \in 1 .. Len(log) : i = Max(Finals(r))
    BY <1>2, <1>3, MaxIs
  <2>2. log[i] \in Event
    BY <1>1
  <2>3. ExitCode(r) = log[i].code
    BY <1>3, <2>1 DEF ExitCode, SawT9
  <2>4. QED
    BY <1>2, <1>3, <2>2, <2>3 DEF Event
<1>4. CASE Finals(r) = {}
  BY <1>4 DEF ExitCode, SawT9, LastSeen
<1>5. QED
  BY <1>3, <1>4

(* PagesAgree holds of every log and of any files with it: it is a matter   *)
(* of what the three pages make of them.                                   *)
LEMMA PagesSaySame ==
  ASSUME TypeInv
  PROVE  PagesAgree
<1> SUFFICES ASSUME NEW r \in DOMAIN SessionsPage
    PROVE  /\ SessionsPage[r] # SessionReplay(r).outcome <=> r \in ClosedRuns /\ LastCode(r) = 1
           /\ SessionsPage[r] # StateReplay.history[r] <=> r \in ClosedRuns /\ ~SawT9(r)
           /\ r \in ClosedRuns => "running" \notin {SessionsPage[r], SessionReplay(r).outcome}
  BY DEF PagesAgree
<1> DEFINE code == ExitCode(r)
           saw  == SawT9(r)
           ts   == LastSeen(r)
           told == Outcome(ts, saw, code)
           page == IF r \in Registered /\ r \in ClosedRuns THEN "clean"
                   ELSE IF Heard(r) # {} THEN told
                   ELSE "completed_no_t9"
           enriched == IF r \in Registered /\ r \in ClosedRuns THEN "clean"
                       ELSE IF saw THEN Outcome(ts, TRUE, code)
                       ELSE "running"
           past == Outcome(ts, saw, CASE enriched = "clean" -> 0
                                      [] enriched = "crash" -> 1
                                      [] OTHER -> NoCode)
           replay == Outcome(ts, saw \/ r \in ClosedRuns, LastCode(r))
<1>1. SessionsPage[r] = page
  BY DEF SessionsPage
<1>2. StateReplay.history[r] = past
  BY DEF StateReplay, History, SessionsPage
<1>3. SessionReplay(r).outcome = replay
  BY DEF SessionReplay
<1>4. /\ code \in {NoCode, 0, 1} /\ NoCode \notin {0, 1}
      /\ Heard(r) = {} => ~saw /\ ts = Never
      /\ r \in ClosedRuns => r \in Registered
      /\ LastCode(r) \in {NoCode, 0, 1}
  BY ExitCodeIs DEF TypeInv, NoCode, LastCode, CloseCode, ClosedRuns
<1>5. \A t, c : /\ Outcome(t, TRUE, c) = IF c \in {0, NoCode} THEN "clean" ELSE "crash"
                /\ Outcome(t, FALSE, c) = IF IsStale(t) THEN "completed_no_t9" ELSE "running"
  BY DEF Outcome
<1>6. IsStale(Never)
  BY DEF IsStale
<1>7. saw \in BOOLEAN
  BY DEF SawT9
<1>8. CASE r \in ClosedRuns
  <2>1. page = "clean" /\ enriched = "clean"
    BY <1>4, <1>8
  <2>2. replay = IF LastCode(r) = 1 THEN "crash" ELSE "clean"
    <3>1. replay = Outcome(ts, TRUE, LastCode(r))
      BY <1>7, <1>8
    <3>2. LastCode(r) \in {0, NoCode} \/ LastCode(r) = 1
      BY <1>4
    <3>3. Outcome(ts, TRUE, LastCode(r)) = IF LastCode(r) \in {0, NoCode} THEN "clean" ELSE "crash"
      BY <1>5
    <3>4. 1 \notin {0, NoCode}
      BY <1>4
    <3> HIDE DEF replay
    <3>5. QED
      BY <3>1, <3>2, <3>3, <3>4
  <2>3. past = "clean" <=> saw
    <3>1. past = Outcome(ts, saw, 0)
      BY <2>1
    <3>2. Outcome(ts, TRUE, 0) = "clean" /\ Outcome(ts, FALSE, 0) # "clean"
      BY <1>5
    <3>3. QED
      BY <1>7, <3>1, <3>2
  <2>4. QED
    <3> HIDE DEF page, past, replay, saw
    <3>1. SessionsPage[r] = "clean" /\ SessionReplay(r).outcome = replay
          /\ StateReplay.history[r] = past
      BY <1>1, <1>2, <1>3, <2>1
    <3>2. QED
      BY <1>8, <2>2, <2>3, <3>1 DEF saw
<1>9. CASE r \notin ClosedRuns
  <2>1. page = told
    <3>1. CASE Heard(r) # {}
      BY <1>9, <3>1
    <3>2. CASE Heard(r) = {}
      <4>1. saw = FALSE /\ ts = Never
        BY <1>4, <1>7, <3>2
      <4>2. told = "completed_no_t9"
        BY <1>5, <1>6, <4>1
      <4>3. QED
        BY <1>9, <3>2, <4>2
    <3>3. QED
      BY <3>1, <3>2
  <2>2. replay = told
    BY <1>7, <1>9 DEF LastCode
  <2>3. past = told
    <3>1. CASE saw
      BY <1>4, <1>5, <1>9, <3>1
    <3>2. CASE ~saw
      <4>1. saw = FALSE
        BY <1>7, <3>2
      <4>2. \A c : Outcome(ts, FALSE, c) = IF IsStale(ts) THEN "completed_no_t9" ELSE "running"
        BY <1>5
      <4>3. told = Outcome(ts, FALSE, code) /\ past = Outcome(ts, FALSE, NoCode)
        BY <1>9, <4>1
      <4>4. QED
        BY <4>2, <4>3
    <3>3. QED
      BY <3>1, <3>2
  <2>4. SessionsPage[r] = SessionReplay(r).outcome /\ SessionsPage[r] = StateReplay.history[r]
    <3> HIDE DEF told, page, past, replay
    <3>1. QED
      BY <1>1, <1>2, <1>3, <2>1, <2>2, <2>3
  <2>5. QED
    BY <1>9, <2>4
<1>10. QED
  BY <1>8, <1>9

(* Whatever the log and the files are, the sessions page, the replay of a   *)
(* session and the history of a state_replay say the same of a run exactly  *)
(* where PagesAgree says so: the RESULT of a close, the exit code of a T9    *)
(* and the absence of a T9 are weighed in one place and not in another.     *)
THEOREM PagesTellTheSame == Spec => []PagesAgree
BY Types, PagesSaySame, PTL

-----------------------------------------------------------------------------
(* THE STREAM OF EVENTS                                                     *)

Before(e, f) ==
    \/ e.exec < f.exec
    \/ e.exec = f.exec /\ e.code = NoCode /\ f.code # NoCode

Ordered(s)    == \A i, j \in 1 .. Len(s) : i < j => Before(s[i], s[j])
Precede(s, t) == \A i \in 1 .. Len(s), j \in 1 .. Len(t) : Before(s[i], t[j])

(* An event of the command that runs.  Its end is told when it exits.       *)
Own(e) ==
    /\ e.exec = count /\ e.run = proc.run /\ e.cmd = proc.cmd /\ e.slug = proc.slug
    /\ proc.at # "exit" => e.code = NoCode

HeardOwn ==
    \A i \in 1 .. Len(log) : /\ log[i].exec <= count
                             /\ Busy /\ log[i].exec = count => Own(log[i])

(* What waits to be sent is of the command that runs, and what the bridge   *)
(* has heard of is not newer.                                              *)
StreamInv ==
    /\ Ordered(log) /\ Ordered(queue)
    /\ Precede(log, sending) /\ Precede(log, queue) /\ Precede(sending, queue)
    /\ HeardOwn
    /\ \A i \in 1 .. Len(sending) : Own(sending[i])
    /\ \A i \in 1 .. Len(queue) : Own(queue[i])

(* The fields of an event of a log.                                         *)
LEMMA EventFields ==
  ASSUME NEW s \in Seq(Event), NEW i \in 1 .. Len(s)
  PROVE  /\ s[i] \in Event /\ s[i].exec \in Nat /\ s[i].run \in Runs
         /\ s[i].code \in {NoCode, 0, 1}
<1>1. s[i] \in Event
  OBVIOUS
<1>2. QED
  BY <1>1, ViewAssumption DEF Event

(* A step that tells nobody anything.                                       *)
Quiet ==
    /\ UNCHANGED <<log, queue, sending, count, lostStarts>>
    /\ \/ proc' = proc
       \/ /\ Busy /\ Busy' /\ proc.at # "exit" /\ proc'.at # "exit"
          /\ proc'.run = proc.run /\ proc'.cmd = proc.cmd /\ proc'.slug = proc.slug

(* The steps that tell something, and the others.                           *)
LEMMA StreamSteps ==
  ASSUME TypeInv, [Next]_vars
  PROVE  \/ \E r \in Runs, c \in DOMAIN Tier, s \in Slugs \cup {NoSlug} : Enter(r, c, s)
         \/ Leave \/ Take \/ Arrive \/ Lose \/ Exit \/ Kill
         \/ Quiet
<1>1. ASSUME WriteField PROVE Quiet
  <2>1. proc' = [at |-> "row", run |-> proc.run, cmd |-> proc.cmd, slug |-> proc.slug,
                 code |-> proc.code, old |-> lr[proc.slug]] /\ proc.at = "work"
    BY <1>1 DEF WriteField, AtWork
  <2>2. QED
    BY <1>1, <2>1 DEF Quiet, WriteField, telemetry, bridge, Busy
<1>2. ASSUME WriteRow \/ LogClose \/ Acquire \/ Release PROVE Quiet
  <2>1. Busy /\ proc.at # "exit" /\ Goto("leave")
    BY <1>2 DEF Busy, WriteRow, LogClose, Acquire, Release, AtWork, Unlogged
  <2>2. /\ proc'.run = proc.run /\ proc'.cmd = proc.cmd /\ proc'.slug = proc.slug
        /\ proc'.at = "leave" /\ Busy'
    BY <2>1, GotoIs
  <2>3. QED
    BY <1>2, <2>1, <2>2 DEF Quiet, WriteRow, LogClose, Acquire, Release, telemetry, bridge
<1>3. ASSUME Refuse PROVE Quiet
  <2>1. /\ proc'.run = proc.run /\ proc'.cmd = proc.cmd /\ proc'.slug = proc.slug
        /\ proc'.at = "leave" /\ Busy' /\ Busy
    BY <1>3, RefuseIs
  <2>2. QED
    BY <1>3, <2>1 DEF Quiet, Refuse, telemetry, bridge
<1>4. ASSUME Register \/ Abandon \/ Unwatch \/ Watch \/ Tick \/ UNCHANGED vars PROVE Quiet
  BY <1>4 DEF Quiet, Register, Abandon, Unwatch, Watch, Tick, vars, telemetry, bridge
<1>5. QED
  BY <1>1, <1>2, <1>3, <1>4 DEF Next

(* A command at work does not disturb the stream.                           *)
LEMMA QuietStream ==
  ASSUME TypeInv, StreamInv, Quiet
  PROVE  StreamInv'
<1>1. HeardOwn'
  BY DEF Quiet, StreamInv, HeardOwn, Own, Busy
<1>2. QED
  BY <1>1 DEF Quiet, StreamInv, Ordered, Precede, Before, Own

(* A start is newer than all that was heard.                                *)
LEMMA EnterStream ==
  ASSUME TypeInv, StreamInv, NEW r \in Runs, NEW c \in DOMAIN Tier,
         NEW s \in Slugs \cup {NoSlug}, Enter(r, c, s)
  PROVE  StreamInv'
<1>1. proc' \in Commands /\ proc'.at = "work"
  BY DEF Enter, Commands
<1>2. count' = count + 1 /\ count' \in 1 .. MaxCommands /\ count \in Nat
  BY ViewAssumption DEF Enter, TypeInv
<1>3. PICK e \in Event : e = Says(NoCode)
  BY <1>1, <1>2, SaysIs
<1>4. /\ e.exec = count + 1 /\ e.run = proc'.run /\ e.cmd = proc'.cmd /\ e.slug = proc'.slug
      /\ e.code = NoCode
  BY <1>1, <1>2, <1>3, SaysIs
<1>5. queue' = <<e>> /\ Len(queue') = 1 /\ queue'[1] = e
  BY <1>3, OneIs DEF Enter
<1>6. sending' = <<>> /\ Len(sending') = 0 /\ log' = log
  BY EmptyIs DEF Enter, TypeInv, ProcInv, Busy, Idle, bridge
<1>7. \A i \in 1 .. Len(log) : log[i].exec < count + 1 /\ log[i].exec \in Nat
  <2>1. \A i \in 1 .. Len(log) : log[i].exec \in Nat
    BY EventFields DEF TypeInv
  <2>2. \A i \in 1 .. Len(log) : log[i].exec \in Nat /\ log[i].exec <= count
    BY <2>1 DEF StreamInv, HeardOwn
  <2>3. QED
    BY <1>2, <2>2
<1>8. Ordered(log') /\ Ordered(queue')
  BY <1>5, <1>6 DEF StreamInv, HeardOwn, Ordered
<1>9. Precede(log', sending') /\ Precede(log', queue') /\ Precede(sending', queue')
  BY <1>4, <1>5, <1>6, <1>7 DEF Precede, Before
<1>10. \A i \in 1 .. Len(log') : log'[i].exec <= count' /\ ~(log'[i].exec = count')
  BY <1>2, <1>6, <1>7
<1>11. (\A i \in 1 .. Len(queue) : Own(queue[i]))'
  BY <1>2, <1>4, <1>5 DEF Own
<1>12. (\A i \in 1 .. Len(sending) : Own(sending[i]))'
  BY <1>6
<1>13. QED
  BY <1>8, <1>9, <1>10, <1>11, <1>12 DEF StreamInv, HeardOwn, Ordered, Precede, Before

(* An end comes after its start, wherever that is by then.                  *)
LEMMA LeaveStream ==
  ASSUME TypeInv, StreamInv, Leave
  PROVE  StreamInv'
<1>1. Busy /\ proc.at = "leave" /\ Goto("exit") /\ count' = count /\ count \in 1 .. MaxCommands
      /\ proc.code \in {0, 1}
  BY BusyFields DEF Leave, Busy
<1>2. /\ proc' \in Commands \/ proc' \in Updates
      /\ proc'.run = proc.run /\ proc'.cmd = proc.cmd /\ proc'.slug = proc.slug
      /\ proc'.at = "exit" /\ Busy'
  BY <1>1, GotoIs
<1>3. PICK e \in Event : e = Says(proc.code)
  BY <1>1, <1>2, SaysIs
<1>4. /\ e.exec = count /\ e.run = proc.run /\ e.cmd = proc.cmd /\ e.slug = proc.slug
      /\ e.code # NoCode
  BY <1>1, <1>2, <1>3, SaysIs DEF NoCode
<1>5. queue' = Append(queue, e) /\ sending' = sending /\ log' = log
  BY <1>3 DEF Leave, bridge
<1>6. Len(queue') = Len(queue) + 1 /\ queue'[Len(queue) + 1] = e
      /\ \A i \in 1 .. Len(queue) : queue'[i] = queue[i] /\ Len(queue) \in Nat
  BY <1>5, Appended DEF TypeInv
<1>7. /\ \A i \in 1 .. Len(queue) : Before(queue[i], e)
      /\ \A i \in 1 .. Len(sending) : Before(sending[i], e)
  BY <1>1, <1>4 DEF StreamInv, HeardOwn, Own, Before
<1>8. \A i \in 1 .. Len(log) : Before(log[i], e)
  <2>1. \A i \in 1 .. Len(log) : log[i].exec \in Nat
    BY EventFields DEF TypeInv
  <2>2. \A i \in 1 .. Len(log) : log[i].exec < count \/ (log[i].exec = count /\ log[i].code = NoCode)
    BY <1>1, <2>1 DEF StreamInv, HeardOwn, Own
  <2>3. QED
    BY <1>4, <2>2 DEF Before
<1>9. Ordered(queue')
  BY <1>6, <1>7 DEF StreamInv, HeardOwn, Ordered
<1>10. Ordered(log') /\ Precede(log', sending') /\ Precede(log', queue') /\ Precede(sending', queue')
  BY <1>5, <1>6, <1>7, <1>8 DEF StreamInv, HeardOwn, Precede
<1>11. \A f : Own(f) => Own(f)'
  BY <1>1, <1>2 DEF Own
<1>12. (\A i \in 1 .. Len(queue) : Own(queue[i]))'
  BY <1>1, <1>2, <1>4, <1>6, <1>11 DEF StreamInv, HeardOwn, Own
<1>13. QED
  BY <1>1, <1>2, <1>5, <1>9, <1>10, <1>11, <1>12 DEF StreamInv, HeardOwn, Ordered, Precede, Before

(* The telemetry thread takes events in their order.                        *)
LEMMA TakeStream ==
  ASSUME TypeInv, StreamInv, Take
  PROVE  StreamInv'
<1>1. queue \in Seq(Event) /\ queue # <<>> /\ Len(sending) = 0
  BY EmptyIs DEF TypeInv, Take
<1>2. PICK e \in Event : e = queue[1] /\ e = Head(queue)
  BY <1>1, HeadIs
<1>3. sending' = <<e>> /\ Len(sending') = 1 /\ sending'[1] = e
  BY <1>2, OneIs DEF Take
<1>4. /\ Len(queue') = Len(queue) - 1 /\ Len(queue) \in Nat /\ Len(queue) >= 1
      /\ \A i \in 1 .. Len(queue) - 1 : queue'[i] = queue[i + 1]
  BY <1>1, HeadIs DEF Take
<1>5. UNCHANGED <<log, proc, count>>
  BY DEF Take, bridge
<1>6. Ordered(queue')
  <2>1. ASSUME NEW i \in 1 .. Len(queue'), NEW j \in 1 .. Len(queue'), i < j
        PROVE  Before(queue'[i], queue'[j])
    <3>1. i + 1 \in 1 .. Len(queue) /\ j + 1 \in 1 .. Len(queue) /\ i + 1 < j + 1
      BY <1>4, <2>1
    <3>2. Before(queue[i + 1], queue[j + 1])
      BY <3>1 DEF StreamInv, HeardOwn, Ordered
    <3>3. QED
      BY <1>4, <3>2
  <2>2. QED
    BY <2>1 DEF Ordered
<1>7. Precede(log, sending') /\ Precede(log, queue') /\ Precede(sending', queue')
  <2>1. \A i \in 1 .. Len(queue') : i + 1 \in 1 .. Len(queue) /\ queue'[i] = queue[i + 1] /\ 1 < i + 1
    BY <1>4
  <2>2. 1 \in 1 .. Len(queue)
    BY <1>4
  <2>3. \A i \in 1 .. Len(log), j \in 1 .. Len(queue) : Before(log[i], queue[j])
    BY DEF StreamInv, HeardOwn, Precede
  <2>4. \A j \in 1 .. Len(queue) : 1 < j => Before(e, queue[j])
    BY <1>2, <2>2 DEF StreamInv, HeardOwn, Ordered
  <2>5. \A i \in 1 .. Len(sending') : sending'[i] = e
    BY <1>3
  <2>6. Precede(log, sending')
    BY <1>2, <2>2, <2>3, <2>5 DEF Precede
  <2>7. Precede(log, queue')
    BY <2>1, <2>3 DEF Precede
  <2>8. Precede(sending', queue')
    BY <2>1, <2>4, <2>5 DEF Precede
  <2>9. QED
    BY <2>6, <2>7, <2>8
<1>8. \A f : Own(f) => Own(f)'
  BY <1>5 DEF Own
<1>9. /\ \A i \in 1 .. Len(queue') : Own(queue'[i])
      /\ \A i \in 1 .. Len(sending') : Own(sending'[i])
  <2>1. \A i \in 1 .. Len(queue) : Own(queue[i])
    BY DEF StreamInv, HeardOwn
  <2>2. QED
    BY <1>2, <1>3, <1>4, <2>1
<1>10. /\ (\A i \in 1 .. Len(queue) : Own(queue[i]))'
       /\ (\A i \in 1 .. Len(sending) : Own(sending[i]))'
  BY <1>8, <1>9
<1>11. QED
  BY <1>5, <1>6, <1>7, <1>8, <1>10 DEF StreamInv, HeardOwn, Ordered, Precede, Before, Busy

(* What arrives is newer than all that was heard before.                    *)
LEMMA ArriveStream ==
  ASSUME TypeInv, StreamInv, Arrive
  PROVE  StreamInv'
<1>1. sending \in Seq(Event) /\ sending # <<>> /\ 1 \in 1 .. Len(sending) /\ log \in Seq(Event)
  <2>1. sending \in Seq(Event) /\ sending # <<>> /\ log \in Seq(Event)
    BY DEF TypeInv, Arrive
  <2>2. QED
    BY <2>1
<1>2. PICK e \in Event : e = sending[1] /\ e = Head(sending)
  BY <1>1, HeadIs
<1>3. log' = Append(log, e) /\ sending' = <<>> /\ Len(sending') = 0 /\ UNCHANGED <<proc, count, queue>>
  BY <1>2, EmptyIs DEF Arrive
<1>4. /\ Len(log') = Len(log) + 1 /\ log'[Len(log) + 1] = e /\ Len(log) \in Nat
      /\ \A i \in 1 .. Len(log) : log'[i] = log[i]
  BY <1>1, <1>3, Appended
<1>5. \A i \in 1 .. Len(log) : Before(log[i], e)
  BY <1>1, <1>2 DEF StreamInv, HeardOwn, Precede
<1>6. \A j \in 1 .. Len(queue) : Before(e, queue[j])
  BY <1>1, <1>2 DEF StreamInv, HeardOwn, Precede
<1>7. Own(e)
  BY <1>1, <1>2 DEF StreamInv, HeardOwn
<1>8. Ordered(log')
  BY <1>4, <1>5 DEF StreamInv, HeardOwn, Ordered
<1>9. Precede(log', queue')
  BY <1>3, <1>4, <1>6 DEF StreamInv, HeardOwn, Precede
<1>10. Precede(log', sending') /\ Precede(sending', queue')
  BY <1>3 DEF Precede
<1>11. \A f : Own(f)' <=> Own(f)
  BY <1>3 DEF Own
<1>12. e.exec = count /\ count \in Nat
  BY <1>7, ViewAssumption DEF Own, TypeInv
<1>13. \A i \in 1 .. Len(log') :
          /\ log'[i].exec <= count
          /\ Busy /\ log'[i].exec = count => Own(log'[i])
  <2>1. \A i \in 1 .. Len(log) : /\ log[i].exec <= count
                                 /\ Busy /\ log[i].exec = count => Own(log[i])
    BY DEF StreamInv, HeardOwn
  <2>2. QED
    BY <1>4, <1>7, <1>12, <2>1
<1>14. HeardOwn'
  <2>1. count' = count /\ proc' = proc /\ (Busy' <=> Busy)
    BY <1>3 DEF Busy
  <2>2. ASSUME NEW i \in 1 .. Len(log') PROVE log'[i].exec <= count'
    BY <1>13, <2>1
  <2>3. ASSUME NEW i \in 1 .. Len(log'), Busy', log'[i].exec = count' PROVE Own(log[i])'
    <3>1. Own(log'[i])
      BY <1>13, <2>1, <2>3
    <3>2. QED
      BY <2>1, <3>1 DEF Own
  <2>4. QED
    BY <2>2, <2>3 DEF HeardOwn
<1>15. /\ (\A i \in 1 .. Len(queue) : Own(queue[i]))'
       /\ (\A i \in 1 .. Len(sending) : Own(sending[i]))'
  BY <1>3 DEF StreamInv, Own
<1>16. Ordered(log)' /\ Ordered(queue)'
  BY <1>3, <1>8 DEF StreamInv, HeardOwn, Ordered, Before
<1>17. Precede(log, queue)' /\ Precede(log, sending)' /\ Precede(sending, queue)'
  BY <1>9, <1>10 DEF Precede, Before
<1>18. QED
  BY <1>14, <1>15, <1>16, <1>17 DEF StreamInv

(* Events that are given up leave the others in order.                      *)
LEMMA LoseStream ==
  ASSUME TypeInv, StreamInv, Lose
  PROVE  StreamInv'
<1>1. sending' = <<>> /\ Len(sending') = 0 /\ UNCHANGED <<proc, count, queue, log>>
  BY EmptyIs DEF Lose, AfterLoss, bridge
<1>2. QED
  BY <1>1 DEF StreamInv, HeardOwn, Ordered, Precede, Before, Own, Busy

(* Nothing of a process that is gone is sent any more.                      *)
LEMMA GoneStream ==
  ASSUME TypeInv, StreamInv, Gone, UNCHANGED <<log, count>>
  PROVE  StreamInv'
<1>1. /\ queue' = <<>> /\ Len(queue') = 0 /\ sending' = <<>> /\ Len(sending') = 0
      /\ ~Busy'
  BY EmptyIs DEF Gone, Busy, Idle
<1>2. QED
  BY <1>1 DEF StreamInv, HeardOwn, Ordered, Precede, Before

(* Nothing was told yet.                                                    *)
LEMMA InitStream ==
  ASSUME Init
  PROVE  StreamInv
<1>1. Len(log) = 0 /\ Len(queue) = 0 /\ Len(sending) = 0
  BY EmptyIs DEF Init
<1>2. QED
  BY <1>1 DEF StreamInv, HeardOwn, Ordered, Precede

(* Every step keeps the stream in order.                                    *)
LEMMA StreamStep ==
  ASSUME TypeInv, StreamInv, [Next]_vars
  PROVE  StreamInv'
<1>1. CASE Exit \/ Kill
  BY <1>1, GoneStream DEF Exit, Kill, bridge
<1>2. QED
  BY <1>1, StreamSteps, EnterStream, LeaveStream, TakeStream, ArriveStream, LoseStream, QuietStream

(* The events are in order on all of their way to the bridge.               *)
THEOREM Stream == Spec => []StreamInv
<1>1. Init => StreamInv
  BY InitStream
<1>2. TypeInv /\ StreamInv /\ [Next]_vars => StreamInv'
  BY StreamStep
<1>3. QED
  BY <1>1, <1>2, Types, PTL DEF Spec

(* The bridge hears of commands in the order they ran, of a start before    *)
(* its end, and of nothing twice.                                           *)
LEMMA InOrder ==
  ASSUME StreamInv
  PROVE  HeardInOrder
BY DEF StreamInv, HeardOwn, Ordered, Before, HeardInOrder

-----------------------------------------------------------------------------
(* STARTS AND THEIR ENDS                                                    *)

(* Steps of a timeline come from the log, one for each execution.           *)
From(l, tl, r) ==
    \A k \in 1 .. Len(tl) : \E i \in 1 .. Len(l) : l[i].run = r /\ l[i].exec = tl[k].exec

Distinct(tl) == \A k, m \in 1 .. Len(tl) : tl[k].exec = tl[m].exec => k = m

(* The start at i has a step, and its end, if it was heard, is there too.   *)
StepOf(l, tl, i) ==
    \E k \in 1 .. Len(tl) :
        /\ tl[k].exec = l[i].exec
        /\ \A j \in 1 .. Len(l) : l[j].exec = l[i].exec /\ l[j].code # NoCode
                                      => tl[k].code = l[j].code

Paired(l, tl, r) ==
    \A i \in 1 .. Len(l) : l[i].run = r /\ l[i].code = NoCode => StepOf(l, tl, i)

(* A start that is the last event is the step its end will close.           *)
LastOpen(l, s, r) ==
    LET e == l[Len(l)]
        k == Len(s.tl)
    IN  Len(l) # 0 /\ e.run = r /\ e.code = NoCode =>
            k >= 1 /\ s.opened[Key(e)] = k /\ s.tl[k] = e

FoldOk(l, s, r) == From(l, s.tl, r) /\ Distinct(s.tl) /\ Paired(l, s.tl, r) /\ LastOpen(l, s, r)

PairedInv == \A r \in Runs : FoldOk(log, Fold(log, r), r)

(* An event that comes after the others, and of which one may be the start. *)
Follows(l, e) ==
    \A i \in 1 .. Len(l) :
        /\ Before(l[i], e)
        /\ l[i].exec = e.exec => l[i].run = e.run /\ l[i].cmd = e.cmd /\ l[i].slug = e.slug

(* Only the last event of a log can be the start of the end that follows.   *)
LEMMA StartIsLast ==
  ASSUME NEW l \in Seq(Event), Ordered(l), NEW e \in Event, Follows(l, e),
         NEW i \in 1 .. Len(l), l[i].exec = e.exec
  PROVE  i = Len(l) /\ l[i].code = NoCode /\ e.code # NoCode /\ Key(l[i]) = Key(e) /\ l[i].run = e.run
<1>1. /\ Len(l) \in Nat /\ i \in 1 .. Len(l) /\ e.exec \in Nat
      /\ Len(l) \in 1 .. Len(l) /\ l[Len(l)].exec \in Nat
  <2>1. e.exec \in Nat
    BY ViewAssumption DEF Event
  <2>2. Len(l) \in Nat /\ i \in 1 .. Len(l)
    OBVIOUS
  <2>3. Len(l) \in 1 .. Len(l)
    BY <2>2
  <2>4. QED
    BY <2>1, <2>2, <2>3, EventFields
<1>2. l[i].code = NoCode /\ e.code # NoCode /\ l[i].run = e.run /\ Key(l[i]) = Key(e)
  BY <1>1 DEF Follows, Before, Key
<1>3. ASSUME i < Len(l) PROVE FALSE
  <2>1. Before(l[i], l[Len(l)]) /\ Before(l[Len(l)], e)
    BY <1>1, <1>3 DEF Ordered, Follows
  <2>2. QED
    BY <1>1, <2>1 DEF Before
<1>4. QED
  BY <1>1, <1>2, <1>3

(* A new step is of an execution of which nothing was heard.                *)
LEMMA NewStep ==
  ASSUME NEW l \in Seq(Event), NEW r \in Runs, NEW s, Table(s), FoldOk(l, s, r),
         Ordered(l), NEW e \in Event, Follows(l, e), e.run = r, ~Closes(s, e),
         NEW i \in 1 .. Len(l), l[i].exec = e.exec
  PROVE  FALSE
<1>1. i = Len(l) /\ l[i].code = NoCode /\ e.code # NoCode /\ Key(l[i]) = Key(e) /\ l[i].run = r
  BY StartIsLast
<1>2. Len(l) # 0 /\ l[Len(l)].run = r /\ l[Len(l)].code = NoCode
  BY <1>1
<1>3. Len(s.tl) >= 1 /\ s.opened[Key(l[Len(l)])] = Len(s.tl) /\ s.tl[Len(s.tl)] = l[Len(l)]
  BY <1>2 DEF FoldOk, LastOpen
<1>4. s.opened[Key(e)] = Len(s.tl) /\ Len(s.tl) # 0 /\ s.tl[Len(s.tl)].code = NoCode
  BY <1>1, <1>3
<1>5. QED
  BY <1>1, <1>4 DEF Closes

(* An event that becomes a step of its own.                                 *)
LEMMA PairedAppend ==
  ASSUME NEW l \in Seq(Event), NEW r \in Runs, NEW s, Table(s), FoldOk(l, s, r),
         Ordered(l), NEW e \in Event, Follows(l, e), e.run = r, ~Closes(s, e)
  PROVE  FoldOk(Append(l, e), FoldStep(s, e), r)
<1>1. PICK m : m = Append(l, e)
  OBVIOUS
<1>2. /\ Len(m) = Len(l) + 1 /\ m[Len(l) + 1] = e /\ Len(l) \in Nat
      /\ \A i \in 1 .. Len(l) : m[i] = l[i]
  BY <1>1, Appended
<1>3. PICK tl : tl = Append(s.tl, e)
  OBVIOUS
<1>4. /\ Len(tl) = Len(s.tl) + 1 /\ tl[Len(s.tl) + 1] = e /\ Len(s.tl) \in Nat
      /\ \A k \in 1 .. Len(s.tl) : tl[k] = s.tl[k]
  <2>1. s.tl \in Seq(Event)
    BY DEF Table
  <2>2. QED
    BY <1>3, <2>1, Appended
<1>5. PICK opened : opened = IF e.code # NoCode THEN s.opened
                             ELSE [s.opened EXCEPT ![Key(e)] = Len(s.tl) + 1]
  OBVIOUS
<1>6. PICK t : t = [tl |-> tl, opened |-> opened]
  OBVIOUS
<1>7. t.tl = tl /\ t.opened = opened /\ FoldStep(s, e) = t
  BY <1>3, <1>5, <1>6, FoldStepIs
<1>8. \A i \in 1 .. Len(l) : l[i].exec # e.exec
  BY NewStep
<1>9. From(m, tl, r)
  <2>1. ASSUME NEW k \in 1 .. Len(tl) PROVE \E i \in 1 .. Len(m) : m[i].run = r /\ m[i].exec = tl[k].exec
    <3>1. CASE k \in 1 .. Len(s.tl)
      <4>1. PICK i \in 1 .. Len(l) : l[i].run = r /\ l[i].exec = s.tl[k].exec
        BY <3>1 DEF FoldOk, From
      <4>2. i \in 1 .. Len(m) /\ m[i] = l[i] /\ tl[k] = s.tl[k]
        BY <1>2, <1>4, <3>1
      <4>3. QED
        BY <4>1, <4>2
    <3>2. CASE k = Len(s.tl) + 1
      <4>1. Len(l) + 1 \in 1 .. Len(m)
        BY <1>2
      <4>2. QED
        BY <1>2, <1>4, <3>2, <4>1
    <3>3. QED
      BY <1>4, <3>1, <3>2
  <2>2. QED
    BY <2>1 DEF From
<1>10. Distinct(tl)
  <2>1. \A k \in 1 .. Len(s.tl) : s.tl[k].exec # e.exec
    BY <1>8 DEF FoldOk, From
  <2>2. ASSUME NEW k \in 1 .. Len(tl), NEW n \in 1 .. Len(tl), tl[k].exec = tl[n].exec
        PROVE  k = n
    <3>1. CASE k \in 1 .. Len(s.tl) /\ n \in 1 .. Len(s.tl)
      BY <1>4, <2>2, <3>1 DEF FoldOk, Distinct
    <3>2. CASE k = Len(s.tl) + 1 \/ n = Len(s.tl) + 1
      BY <1>4, <2>1, <2>2, <3>2
    <3>3. QED
      BY <1>4, <3>1, <3>2
  <2>3. QED
    BY <2>2 DEF Distinct
<1>11. Paired(m, tl, r)
  <2>1. ASSUME NEW i \in 1 .. Len(m), m[i].run = r, m[i].code = NoCode PROVE StepOf(m, tl, i)
    <3>1. CASE i \in 1 .. Len(l)
      <4>1. StepOf(l, s.tl, i)
        BY <1>2, <2>1, <3>1 DEF FoldOk, Paired
      <4>2. PICK k \in 1 .. Len(s.tl) :
               /\ s.tl[k].exec = l[i].exec
               /\ \A j \in 1 .. Len(l) : l[j].exec = l[i].exec /\ l[j].code # NoCode
                                             => s.tl[k].code = l[j].code
        BY <4>1 DEF StepOf
      <4>3. k \in 1 .. Len(tl) /\ tl[k] = s.tl[k] /\ m[i] = l[i] /\ l[i].exec # e.exec
        BY <1>2, <1>4, <1>8, <3>1
      <4>4. \A j \in 1 .. Len(m) : m[j].exec = m[i].exec /\ m[j].code # NoCode
                                       => tl[k].code = m[j].code
        BY <1>2, <4>2, <4>3
      <4>5. QED
        BY <4>2, <4>3, <4>4 DEF StepOf
    <3>2. CASE i = Len(l) + 1
      <4>1. Len(tl) \in 1 .. Len(tl) /\ tl[Len(tl)] = e /\ m[i] = e /\ e.code = NoCode
        BY <1>2, <1>4, <2>1, <3>2
      <4>2. \A j \in 1 .. Len(m) : m[j].exec = m[i].exec => m[j] = e
        BY <1>2, <1>8, <4>1
      <4>3. QED
        BY <4>1, <4>2 DEF StepOf
    <3>3. QED
      BY <1>2, <3>1, <3>2
  <2>2. QED
    BY <2>1 DEF Paired
<1>12. LastOpen(m, t, r)
  <2>1. CASE e.code = NoCode
    <3>1. opened[Key(e)] = Len(s.tl) + 1
      BY <1>5, <2>1, KeyTyped DEF Table
    <3>2. QED
      BY <1>2, <1>4, <1>7, <3>1 DEF LastOpen
  <2>2. CASE e.code # NoCode
    BY <1>2, <2>2 DEF LastOpen
  <2>3. QED
    BY <2>1, <2>2
<1>13. FoldOk(m, t, r)
  BY <1>7, <1>9, <1>10, <1>11, <1>12 DEF FoldOk
<1>14. QED
  BY <1>1, <1>7, <1>13

(* An end that closes a step, its own or an older one left open.            *)
LEMMA PairedClose ==
  ASSUME NEW l \in Seq(Event), NEW r \in Runs, NEW s, Table(s), FoldOk(l, s, r),
         Ordered(l), NEW e \in Event, Follows(l, e), e.run = r, Closes(s, e)
  PROVE  FoldOk(Append(l, e), FoldStep(s, e), r)
<1>1. PICK m : m = Append(l, e)
  OBVIOUS
<1>2. /\ Len(m) = Len(l) + 1 /\ m[Len(l) + 1] = e /\ Len(l) \in Nat
      /\ \A i \in 1 .. Len(l) : m[i] = l[i]
  BY <1>1, Appended
<1>3. PICK k0 : k0 = s.opened[Key(e)]
  OBVIOUS
<1>4. /\ s.tl \in Seq(Event) /\ k0 \in 1 .. Len(s.tl) /\ e.code \in {NoCode, 0, 1}
      /\ e.code # NoCode /\ s.tl[k0].code = NoCode
  BY <1>3, KeyTyped DEF Table, Closes, Event
<1>5. PICK tl : tl = [s.tl EXCEPT ![k0].code = e.code]
  OBVIOUS
<1>6. /\ Len(tl) = Len(s.tl)
      /\ \A k \in 1 .. Len(s.tl) : /\ tl[k].exec = s.tl[k].exec
                                   /\ tl[k].code = IF k = k0 THEN e.code ELSE s.tl[k].code
  BY <1>4, <1>5, Closed
<1>7. PICK t : t = [tl |-> tl, opened |-> s.opened]
  OBVIOUS
<1>8. t.tl = tl /\ FoldStep(s, e) = t
  BY <1>3, <1>5, <1>7, FoldStepIs
<1>9. From(m, tl, r)
  <2>1. ASSUME NEW k \in 1 .. Len(tl) PROVE \E i \in 1 .. Len(m) : m[i].run = r /\ m[i].exec = tl[k].exec
    <3>1. PICK i \in 1 .. Len(l) : l[i].run = r /\ l[i].exec = s.tl[k].exec
      BY <1>6 DEF FoldOk, From
    <3>2. i \in 1 .. Len(m) /\ m[i] = l[i] /\ tl[k].exec = s.tl[k].exec
      BY <1>2, <1>6
    <3>3. QED
      BY <3>1, <3>2
  <2>2. QED
    BY <2>1 DEF From
<1>10. Distinct(tl)
  BY <1>6 DEF FoldOk, Distinct
<1>11. Paired(m, tl, r)
  <2>1. ASSUME NEW i \in 1 .. Len(m), m[i].run = r, m[i].code = NoCode PROVE StepOf(m, tl, i)
    <3>1. i \in 1 .. Len(l) /\ m[i] = l[i]
      BY <1>2, <1>4, <2>1
    <3>2. StepOf(l, s.tl, i)
      BY <2>1, <3>1 DEF FoldOk, Paired
    <3>3. PICK k \in 1 .. Len(s.tl) :
             /\ s.tl[k].exec = l[i].exec
             /\ \A j \in 1 .. Len(l) : l[j].exec = l[i].exec /\ l[j].code # NoCode
                                           => s.tl[k].code = l[j].code
      BY <3>2 DEF StepOf
    <3>4. CASE l[i].exec = e.exec
      <4>1. i = Len(l) /\ l[i].code = NoCode /\ Key(l[i]) = Key(e) /\ l[i].run = r
        BY <3>1, <3>4, StartIsLast
      <4>2. Len(l) # 0 /\ l[Len(l)].run = r /\ l[Len(l)].code = NoCode
        BY <3>1, <4>1
      <4>3. s.opened[Key(l[Len(l)])] = Len(s.tl) /\ s.tl[Len(s.tl)] = l[Len(l)]
        BY <4>2 DEF FoldOk, LastOpen
      <4>4. k0 = Len(s.tl) /\ s.tl[k0].exec = e.exec
        BY <1>3, <3>4, <4>1, <4>3
      <4>5. tl[k0].exec = m[i].exec /\ tl[k0].code = e.code /\ k0 \in 1 .. Len(tl)
        BY <1>4, <1>6, <3>1, <3>4, <4>4
      <4>6. \A j \in 1 .. Len(m) : m[j].exec = m[i].exec /\ m[j].code # NoCode => m[j] = e
        <5>1. \A j \in 1 .. Len(l) : l[j].exec = e.exec => l[j].code = NoCode
          BY StartIsLast
        <5>2. QED
          BY <1>2, <3>1, <3>4, <5>1
      <4>7. QED
        BY <4>5, <4>6 DEF StepOf
    <3>5. CASE l[i].exec # e.exec
      <4>1. k \in 1 .. Len(tl) /\ tl[k].exec = m[i].exec
        BY <1>6, <3>1, <3>3
      <4>2. ASSUME NEW j \in 1 .. Len(m), m[j].exec = m[i].exec, m[j].code # NoCode
            PROVE  tl[k].code = m[j].code
        <5>1. j \in 1 .. Len(l) /\ m[j] = l[j]
          BY <1>2, <3>1, <3>5, <4>2
        <5>2. s.tl[k].code = l[j].code
          BY <3>1, <3>3, <4>2, <5>1
        <5>3. k # k0
          BY <1>4, <4>2, <5>1, <5>2
        <5>4. QED
          BY <1>6, <5>1, <5>2, <5>3
      <4>3. QED
        BY <4>1, <4>2 DEF StepOf
    <3>6. QED
      BY <3>4, <3>5
  <2>2. QED
    BY <2>1 DEF Paired
<1>12. LastOpen(m, t, r)
  BY <1>2, <1>4 DEF LastOpen
<1>13. FoldOk(m, t, r)
  BY <1>8, <1>9, <1>10, <1>11, <1>12 DEF FoldOk
<1>14. QED
  BY <1>1, <1>8, <1>13

(* An event of another run.                                                 *)
LEMMA PairedOther ==
  ASSUME NEW l \in Seq(Event), NEW r \in Runs, NEW s, FoldOk(l, s, r),
         Ordered(l), NEW e \in Event, Follows(l, e), e.run # r
  PROVE  FoldOk(Append(l, e), s, r)
<1>1. PICK m : m = Append(l, e)
  OBVIOUS
<1>2. /\ Len(m) = Len(l) + 1 /\ m[Len(l) + 1] = e /\ Len(l) \in Nat
      /\ \A i \in 1 .. Len(l) : m[i] = l[i] /\ i \in 1 .. Len(m)
  BY <1>1, Appended
<1>3. From(m, s.tl, r)
  BY <1>2 DEF FoldOk, From
<1>4. Paired(m, s.tl, r)
  <2>1. ASSUME NEW i \in 1 .. Len(m), m[i].run = r, m[i].code = NoCode PROVE StepOf(m, s.tl, i)
    <3>1. i \in 1 .. Len(l) /\ m[i] = l[i]
      BY <1>2, <2>1
    <3>2. PICK k \in 1 .. Len(s.tl) :
             /\ s.tl[k].exec = l[i].exec
             /\ \A j \in 1 .. Len(l) : l[j].exec = l[i].exec /\ l[j].code # NoCode
                                           => s.tl[k].code = l[j].code
      BY <2>1, <3>1 DEF FoldOk, Paired, StepOf
    <3>3. l[i].exec # e.exec
      BY <2>1, <3>1, StartIsLast
    <3>4. \A j \in 1 .. Len(m) : m[j].exec = m[i].exec /\ m[j].code # NoCode
                                     => s.tl[k].code = m[j].code
      BY <1>2, <3>1, <3>2, <3>3
    <3>5. QED
      BY <3>1, <3>2, <3>4 DEF StepOf
  <2>2. QED
    BY <2>1 DEF Paired
<1>5. LastOpen(m, s, r)
  BY <1>2 DEF LastOpen
<1>6. QED
  BY <1>1, <1>3, <1>4, <1>5 DEF FoldOk

(* What arrives follows what was heard.                                     *)
LEMMA ArrivalFollows ==
  ASSUME TypeInv, StreamInv, Arrive
  PROVE  /\ log \in Seq(Event) /\ Ordered(log) /\ Busy
         /\ sending[1] \in Event /\ Head(sending) = sending[1] /\ Follows(log, sending[1])
         /\ Own(sending[1]) /\ log' = Append(log, sending[1])
<1>1. sending \in Seq(Event) /\ sending # <<>> /\ log \in Seq(Event)
  BY DEF TypeInv, Arrive
<1>2. 1 \in 1 .. Len(sending) /\ Head(sending) = sending[1] /\ sending[1] \in Event
  BY <1>1
<1>3. Busy
  BY <1>1 DEF TypeInv, ProcInv
<1>4. Own(sending[1]) /\ \A i \in 1 .. Len(log) : Before(log[i], sending[1])
  BY <1>2 DEF StreamInv, Precede
<1>5. Follows(log, sending[1])
  BY <1>3, <1>4 DEF StreamInv, HeardOwn, Own, Follows
<1>6. QED
  BY <1>1, <1>2, <1>3, <1>4, <1>5 DEF StreamInv, Arrive

(* An empty log has no pairs.                                               *)
LEMMA InitPaired ==
  ASSUME Init
  PROVE  PairedInv
<1>1. PICK u : u = Unfolded
  OBVIOUS
<1>2. Len(u.tl) = 0 /\ Len(log) = 0
  BY <1>1, EmptyIs DEF Unfolded, Init
<1>3. \A r \in Runs : Fold(log, r) = u
  BY <1>1, FoldNone DEF Init
<1>4. \A r : FoldOk(log, u, r)
  BY <1>2 DEF FoldOk, From, Distinct, Paired, LastOpen
<1>5. QED
  BY <1>3, <1>4 DEF PairedInv

(* Every step keeps starts and ends paired, for every run.                  *)
LEMMA PairedStep ==
  ASSUME TypeInv, TableInv, StreamInv, PairedInv, [Next]_vars
  PROVE  PairedInv'
<1>1. CASE log' = log
  BY <1>1 DEF PairedInv
<1>2. CASE Arrive
  <2>1. PICK e \in Event : e = sending[1]
    BY <1>2, ArrivalFollows
  <2>2. log \in Seq(Event) /\ Ordered(log) /\ Follows(log, e) /\ log' = Append(log, e)
    BY <1>2, <2>1, ArrivalFollows
  <2>3. ASSUME NEW r \in Runs PROVE FoldOk(log', Fold(log', r), r)
    <3>1. Fold(log', r) = IF e.run = r THEN FoldStep(Fold(log, r), e) ELSE Fold(log, r)
      BY <2>2, FoldAppend
    <3>2. FoldOk(log, Fold(log, r), r) /\ Table(Fold(log, r))
      BY DEF PairedInv, TableInv
    <3>3. CASE e.run # r
      BY <2>2, <3>1, <3>2, <3>3, PairedOther
    <3>4. CASE e.run = r /\ Closes(Fold(log, r), e)
      BY <2>2, <3>1, <3>2, <3>4, PairedClose
    <3>5. CASE e.run = r /\ ~Closes(Fold(log, r), e)
      BY <2>2, <3>1, <3>2, <3>5, PairedAppend
    <3>6. QED
      BY <3>3, <3>4, <3>5
  <2>4. QED
    BY <2>3 DEF PairedInv
<1>3. QED
  BY <1>1, <1>2, LogStep

(* Starts and ends are paired throughout.                                   *)
THEOREM Pairing == Spec => []PairedInv
<1>1. Init => PairedInv
  BY InitPaired
<1>2. TypeInv /\ TableInv /\ StreamInv /\ PairedInv /\ [Next]_vars => PairedInv'
  BY PairedStep
<1>3. QED
  BY <1>1, <1>2, Types, Stream, PTL DEF Spec

(* A command of which both events arrived is one step.                      *)
LEMMA StepsArePaired ==
  ASSUME TypeInv, TableInv, PairedInv
  PROVE  PairedSteps
<1> SUFFICES ASSUME NEW i \in 1 .. Len(log), NEW j \in 1 .. Len(log),
                    log[i].exec = log[j].exec, log[i].code = NoCode, log[j].code # NoCode
    PROVE  LET tl == Timeline(log, log[i].run)
           IN  \E k \in DOMAIN tl : /\ {m \in DOMAIN tl : tl[m].exec = log[i].exec} = {k}
                                    /\ tl[k].code = log[j].code
  BY DEF PairedSteps
<1>1. PICK r \in Runs : r = log[i].run
  BY EventFields DEF TypeInv
<1>2. PICK tl : tl = Timeline(log, r)
  OBVIOUS
<1>3. tl = Fold(log, r).tl /\ tl \in Seq(Event)
  BY <1>2, TimelineIs DEF TableInv, Table
<1>4. Distinct(tl) /\ StepOf(log, tl, i)
  BY <1>1, <1>3 DEF PairedInv, FoldOk, Paired
<1>5. PICK k \in 1 .. Len(tl) : tl[k].exec = log[i].exec /\ tl[k].code = log[j].code
  BY <1>4 DEF StepOf
<1>6. DOMAIN tl = 1 .. Len(tl)
  BY <1>3
<1>7. {m \in DOMAIN tl : tl[m].exec = log[i].exec} = {k}
  BY <1>4, <1>5, <1>6 DEF Distinct
<1>8. QED
  BY <1>1, <1>2, <1>5, <1>6, <1>7

(* TimelineTrue: the bridge hears of commands in the order they ran, and a  *)
(* command whose start and end both arrived is one step with its own exit   *)
(* code, whatever was lost or killed.                                       *)
THEOREM TimelineIsTrue == Spec => []TimelineTrue
<1>1. TypeInv /\ TableInv /\ StreamInv /\ PairedInv => TimelineTrue
  BY InOrder, StepsArePaired DEF TimelineTrue
<1>2. QED
  BY <1>1, Types, Stream, Pairing, PTL

-----------------------------------------------------------------------------
(* THE CLIENT'S STORE                                                       *)

(* The start of the command that runs is on its way, heard, or lost.        *)
HasStart(s) == \E i \in 1 .. Len(s) : s[i].exec = count /\ s[i].code = NoCode

StartInv ==
    Busy => proc.run \in lostStarts \/ HasStart(log) \/ HasStart(sending) \/ HasStart(queue)

StoreInv == watching => \A r \in Runs \ lostStarts : store[r] = Fold(log, r).tl

(* The start of the command that runs is accounted for by every step.       *)
LEMMA StartStep ==
  ASSUME TypeInv, StreamInv, StartInv, [Next]_vars
  PROVE  StartInv'
<1>1. ASSUME NEW r \in Runs, NEW c \in DOMAIN Tier, NEW s \in Slugs \cup {NoSlug}, Enter(r, c, s)
      PROVE  StartInv'
  <2>1. proc' \in Commands /\ count' \in 1 .. MaxCommands
    BY <1>1, ViewAssumption DEF Enter, Commands, TypeInv
  <2>2. PICK e \in Event : e = Says(NoCode)
    BY <2>1, SaysIs
  <2>3. e.exec = count' /\ e.code = NoCode
    BY <2>1, <2>2, SaysIs
  <2>4. queue' = <<e>> /\ Len(queue') = 1 /\ queue'[1] = e
    BY <1>1, <2>2, OneIs DEF Enter
  <2>5. \E i \in 1 .. Len(queue') : queue'[i].exec = count' /\ queue'[i].code = NoCode
    BY <2>3, <2>4
  <2>6. HasStart(queue)'
    BY <2>5 DEF HasStart
  <2>7. QED
    BY <2>6 DEF StartInv
<1>2. CASE Leave
  <2>1. Busy /\ proc.at = "leave" /\ Goto("exit") /\ count' = count /\ count \in 1 .. MaxCommands
        /\ proc.code \in {0, 1}
    BY <1>2, BusyFields DEF Leave, Busy
  <2>2. (proc' \in Commands \/ proc' \in Updates) /\ proc'.run = proc.run
    BY <2>1, GotoIs
  <2>3. PICK e \in Event : e = Says(proc.code)
    BY <2>1, <2>2, SaysIs
  <2>4. queue' = Append(queue, e) /\ queue \in Seq(Event) /\ UNCHANGED <<sending, log, lostStarts>>
    BY <1>2, <2>3 DEF Leave, bridge, TypeInv
  <2>5. \A i \in 1 .. Len(queue) : i \in 1 .. Len(queue') /\ queue'[i] = queue[i]
    BY <2>4
  <2>6. HasStart(queue) => HasStart(queue)'
    BY <2>1, <2>5 DEF HasStart
  <2>7. QED
    BY <2>1, <2>2, <2>4, <2>6 DEF StartInv, HasStart
<1>3. CASE Take
  <2>1. queue \in Seq(Event) /\ queue # <<>> /\ Len(sending) = 0
    BY <1>3, EmptyIs DEF TypeInv, Take
  <2>2. PICK e \in Event : e = queue[1] /\ e = Head(queue)
    BY <2>1, HeadIs
  <2>3. sending' = <<e>> /\ Len(sending') = 1 /\ sending'[1] = e
    BY <1>3, <2>2, OneIs DEF Take
  <2>4. /\ Len(queue') = Len(queue) - 1 /\ Len(queue) \in Nat
        /\ \A i \in 1 .. Len(queue) - 1 : queue'[i] = queue[i + 1]
    BY <1>3, <2>1, HeadIs DEF Take
  <2>5. UNCHANGED <<log, proc, count, lostStarts>>
    BY <1>3 DEF Take, bridge
  <2>6. HasStart(queue) => HasStart(sending)' \/ HasStart(queue)'
    <3>1. ASSUME NEW i \in 1 .. Len(queue), queue[i].exec = count, queue[i].code = NoCode
          PROVE  \/ \E k \in 1 .. Len(sending') : sending'[k].exec = count /\ sending'[k].code = NoCode
                 \/ \E k \in 1 .. Len(queue') : queue'[k].exec = count /\ queue'[k].code = NoCode
      <4>1. CASE i = 1
        BY <2>2, <2>3, <3>1, <4>1
      <4>2. CASE i # 1
        <5>1. i - 1 \in 1 .. Len(queue) - 1 /\ (i - 1) + 1 = i
          BY <2>4, <4>2
        <5>2. i - 1 \in 1 .. Len(queue') /\ queue'[i - 1] = queue[i]
          BY <2>4, <5>1
        <5>3. QED
          BY <3>1, <5>2
      <4>3. QED
        BY <4>1, <4>2
    <3>2. QED
      BY <2>5, <3>1 DEF HasStart
  <2>7. ~HasStart(sending)
    BY <2>1 DEF HasStart
  <2>8. QED
    BY <2>5, <2>6, <2>7 DEF StartInv, HasStart, Busy
<1>4. CASE Arrive
  <2>1. PICK e \in Event : e = sending[1]
    BY <1>4, ArrivalFollows
  <2>2. /\ log \in Seq(Event) /\ log' = Append(log, e) /\ Len(sending) <= 1
        /\ UNCHANGED <<proc, count, queue, lostStarts>>
    BY <1>4, <2>1, ArrivalFollows DEF Arrive, TypeInv
  <2>3. /\ Len(log') = Len(log) + 1 /\ log'[Len(log) + 1] = e /\ Len(log) \in Nat
        /\ \A i \in 1 .. Len(log) : log'[i] = log[i] /\ i \in 1 .. Len(log')
    BY <2>2, Appended
  <2>4. HasStart(sending) => HasStart(log)'
    <3>1. ASSUME NEW i \in 1 .. Len(sending), sending[i].exec = count, sending[i].code = NoCode
          PROVE  log'[Len(log) + 1].exec = count /\ log'[Len(log) + 1].code = NoCode
      <4>1. i = 1
        BY <2>2
      <4>2. QED
        BY <2>1, <2>3, <3>1, <4>1
    <3>2. Len(log) + 1 \in 1 .. Len(log')
      BY <2>3
    <3>3. QED
      BY <2>2, <3>1, <3>2 DEF HasStart
  <2>5. HasStart(log) => HasStart(log)'
    BY <2>2, <2>3 DEF HasStart
  <2>6. QED
    BY <2>2, <2>4, <2>5 DEF StartInv, HasStart, Busy
<1>5. CASE Lose
  <2>1. UNCHANGED <<proc, count, queue, log>>
    BY <1>5 DEF Lose, AfterLoss, bridge
  <2>2. lostStarts' = lostStarts \cup {e.run : e \in {f \in ToSet(sending) : f.code = NoCode}}
    BY <1>5 DEF Lose, AfterLoss
  <2>3. HasStart(sending) => proc.run \in lostStarts'
    <3>1. ASSUME NEW i \in 1 .. Len(sending), sending[i].code = NoCode PROVE proc.run \in lostStarts'
      <4>1. Own(sending[i])
        BY DEF StreamInv
      <4>2. sending[i].run = proc.run
        BY <4>1 DEF Own
      <4>3. sending[i] \in ToSet(sending)
        BY DEF ToSet, TypeInv
      <4>4. QED
        BY <2>2, <3>1, <4>2, <4>3
    <3>2. QED
      BY <3>1 DEF HasStart
  <2>4. lostStarts \subseteq lostStarts'
    BY <2>2
  <2>5. QED
    BY <2>1, <2>3, <2>4 DEF StartInv, HasStart, Busy
<1>6. CASE Exit \/ Kill
  BY <1>6 DEF Exit, Kill, Gone, StartInv, Busy, Idle
<1>7. CASE Quiet
  <2>1. Busy' => Busy /\ proc'.run = proc.run
    BY <1>7 DEF Quiet, Busy
  <2>2. HasStart(log)' = HasStart(log) /\ HasStart(queue)' = HasStart(queue)
        /\ HasStart(sending)' = HasStart(sending) /\ lostStarts' = lostStarts
    BY <1>7 DEF Quiet, HasStart
  <2>3. QED
    BY <2>1, <2>2 DEF StartInv
<1>8. QED
  BY <1>1, <1>2, <1>3, <1>4, <1>5, <1>6, <1>7, StreamSteps

(* No start is found again.                                                 *)
LEMMA LostStaysLost ==
  ASSUME TypeInv, [Next]_vars
  PROVE  lostStarts \subseteq lostStarts'
<1>1. CASE \E r \in Runs, c \in DOMAIN Tier, s \in Slugs \cup {NoSlug} : Enter(r, c, s)
  BY <1>1 DEF Enter
<1>2. CASE Leave \/ Take \/ Arrive \/ Lose \/ Exit \/ Kill
  BY <1>2 DEF Leave, Take, Arrive, Lose, AfterLoss, Exit, Kill, Gone
<1>3. CASE Quiet
  BY <1>3 DEF Quiet
<1>4. QED
  BY <1>1, <1>2, <1>3, StreamSteps

(* The end of a command whose start was heard closes the same step for the  *)
(* bridge and for the store: the last one.                                  *)
LEMMA SameStep ==
  ASSUME TypeInv, TableInv, StreamInv, PairedInv, StartInv, Arrive,
         NEW r \in Runs, r \notin lostStarts, sending[1].run = r
  PROVE  StoreStep(Fold(log, r).tl, sending[1]) = FoldStep(Fold(log, r), sending[1]).tl
<1>1. PICK e \in Event : e = sending[1]
  BY ArrivalFollows
<1>2. /\ log \in Seq(Event) /\ Ordered(log) /\ Follows(log, e) /\ Own(e) /\ Busy
      /\ e.run = r
  BY <1>1, ArrivalFollows
<1>3. PICK s : s = Fold(log, r)
  OBVIOUS
<1>4. Table(s) /\ FoldOk(log, s, r) /\ s.tl \in Seq(Event) /\ Len(s.tl) \in Nat
  BY <1>3 DEF TableInv, PairedInv, Table
<1>5. CASE e.code = NoCode
  <2>1. ~Closes(s, e)
    BY <1>5 DEF Closes
  <2>2. PICK t : t = [tl |-> Append(s.tl, e), opened |-> [s.opened EXCEPT ![Key(e)] = Len(s.tl) + 1]]
    OBVIOUS
  <2>3. FoldStep(s, e) = t /\ t.tl = Append(s.tl, e)
    BY <1>5, <2>1, <2>2, FoldStepIs
  <2>4. StoreStep(s.tl, e) = Append(s.tl, e)
    BY <1>4, <1>5, StoreStepIs
  <2>5. QED
    BY <1>1, <1>3, <2>3, <2>4
<1>6. CASE e.code # NoCode
  <2>1. HasStart(log)
    <3>1. ~HasStart(sending)
      <4>1. \A i \in 1 .. Len(sending) : i = 1
        BY DEF TypeInv
      <4>2. QED
        BY <1>1, <1>6, <4>1 DEF HasStart
    <3>2. ~HasStart(queue)
      <4>1. sending \in Seq(Event) /\ sending # <<>>
        BY DEF TypeInv, Arrive
      <4>2. 1 \in 1 .. Len(sending)
        BY <4>1
      <4>3. \A j \in 1 .. Len(queue) : Before(e, queue[j])
        BY <1>1, <4>2 DEF StreamInv, Precede
      <4>4. e.exec = count /\ count \in Nat
        BY <1>2, ViewAssumption DEF Own, TypeInv
      <4>5. QED
        BY <1>6, <4>3, <4>4 DEF Before, HasStart
    <3>3. proc.run = r
      BY <1>2 DEF Own
    <3>4. QED
      BY <1>2, <3>1, <3>2, <3>3 DEF StartInv
  <2>2. PICK i \in 1 .. Len(log) : log[i].exec = e.exec
    BY <1>2, <2>1 DEF HasStart, Own
  <2>3. i = Len(log) /\ log[i].code = NoCode /\ Key(log[i]) = Key(e) /\ log[i].run = r
    BY <1>2, <2>2, StartIsLast
  <2>4. Len(log) # 0 /\ log[Len(log)].run = r /\ log[Len(log)].code = NoCode
    BY <2>3
  <2>5. /\ Len(s.tl) >= 1 /\ s.opened[Key(log[Len(log)])] = Len(s.tl)
        /\ s.tl[Len(s.tl)] = log[Len(log)]
    BY <1>4, <2>4 DEF FoldOk, LastOpen
  <2>6. PICK n \in 1 .. Len(s.tl) : n = Len(s.tl)
    BY <1>4, <2>5
  <2>7. s.opened[Key(e)] = n /\ s.tl[n].code = NoCode /\ n # 0 /\ Key(s.tl[n]) = Key(e)
    BY <2>3, <2>5, <2>6
  <2>8. Closes(s, e)
    BY <1>6, <2>7 DEF Closes
  <2>9. PICK t : t = [tl |-> [s.tl EXCEPT ![n].code = e.code], opened |-> s.opened]
    OBVIOUS
  <2>10. FoldStep(s, e) = t /\ t.tl = [s.tl EXCEPT ![n].code = e.code]
    BY <2>7, <2>8, <2>9, FoldStepIs
  <2>11. n \in Opens(s.tl, e)
    BY <2>7 DEF Opens, OpenAt, Key
  <2>12. PICK k \in Opens(s.tl, e) :
            /\ \A j \in Opens(s.tl, e) : j <= k
            /\ StoreStep(s.tl, e) = [s.tl EXCEPT ![k].code = e.code]
    BY <1>4, <1>6, <2>11, StoreStepIs
  <2>13. k \in 1 .. Len(s.tl) /\ n <= k
    BY <2>11, <2>12 DEF Opens
  <2>14. k = n
    BY <1>4, <2>6, <2>13
  <2>15. QED
    BY <1>1, <1>3, <2>10, <2>12, <2>14
<1>7. QED
  BY <1>5, <1>6

(* Every step keeps the store equal to the fold of the bridge.              *)
LEMMA StoreInvStep ==
  ASSUME TypeInv, TableInv, StreamInv, PairedInv, StartInv, StoreInv, [Next]_vars
  PROVE  StoreInv'
<1>1. lostStarts \subseteq lostStarts'
  BY LostStaysLost
<1>2. CASE Arrive
  <2>1. PICK e \in Event : e = sending[1]
    BY <1>2, ArrivalFollows
  <2>2. log \in Seq(Event) /\ log' = Append(log, e) /\ e = Head(sending) /\ e.run \in Runs
    BY <1>2, <2>1, ArrivalFollows DEF Event
  <2>3. watching' = watching
        /\ (watching => store' = [store EXCEPT ![e.run] = StoreStep(store[e.run], e)])
    BY <1>2, <2>2 DEF Arrive
  <2>4. ASSUME watching', NEW r \in Runs, r \notin lostStarts' PROVE store'[r] = Fold(log', r).tl
    <3>1. store[r] = Fold(log, r).tl /\ r \notin lostStarts
      BY <1>1, <2>3, <2>4 DEF StoreInv
    <3>2. Fold(log', r) = IF e.run = r THEN FoldStep(Fold(log, r), e) ELSE Fold(log, r)
      BY <2>2, FoldAppend
    <3>3. CASE e.run = r
      <4>1. store'[r] = StoreStep(store[r], e)
        BY <2>2, <2>3, <2>4, <3>3 DEF TypeInv
      <4>2. StoreStep(Fold(log, r).tl, e) = FoldStep(Fold(log, r), e).tl
        BY <1>2, <2>1, <3>1, <3>3, SameStep
      <4>3. QED
        BY <3>1, <3>2, <3>3, <4>1, <4>2
    <3>4. CASE e.run # r
      <4>1. store'[r] = store[r]
        BY <2>2, <2>3, <2>4, <3>4 DEF TypeInv
      <4>2. QED
        BY <3>1, <3>2, <3>4, <4>1
    <3>5. QED
      BY <3>3, <3>4
  <2>5. QED
    BY <2>4 DEF StoreInv
<1>3. CASE Watch
  <2>1. log' = log /\ \A r \in Runs : store'[r] = Timeline(log, r)
    BY <1>3 DEF Watch
  <2>2. QED
    BY <2>1, TimelineIs DEF StoreInv
<1>4. CASE Unwatch
  BY <1>4 DEF Unwatch, StoreInv
<1>5. CASE UNCHANGED <<log, store, watching>>
  BY <1>1, <1>5 DEF StoreInv
<1>6. Arrive \/ Watch \/ Unwatch \/ UNCHANGED <<log, store, watching>>
  BY DEF Next, vars, bridge, Enter, WriteField, WriteRow, Register, LogClose, Acquire,
     Release, Refuse, Leave, Exit, Kill, Abandon, Take, Lose, Tick
<1>7. QED
  BY <1>2, <1>3, <1>4, <1>5, <1>6

(* An empty store agrees with an empty log.                                 *)
LEMMA InitStore ==
  ASSUME Init
  PROVE  StartInv /\ StoreInv
<1>1. StartInv
  BY DEF Init, StartInv, Busy, Idle
<1>2. PICK u : u = Unfolded
  OBVIOUS
<1>3. u.tl = <<>> /\ \A r : Fold(log, r) = u
  BY <1>2, FoldNone DEF Init, Unfolded
<1>4. \A r \in Runs : store[r] = <<>>
  BY DEF Init
<1>5. QED
  BY <1>1, <1>3, <1>4 DEF StoreInv

(* StoreAgrees: a store that followed the events shows the timelines that   *)
(* the bridge folds from its log, of every run of which no start was lost.  *)
THEOREM StoreIsTrue == Spec => []StoreAgrees
<1>1. Init => StartInv /\ StoreInv
  BY InitStore
<1>2. /\ TypeInv /\ TableInv /\ StreamInv /\ PairedInv /\ StartInv /\ StoreInv /\ [Next]_vars
      => (StartInv /\ StoreInv)'
  BY StartStep, StoreInvStep
<1>3. StoreInv => StoreAgrees
  BY TimelineIs DEF StoreInv, StoreAgrees
<1>4. QED
  BY <1>1, <1>2, <1>3, Types, Stream, Pairing, PTL DEF Spec

-----------------------------------------------------------------------------
(* THE REPLAY OF A SESSION                                                  *)

(* A field as the log of changes will have it: a change without a row is    *)
(* not in it yet.                                                           *)
Current(s) == IF Unlogged /\ proc.slug = s THEN proc.old ELSE lr[s]

(* A row of another run for the project.                                    *)
Other(i, r, s) == changes[i].run # r /\ changes[i].slug = s

(* What came after the row j of a run that is over, was found as the run    *)
(* had left it.                                                             *)
LeftAs(r, s, j) ==
    /\ (\A i \in j + 1 .. Len(changes) : ~Other(i, r, s)) => Current(s) = final[r][s]
    /\ \A i \in j + 1 .. Len(changes) :
          Other(i, r, s) /\ (\A k \in j + 1 .. i - 1 : ~Other(k, r, s))
              => changes[i].old = final[r][s]

(* Rows are written by the run that is open, one run after the other.       *)
RowRuns ==
    /\ \A i \in 1 .. Len(changes) : changes[i].run \in ended \cup {open}
    /\ \A i, j \in 1 .. Len(changes) : i < j /\ changes[i].run = open => changes[j].run = open

RewindInv ==
    /\ RowRuns
    /\ \A r \in ended, s \in Slugs \ torn : \A j \in 1 .. Len(changes) :
          changes[j].run = r => LeftAs(r, s, j)

RegistryInv == \A r \in Registered : registry[r] \in Slugs \cup {NoSlug}

(* parse_change_log returns the rows after some offset.                     *)
LEMMA NewestIs ==
  ASSUME NEW s \in Seq(Change), NEW n \in Nat
  PROVE  \E off \in 0 .. Len(s) :
            /\ Newest(s, n) \in Seq(Change) /\ Len(Newest(s, n)) = Len(s) - off
            /\ DOMAIN Newest(s, n) = 1 .. Len(s) - off
            /\ \A i \in 1 .. Len(s) - off : Newest(s, n)[i] = s[i + off]
<1>1. Len(s) \in Nat
  OBVIOUS
<1>2. PICK m \in 1 .. Len(s) + 1 : m = IF Len(s) > n THEN Len(s) - n + 1 ELSE 1
  <2>1. PICK len \in Nat : len = Len(s)
    BY <1>1
  <2>2. (IF len > n THEN len - n + 1 ELSE 1) \in 1 .. len + 1
    BY <1>1
  <2>3. QED
    BY <2>1, <2>2
<1>3. /\ SubSeq(s, m, Len(s)) \in Seq(Change)
      /\ Len(SubSeq(s, m, Len(s))) = IF m <= Len(s) THEN Len(s) - m + 1 ELSE 0
      /\ \A i \in 1 .. Len(s) - m + 1 : SubSeq(s, m, Len(s))[i] = s[m + i - 1]
  BY <1>1, SubSeqProperties
<1>4. PICK t : t = Newest(s, n)
  OBVIOUS
<1>5. t = SubSeq(s, m, Len(s))
  BY <1>2, <1>4 DEF Newest
<1>6. PICK off \in 0 .. Len(s) : off = m - 1
  BY <1>1
<1>7. t \in Seq(Change) /\ Len(t) = Len(s) - off
  BY <1>1, <1>3, <1>5, <1>6
<1>8. \A i \in 1 .. Len(s) - off : t[i] = s[i + off]
  <2>1. ASSUME NEW i \in 1 .. Len(s) - off PROVE t[i] = s[i + off]
    <3>1. i \in 1 .. Len(s) - m + 1 /\ m + i - 1 = i + off
      BY <1>1, <1>6
    <3>2. QED
      BY <1>3, <1>5, <3>1
  <2>2. QED
    BY <2>1
<1>9. DOMAIN t = 1 .. Len(s) - off
  BY <1>7
<1>10. QED
  BY <1>4, <1>7, <1>8, <1>9

(* A step that neither changes a field nor ends or begins a session.        *)
Still ==
    /\ UNCHANGED <<changes, lr, final, ended, open, torn>>
    /\ proc' = proc \/ (~Unlogged /\ ~Unlogged')

(* The end of the session that was open.                                    *)
Over ==
    /\ open \in Runs /\ OverAt(open) /\ ~Unlogged /\ ~Unlogged'
    /\ UNCHANGED <<changes, lr, torn>>

(* The steps that change a field or a session, and the others.              *)
LEMMA RewindSteps ==
  ASSUME TypeInv, [Next]_vars
  PROVE  \/ \E r \in Runs, c \in DOMAIN Tier, s \in Slugs \cup {NoSlug} : Enter(r, c, s)
         \/ WriteField \/ WriteRow \/ Kill \/ Over \/ Still
<1>1. ASSUME LogClose \/ Release PROVE Over
  <2>1. Busy /\ proc.at = "work" /\ Goto("leave")
    BY <1>1 DEF Busy, LogClose, Release, AtWork
  <2>2. proc'.at = "leave" /\ proc.run \in Runs /\ open = proc.run
    BY <2>1, GotoIs, BusyFields DEF TypeInv, ProcInv
  <2>3. QED
    BY <1>1, <2>1, <2>2 DEF Over, LogClose, Release, Unlogged, files
<1>2. ASSUME Abandon PROVE Over
  <2>1. open \in Runs
    BY <1>2 DEF Abandon, TypeInv
  <2>2. QED
    BY <1>2, <2>1 DEF Abandon, Over, Unlogged, Idle, files
<1>3. ASSUME Acquire \/ Leave PROVE Still
  <2>1. CASE Acquire
    <3>1. Busy /\ proc.at = "work" /\ Goto("leave")
      BY <2>1 DEF Busy, Acquire, AtWork
    <3>2. proc'.at = "leave"
      BY <3>1, GotoIs
    <3>3. QED
      BY <2>1, <3>1, <3>2 DEF Still, Acquire, Unlogged, files, history
  <2>2. CASE Leave
    <3>1. Busy /\ proc.at = "leave" /\ Goto("exit")
      BY <2>2 DEF Busy, Leave
    <3>2. proc'.at = "exit"
      BY <3>1, GotoIs
    <3>3. QED
      BY <2>2, <3>1, <3>2 DEF Still, Leave, Unlogged, files, history
  <2>3. QED
    BY <1>3, <2>1, <2>2
<1>4. ASSUME Refuse PROVE Still
  <2>1. proc'.at = "leave" /\ proc.at = "work"
    BY <1>4, RefuseIs DEF Refuse
  <2>2. QED
    BY <1>4, <2>1 DEF Still, Refuse, Unlogged, files, history
<1>5. ASSUME Exit PROVE Still
  BY <1>5 DEF Exit, Gone, Still, Unlogged, Idle, files, history
<1>6. ASSUME Register \/ Take \/ Arrive \/ Lose \/ Unwatch \/ Watch \/ Tick \/ UNCHANGED vars
      PROVE  Still
  BY <1>6 DEF Still, Register, Take, Arrive, Lose, Unwatch, Watch, Tick, vars, files, history
<1>7. QED
  BY <1>1, <1>2, <1>3, <1>4, <1>5, <1>6 DEF Next

(* As long as no row is written and the field stays what it is, all stays   *)
(* as a run had left it.                                                    *)
LEMMA LeftAsKept ==
  ASSUME NEW r, NEW s, NEW j, LeftAs(r, s, j), changes' = changes,
         Current(s)' = Current(s), final'[r][s] = final[r][s]
  PROVE  LeftAs(r, s, j)'
BY DEF LeftAs, Other

(* A row is of a run and a project.                                         *)
LEMMA RowIs ==
  ASSUME TypeInv, NEW i \in 1 .. Len(changes)
  PROVE  changes[i].run \in Runs /\ changes[i].slug \in Slugs
<1>1. changes[i] \in Change
  BY DEF TypeInv
<1>2. QED
  BY <1>1 DEF Change

(* Steps of no concern to the replay.                                       *)
LEMMA StillRewind ==
  ASSUME TypeInv, RewindInv, Still
  PROVE  RewindInv'
<1>1. \A s : Current(s)' = Current(s)
  BY DEF Still, Current, Unlogged
<1>2. RowRuns'
  BY DEF Still, RewindInv, RowRuns
<1>3. ASSUME NEW r \in ended, NEW s \in Slugs \ torn, NEW j \in 1 .. Len(changes), changes[j].run = r
      PROVE  LeftAs(r, s, j)'
  BY <1>1, <1>3, LeftAsKept DEF Still, RewindInv
<1>4. QED
  BY <1>2, <1>3 DEF Still, RewindInv

(* A session that begins has no rows.                                       *)
LEMMA EnterRewind ==
  ASSUME TypeInv, RewindInv, NEW o \in Runs, NEW c \in DOMAIN Tier,
         NEW t \in Slugs \cup {NoSlug}, Enter(o, c, t)
  PROVE  RewindInv'
<1>1. /\ UNCHANGED <<changes, lr, final, ended, torn>> /\ open' = o
      /\ open = NoRun => o \notin ended
      /\ open # NoRun => open = o
  BY DEF Enter, files, history
<1>2. ~Unlogged /\ ~Unlogged'
  BY DEF Enter, Unlogged, Idle
<1>3. \A s : Current(s)' = Current(s)
  BY <1>1, <1>2 DEF Current
<1>4. RowRuns'
  <2>1. CASE open # NoRun
    BY <1>1, <2>1 DEF RewindInv, RowRuns
  <2>2. CASE open = NoRun
    <3>1. \A i \in 1 .. Len(changes) : changes[i].run \in ended
      BY <2>2, RowIs, ViewAssumption DEF RewindInv, RowRuns
    <3>2. QED
      BY <1>1, <2>2, <3>1 DEF RowRuns
  <2>3. QED
    BY <2>1, <2>2
<1>5. ASSUME NEW r \in ended, NEW s \in Slugs \ torn, NEW j \in 1 .. Len(changes), changes[j].run = r
      PROVE  LeftAs(r, s, j)'
  BY <1>1, <1>3, <1>5, LeftAsKept DEF RewindInv
<1>6. QED
  BY <1>1, <1>4, <1>5 DEF RewindInv

(* A run that is over leaves the fields as they are; no row of another run  *)
(* is newer.                                                                *)
LEMMA OverRewind ==
  ASSUME TypeInv, RewindInv, Over
  PROVE  RewindInv'
<1>1. /\ UNCHANGED <<changes, lr, torn>> /\ open \in Runs /\ open \notin ended
      /\ open' = NoRun /\ ended' = ended \cup {open} /\ final' = [final EXCEPT ![open] = lr]
      /\ final \in [Runs -> [Slugs -> Values]] /\ ended \subseteq Runs
  BY ViewAssumption DEF Over, OverAt, TypeInv
<1>2. \A s : Current(s)' = lr[s] /\ Current(s) = lr[s]
  BY <1>1 DEF Over, Current
<1>3. RowRuns'
  BY <1>1, RowIs, ViewAssumption DEF RewindInv, RowRuns
<1>4. ASSUME NEW r \in ended', NEW s \in Slugs \ torn, NEW j \in 1 .. Len(changes), changes[j].run = r
      PROVE  LeftAs(r, s, j)'
  <2>1. CASE r = open
    <3>1. final'[r][s] = lr[s]
      BY <1>1, <2>1
    <3>2. \A i \in j + 1 .. Len(changes) : ~Other(i, r, s)'
      <4>1. \A i \in j + 1 .. Len(changes) : i \in 1 .. Len(changes) /\ j < i
        BY DEF TypeInv
      <4>2. \A i \in j + 1 .. Len(changes) : changes[i].run = r
        BY <1>4, <2>1, <4>1 DEF RewindInv, RowRuns
      <4>3. QED
        BY <1>1, <4>2 DEF Other
    <3>3. QED
      BY <1>1, <1>2, <3>1, <3>2 DEF LeftAs, Other
  <2>2. CASE r # open
    <3>1. r \in ended /\ final'[r][s] = final[r][s]
      BY <1>1, <2>2
    <3>2. LeftAs(r, s, j)
      BY <1>4, <3>1 DEF RewindInv
    <3>3. QED
      BY <1>1, <1>2, <3>1, <3>2, LeftAsKept
  <2>3. QED
    BY <2>1, <2>2
<1>5. QED
  BY <1>1, <1>3, <1>4 DEF RewindInv

(* A field that is written waits for its row.                               *)
LEMMA WriteFieldRewind ==
  ASSUME TypeInv, RewindInv, WriteField
  PROVE  RewindInv'
<1>1. Busy /\ proc.at = "work" /\ proc.slug \in Slugs
  BY BusyFields DEF WriteField, AtWork, Busy, TypeInv, ProcInv
<1>2. PICK v \in Values :
         /\ lr' = [lr EXCEPT ![proc.slug] = v]
         /\ proc' = [at |-> "row", run |-> proc.run, cmd |-> proc.cmd,
                     slug |-> proc.slug, code |-> proc.code, old |-> lr[proc.slug]]
  BY DEF WriteField
<1>3. /\ ~Unlogged /\ Unlogged' /\ proc'.slug = proc.slug /\ proc'.old = lr[proc.slug]
      /\ UNCHANGED <<changes, final, ended, open, torn>>
  BY <1>1, <1>2 DEF WriteField, Unlogged, history
<1>4. \A s \in Slugs : Current(s)' = Current(s)
  <2>1. ASSUME NEW s \in Slugs PROVE Current(s)' = Current(s)
    <3>1. s # proc.slug => lr'[s] = lr[s]
      BY <1>1, <1>2 DEF TypeInv
    <3>2. QED
      BY <1>3, <3>1 DEF Current
  <2>2. QED
    BY <2>1
<1>5. RowRuns'
  BY <1>3 DEF RewindInv, RowRuns
<1>6. ASSUME NEW r \in ended, NEW s \in Slugs \ torn, NEW j \in 1 .. Len(changes), changes[j].run = r
      PROVE  LeftAs(r, s, j)'
  BY <1>3, <1>4, <1>6, LeftAsKept DEF RewindInv
<1>7. QED
  BY <1>3, <1>5, <1>6 DEF RewindInv

(* A field whose row will not be written is torn.                           *)
LEMMA KillRewind ==
  ASSUME TypeInv, RewindInv, Kill
  PROVE  RewindInv'
<1>1. /\ UNCHANGED <<changes, lr, final, ended, open>> /\ ~Unlogged'
      /\ torn' = IF Unlogged THEN torn \cup {proc.slug} ELSE torn
  BY DEF Kill, Gone, files, Unlogged, Idle
<1>2. \A s \in Slugs \ torn' : Current(s)' = Current(s) /\ s \in Slugs \ torn
  BY <1>1 DEF Current
<1>3. RowRuns'
  BY <1>1 DEF RewindInv, RowRuns
<1>4. ASSUME NEW r \in ended, NEW s \in Slugs \ torn', NEW j \in 1 .. Len(changes), changes[j].run = r
      PROVE  LeftAs(r, s, j)'
  BY <1>1, <1>2, <1>4, LeftAsKept DEF RewindInv
<1>5. QED
  BY <1>1, <1>3, <1>4 DEF RewindInv

(* A row records what its run had found.                                    *)
LEMMA WriteRowRewind ==
  ASSUME TypeInv, RewindInv, WriteRow
  PROVE  RewindInv'
<1>1. Busy /\ proc \in Updates /\ proc.at = "row" /\ Unlogged /\ open = proc.run /\ open \in Runs
      /\ open \notin ended /\ Goto("leave")
  BY BusyFields, ViewAssumption DEF WriteRow, Unlogged, Busy, TypeInv, ProcInv
<1>2. proc'.at = "leave" /\ ~Unlogged'
  BY <1>1, GotoIs DEF Unlogged
<1>3. PICK row : row = [run |-> proc.run, slug |-> proc.slug, old |-> proc.old, new |-> lr[proc.slug]]
  OBVIOUS
<1>4. row.run = open /\ row.slug = proc.slug /\ row.old = proc.old /\ row \in Change
  BY <1>1, <1>3 DEF Updates, TypeInv, Change
<1>5. changes' = Append(changes, row) /\ UNCHANGED <<lr, final, ended, open, torn>>
  BY <1>3 DEF WriteRow, history
<1>6. PICK n \in Nat : n = Len(changes)
  BY DEF TypeInv
<1>7. Len(changes') = n + 1 /\ changes'[n + 1] = row /\ \A i \in 1 .. n : changes'[i] = changes[i]
  BY <1>4, <1>5, <1>6, Appended DEF TypeInv
<1>8. RowRuns'
  BY <1>4, <1>5, <1>6, <1>7 DEF RewindInv, RowRuns
<1>9. ASSUME NEW r \in ended, NEW s \in Slugs \ torn, NEW j \in 1 .. n + 1, changes'[j].run = r
      PROVE  LeftAs(r, s, j)'
  <2>1. j \in 1 .. n /\ changes[j].run = r /\ r # open
    BY <1>1, <1>4, <1>7, <1>9
  <2>2. LeftAs(r, s, j)
    BY <1>6, <2>1 DEF RewindInv
  <2>3. \A i \in j + 1 .. n : Other(i, r, s)' <=> Other(i, r, s)
    BY <1>7, <2>1 DEF Other
  <2>4. Other(n + 1, r, s)' <=> proc.slug = s
    BY <1>4, <1>7, <2>1 DEF Other
  <2>5. Current(s)' = lr[s]
    BY <1>2, <1>5 DEF Current
  <2>6. (\A i \in j + 1 .. n : ~Other(i, r, s)) => Current(s) = final[r][s]
    BY <1>6, <2>2 DEF LeftAs
  <2>7. ASSUME \A i \in j + 1 .. n + 1 : ~Other(i, r, s)'
        PROVE  Current(s)' = final'[r][s]
    <3>1. n + 1 \in j + 1 .. n + 1 /\ \A i \in j + 1 .. n : i \in j + 1 .. n + 1
      BY <2>1
    <3>2. proc.slug # s
      BY <2>4, <2>7, <3>1
    <3>3. Current(s) = final[r][s]
      BY <2>3, <2>6, <2>7, <3>1
    <3>4. Current(s) = lr[s]
      BY <3>2 DEF Current
    <3>5. QED
      BY <1>5, <2>5, <3>3, <3>4
  <2>8. ASSUME NEW i \in j + 1 .. n + 1, Other(i, r, s)', \A k \in j + 1 .. i - 1 : ~Other(k, r, s)'
        PROVE  changes'[i].old = final'[r][s]
    <3>1. \A k \in j + 1 .. i - 1 : ~Other(k, r, s)
      <4>1. \A k \in j + 1 .. i - 1 : k \in j + 1 .. n
        BY <2>1
      <4>2. QED
        BY <2>3, <2>8, <4>1
    <3>2. CASE i \in j + 1 .. n
      <4>1. Other(i, r, s)
        BY <2>3, <2>8, <3>2
      <4>2. changes[i].old = final[r][s]
        BY <1>6, <2>2, <3>1, <3>2, <4>1 DEF LeftAs
      <4>3. i \in 1 .. n
        BY <2>1, <3>2
      <4>4. QED
        BY <1>5, <1>7, <4>2, <4>3
    <3>3. CASE i = n + 1
      <4>1. \A k \in j + 1 .. n : ~Other(k, r, s)
        BY <3>1, <3>3
      <4>2. Current(s) = final[r][s] /\ proc.slug = s
        BY <2>4, <2>6, <2>8, <3>3, <4>1
      <4>3. Current(s) = proc.old
        BY <1>1, <4>2 DEF Current
      <4>4. QED
        BY <1>4, <1>5, <1>7, <3>3, <4>2, <4>3
    <3>4. QED
      BY <3>2, <3>3
  <2>9. QED
    BY <1>7, <2>7, <2>8 DEF LeftAs
<1>10. QED
  BY <1>5, <1>7, <1>8, <1>9 DEF RewindInv

(* The registry keeps speaking of projects.                                 *)
LEMMA RegistryStep ==
  ASSUME TypeInv, RegistryInv, [Next]_vars
  PROVE  RegistryInv'
<1>1. CASE Register
  <2>1. PICK t \in Slugs \cup {NoSlug} :
           registry' = [r \in Registered \cup {proc.run} |->
                            IF r = proc.run THEN t ELSE registry[r]]
    BY <1>1 DEF Register
  <2>2. Registered' = Registered \cup {proc.run}
    BY <2>1 DEF Registered
  <2>3. \A r \in Registered \cup {proc.run} : registry'[r] \in Slugs \cup {NoSlug}
    BY <2>1 DEF RegistryInv
  <2>4. QED
    BY <2>2, <2>3 DEF RegistryInv
<1>2. CASE registry' = registry
  BY <1>2 DEF RegistryInv, Registered
<1>3. Register \/ registry' = registry
  BY DEF Next, vars, files, Enter, WriteField, WriteRow, LogClose, Acquire, Release, Refuse,
     Leave, Exit, Kill, Abandon, Take, Arrive, Lose, Unwatch, Watch, Tick
<1>4. QED
  BY <1>1, <1>2, <1>3

(* No session is over at first.                                             *)
LEMMA InitRewind ==
  ASSUME Init
  PROVE  RewindInv /\ RegistryInv
<1>1. Len(changes) = 0 /\ ended = {}
  BY EmptyIs DEF Init
<1>2. Registered = {}
  BY DEF Init, Registered
<1>3. QED
  BY <1>1, <1>2 DEF RewindInv, RowRuns, RegistryInv

(* Every step keeps what the replay needs.                                  *)
LEMMA RewindStep ==
  ASSUME TypeInv, RewindInv, [Next]_vars
  PROVE  RewindInv'
BY RewindSteps, EnterRewind, WriteFieldRewind, WriteRowRewind, KillRewind, OverRewind, StillRewind

(* A replay is of a project, or of none.                                    *)
LEMMA SlugOfIs ==
  ASSUME TypeInv, RegistryInv, NEW r \in Runs
  PROVE  SlugOf(r) \in Slugs \cup {NoSlug}
<1> DEFINE stamped == {i \in Heard(r) : log[i].slug # NoSlug}
<1>1. CASE stamped # {}
  <2>1. stamped \in SUBSET (1 .. Len(log)) /\ Len(log) \in Nat
    BY DEF Heard, TypeInv
  <2>2. PICK i \in 1 .. Len(log) : i = Min(stamped)
    BY <1>1, <2>1, MinIs
  <2>3. log[i] \in Event
    BY DEF TypeInv
  <2>4. SlugOf(r) = log[i].slug
    BY <1>1, <2>2 DEF SlugOf
  <2>5. QED
    BY <2>3, <2>4 DEF Event
<1>2. CASE stamped = {}
  BY <1>2 DEF SlugOf, Spoken, RegistryInv
<1>3. QED
  BY <1>1, <1>2

(* The walk back from the present ends at what the run had left.            *)
LEMMA WalkBack ==
  ASSUME TypeInv, RewindInv, NEW r \in ended, NEW s \in Slugs \ torn,
         ~(Unlogged /\ proc.slug = s), LongrunnerAt(s, r).exact
  PROVE  LongrunnerAt(s, r).value = final[r][s]
<1>1. PICK rows : rows = Newest(changes, ChangeTail)
  OBVIOUS
<1>2. changes \in Seq(Change) /\ ChangeTail \in Nat /\ Len(changes) \in Nat
  BY ViewAssumption DEF TypeInv
<1>3. PICK off \in 0 .. Len(changes) :
         /\ DOMAIN rows = 1 .. Len(changes) - off
         /\ \A i \in 1 .. Len(changes) - off : rows[i] = changes[i + off]
  <2>1. \E off \in 0 .. Len(changes) :
           /\ Newest(changes, ChangeTail) \in Seq(Change)
           /\ Len(Newest(changes, ChangeTail)) = Len(changes) - off
           /\ DOMAIN Newest(changes, ChangeTail) = 1 .. Len(changes) - off
           /\ \A i \in 1 .. Len(changes) - off :
                 Newest(changes, ChangeTail)[i] = changes[i + off]
    BY <1>2, NewestIs
  <2>2. QED
    BY <1>1, <2>1
<1>4. PICK n \in Nat : n = Len(changes) - off
  BY <1>2
<1>5. DOMAIN rows = 1 .. n /\ \A i \in 1 .. n : rows[i] = changes[i + off] /\ n + off = Len(changes)
  BY <1>2, <1>3, <1>4
<1> DEFINE mine  == {i \in DOMAIN rows : rows[i].run = r}
           newer == {i \in DOMAIN rows : /\ rows[i].run # r /\ rows[i].slug = s
                                         /\ \E j \in mine : j < i}
<1>6. LongrunnerAt(s, r) = [value |-> Undone(lr[s], rows, newer), exact |-> mine # {}]
  BY <1>1 DEF LongrunnerAt
<1>7. mine # {} /\ LongrunnerAt(s, r).value = Undone(lr[s], rows, newer)
  <2>1. PICK value, exact : value = Undone(lr[s], rows, newer) /\ exact = (mine # {})
    OBVIOUS
  <2>2. LongrunnerAt(s, r) = [value |-> value, exact |-> exact]
    BY <1>6, <2>1, Zenon
  <2>3. exact /\ LongrunnerAt(s, r).value = value
    BY <2>2
  <2>4. QED
    BY <2>1, <2>3
<1>8. mine \in SUBSET (1 .. n) /\ newer \in SUBSET (1 .. n)
  BY <1>5
<1>9. PICK j \in 1 .. n : j \in mine /\ \A k \in mine : j <= k
  BY <1>7, <1>8, MinIs
<1>10. PICK at \in 1 .. Len(changes) : at = j + off
  BY <1>2, <1>5, <1>9
<1>11. LeftAs(r, s, at)
  <2>1. changes[at].run = r
    BY <1>5, <1>9, <1>10
  <2>2. QED
    BY <2>1 DEF RewindInv
<1>12. \A i \in 1 .. n : i \in newer <=> j < i /\ Other(i + off, r, s)
  BY <1>5, <1>9 DEF Other
<1>13. ASSUME NEW i \in at + 1 .. Len(changes)
       PROVE  i - off \in 1 .. n /\ (i - off) + off = i /\ j < i - off
  BY <1>2, <1>5, <1>10
<1>14. CASE newer = {}
  <2>1. \A i \in at + 1 .. Len(changes) : ~Other(i, r, s)
    BY <1>12, <1>13, <1>14
  <2>2. lr[s] = final[r][s]
    BY <1>11, <2>1 DEF LeftAs, Current
  <2>3. QED
    BY <1>7, <1>14, <2>2 DEF Undone
<1>15. CASE newer # {}
  <2>1. PICK i \in newer : i = Min(newer) /\ \A k \in newer : i <= k
    BY <1>8, <1>15, MinIs
  <2>2. i \in 1 .. n /\ j < i /\ Other(i + off, r, s)
    BY <1>8, <1>12, <2>1
  <2>3. PICK m \in at + 1 .. Len(changes) : m = i + off
    BY <1>2, <1>5, <1>10, <2>2
  <2>4. \A k \in at + 1 .. m - 1 : ~Other(k, r, s)
    <3>1. ASSUME NEW k \in at + 1 .. m - 1, Other(k, r, s) PROVE FALSE
      <4>1. k \in at + 1 .. Len(changes) /\ k - off < i
        <5>1. /\ k \in Int /\ m \in Int /\ off \in Int /\ i \in Int /\ at \in Int
              /\ at + 1 <= k /\ k <= m - 1 /\ m <= Len(changes) /\ m = i + off
          BY <1>2, <2>2, <2>3
        <5>2. k <= Len(changes) /\ k - off < i
          BY <1>2, <5>1
        <5>3. QED
          BY <1>2, <5>1, <5>2
      <4>2. k - off \in newer
        BY <1>12, <1>13, <3>1, <4>1
      <4>3. i \in Int /\ k - off \in Int /\ i <= k - off
        BY <1>8, <2>1, <2>2, <4>2
      <4>4. QED
        BY <4>1, <4>3
    <3>2. QED
      BY <3>1
  <2>5. changes[m].old = final[r][s]
    BY <1>11, <2>2, <2>3, <2>4 DEF LeftAs
  <2>6. rows[i].old = final[r][s]
    BY <1>5, <2>2, <2>3, <2>5
  <2>7. Undone(lr[s], rows, newer) = rows[i].old
    BY <1>15, <2>1 DEF Undone
  <2>8. QED
    BY <1>7, <2>6, <2>7
<1>16. QED
  BY <1>14, <1>15

(* RewindTrue: a replay that is not marked partial shows the LONGRUNNER as  *)
(* it was when the session was over, however much has been changed and      *)
(* logged since, and whatever part of the log is still read.                *)
THEOREM RewindIsTrue == Spec => []RewindTrue
<1>1. Init => RewindInv /\ RegistryInv
  BY InitRewind
<1>2. TypeInv /\ RewindInv /\ RegistryInv /\ [Next]_vars => (RewindInv /\ RegistryInv)'
  BY RewindStep, RegistryStep
<1>3. TypeInv /\ RewindInv /\ RegistryInv => RewindTrue
  <2> SUFFICES ASSUME TypeInv, RewindInv, RegistryInv, NEW r \in ended, NEW s, s = SlugOf(r),
                      s # NoSlug, s \notin torn, ~(Unlogged /\ proc.slug = s),
                      LongrunnerAt(s, r).exact
      PROVE  LongrunnerAt(s, r).value = final[r][s]
    BY DEF RewindTrue
  <2>1. s \in Slugs \ torn
    BY SlugOfIs DEF TypeInv
  <2>2. QED
    BY <2>1, WalkBack
<1>4. QED
  BY <1>1, <1>2, <1>3, Types, PTL DEF Spec

=============================================================================
