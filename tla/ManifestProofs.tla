---------------------------- MODULE ManifestProofs ----------------------------
(***************************************************************************)
(* What TLC checks of Manifest on small instances, for every number of      *)
(* owners and programs, every date, schema, workspace and table.           *)
(***************************************************************************)
EXTENDS Manifest, FiniteSetTheorems, WellFoundedInduction, TLAPS

-----------------------------------------------------------------------------
(* TYPES                                                                   *)

Texts     == Approvals \cup Registries
FileTexts == {c \in Contents : c["PA"] \in Approvals /\ c["REG"] \in Registries}
RowTexts  == {h \in Rowses : /\ h["PA"] \in Approvals \cup {Unsigned}
                             /\ h["REG"] \in Registries \cup {Unsigned}}

FoundTyped(b) == b # NoFile => /\ b \in Founds
                               /\ b.content \in FileTexts /\ b.hash \in RowTexts

(* The file that the program of the record c signs.                         *)
SignedFile(c) == IF c.kind = "resign" THEN c.arg ELSE "PA"
TextsOf(f)    == IF f = "PA" THEN Approvals ELSE Registries

(* Where a program may be, and what it carries there.                       *)
Staged(c) ==
    /\ CASE c.kind \in {"arm", "disarm"} ->
              c.at \in {"copy", "load", "store", "undo", "hash", "compare", "rows", "sign", "clean"}
         [] c.kind = "resign" -> c.at \in {"hash", "compare", "rows", "sign"}
         [] c.kind = "sync"   -> c.at \in {"read", "registry", "generate"}
         [] OTHER             -> c.at \in {"read", "generate"}
    /\ c.at = "store" => c.text \in Approvals
    /\ c.at = "registry" => c.text \in Registries
    /\ c.at \in {"compare", "rows", "sign"} => c.sum \in TextsOf(SignedFile(c))
    /\ c.at \in {"registry", "generate"} => c.sum \in Renderings
    /\ c.at = "sign" => c.rows \in RowTexts
    /\ FoundTyped(c.before)

Running(c) == (\E kind \in Kinds : c \in Programs(kind)) /\ Staged(c)
Ended(c)   == /\ \E kind \in Kinds : c \in Outcomes(kind)
              /\ c.before # NoFile /\ FoundTyped(c.before)

ScriptsTyped ==
    /\ script = [o \in Owners |-> script[o]]
    /\ \A o \in Owners : script[o] = Off \/ Running(script[o]) \/ Ended(script[o])

SessionTyped ==
    /\ session.at \in {"off", "check", "passed", "failed", "first", "stamped", "second"}
    /\ session.at \in {"check", "passed"} =>
          /\ session = [at |-> session.at, rows |-> session.rows, read |-> session.read]
          /\ session.rows \in RowTexts
          /\ session.read \in [Files -> Texts \cup {NoFile}]
    /\ session.at \in {"first", "second"} =>
          session = [at |-> session.at, rows |-> session.rows] /\ session.rows \in RowTexts

TypeInv ==
    /\ content \in FileTexts /\ hash \in RowTexts
    /\ vetted \in [Files -> SUBSET Texts]
    /\ backup \in Approvals \cup {NoFile}
    /\ yaml \in [body : Nat, notes : Nat, loads : BOOLEAN] /\ generated \in Renderings
    /\ today \in 0 .. LastDay
    /\ ScriptsTyped /\ SessionTyped

(* A program that goes on, with another text or hash or rows ...            *)
On(c, at)               == [c EXCEPT !.at = at]
WithText(c, at, text)   == [c EXCEPT !.at = at, !.text = text]
WithSum(c, at, sum)     == [c EXCEPT !.at = at, !.sum = sum]
WithRows(c, rows)       == [c EXCEPT !.at = "sign", !.rows = rows]
WithBoth(c, sum, text)  == [c EXCEPT !.at = "registry", !.sum = sum, !.text = text]

(* ... keeps its other fields.                                              *)
LEMMA GoesOn ==
  ASSUME NEW kind \in Kinds, NEW c \in Programs(kind),
         NEW at \in {"copy", "load", "store", "undo", "hash", "compare", "rows", "sign",
                     "clean", "read", "registry", "generate"}
  PROVE  LET r == On(c, at)
         IN  /\ r \in Programs(kind) /\ r.at = at /\ r.kind = kind /\ r.arg = c.arg
             /\ r.text = c.text /\ r.sum = c.sum /\ r.rows = c.rows /\ r.before = c.before
BY DEF On, Programs

(* A program goes on with the text that it read.                           *)
LEMMA GoesOnWithText ==
  ASSUME NEW kind \in Kinds, NEW c \in Programs(kind), NEW text \in Texts \cup {NoFile},
         NEW at \in {"store", "hash"}
  PROVE  LET r == WithText(c, at, text)
         IN  /\ r \in Programs(kind) /\ r.at = at /\ r.kind = kind /\ r.arg = c.arg
             /\ r.text = text /\ r.before = c.before
BY DEF WithText, Programs, Texts

(* A program goes on with a checksum.                                      *)
LEMMA GoesOnWithSum ==
  ASSUME NEW kind \in Kinds, NEW c \in Programs(kind), NEW sum \in Texts \cup Renderings,
         NEW at \in {"compare", "generate"}
  PROVE  LET r == WithSum(c, at, sum)
         IN  /\ r \in Programs(kind) /\ r.at = at /\ r.kind = kind /\ r.arg = c.arg
             /\ r.sum = sum /\ r.before = c.before
BY DEF WithSum, Programs, Texts

(* A program goes on to sign with the rows that it read.                   *)
LEMMA GoesOnWithRows ==
  ASSUME NEW kind \in Kinds, NEW c \in Programs(kind), NEW rows \in Rowses
  PROVE  LET r == WithRows(c, rows)
         IN  /\ r \in Programs(kind) /\ r.at = "sign" /\ r.kind = kind /\ r.arg = c.arg
             /\ r.sum = c.sum /\ r.rows = rows /\ r.before = c.before
BY DEF WithRows, Programs

(* A sign-off goes on to the registry with a text and its checksum.        *)
LEMMA GoesOnWithBoth ==
  ASSUME NEW kind \in Kinds, NEW c \in Programs(kind), NEW text \in Texts, NEW sum \in Renderings
  PROVE  LET r == WithBoth(c, sum, text)
         IN  /\ r \in Programs(kind) /\ r.at = "registry" /\ r.kind = kind /\ r.arg = c.arg
             /\ r.text = text /\ r.sum = sum /\ r.before = c.before
BY DEF WithBoth, Programs, Texts

(* A program that forgets the text it began with.                          *)
LEMMA GoesOnUnnoticed ==
  ASSUME NEW kind \in Kinds, NEW c \in Programs(kind)
  PROVE  LET r == [c EXCEPT !.before = NoFile]
         IN  /\ r \in Programs(kind) /\ r.at = c.at /\ r.kind = kind /\ r.arg = c.arg
             /\ r.text = c.text /\ r.sum = c.sum /\ r.rows = c.rows /\ r.before = NoFile
BY DEF Programs
Typed(c) == c = Off \/ Running(c) \/ Ended(c)

(* Off, a program and its outcome are told apart by where they are.         *)
LEMMA AtTells ==
  ASSUME NEW c, Typed(c)
  PROVE  /\ c.at \notin {"off", "done"} => Running(c)
         /\ c.at = "done" => Ended(c)
         /\ Running(c) => c.at \notin {"off", "done"}
BY DEF Typed, Running, Ended, Off, Programs, Outcomes

(* What a program that others have disturbed still has.                     *)
Forgets(c, d) ==
    \/ d = Off
    \/ Running(d) /\ d.before = NoFile /\ d.at = c.at /\ d.rows = c.rows

(* A write makes what the others found worthless, and leaves its writer.    *)
LEMMA Noticing ==
  ASSUME ScriptsTyped, NEW o, NEW p \in Owners
  PROVE  /\ Typed(Noticed(o)[p])
         /\ p = o => Noticed(o)[p] = script[p]
         /\ p # o => Forgets(script[p], Noticed(o)[p])
<1>1. Typed(script[p])
  BY DEF ScriptsTyped, Typed
<1>2. CASE p = o \/ script[p].at = "off"
  <2>1. Noticed(o)[p] = script[p]
    BY <1>2 DEF Noticed
  <2>2. script[p].at = "off" => script[p] = Off
    BY <1>1 DEF Typed, Running, Ended, Programs, Outcomes
  <2>3. QED
    BY <1>1, <1>2, <2>1, <2>2 DEF Forgets
<1>3. CASE p # o /\ script[p].at = "done"
  <2>1. Noticed(o)[p] = Off
    BY <1>3 DEF Noticed
  <2>2. QED
    BY <1>3, <2>1 DEF Typed, Forgets
<1>4. CASE p # o /\ script[p].at \notin {"off", "done"}
  <2>1. Noticed(o)[p] = [script[p] EXCEPT !.before = NoFile]
    BY <1>4 DEF Noticed
  <2>2. Running(script[p])
    BY <1>1, <1>4, AtTells
  <2>3. PICK kind \in Kinds : script[p] \in Programs(kind)
    BY <2>2 DEF Running
  <2>4. /\ Noticed(o)[p] \in Programs(kind) /\ Noticed(o)[p].at = script[p].at
        /\ Noticed(o)[p].kind = kind /\ Noticed(o)[p].arg = script[p].arg
        /\ Noticed(o)[p].text = script[p].text /\ Noticed(o)[p].sum = script[p].sum
        /\ Noticed(o)[p].rows = script[p].rows /\ Noticed(o)[p].before = NoFile
    BY <2>1, <2>3, GoesOnUnnoticed
  <2>5. script[p].kind = kind
    BY <2>3 DEF Programs
  <2>6. Staged(Noticed(o)[p])
    BY <2>2, <2>4, <2>5 DEF Running, Staged, SignedFile, FoundTyped
  <2>7. QED
    BY <1>4, <2>4, <2>6 DEF Running, Typed, Forgets
<1>5. QED
  BY <1>2, <1>3, <1>4

(* One program takes a step in which it only reads ...                      *)
LEMMA Moves ==
  ASSUME ScriptsTyped, NEW o \in Owners, NEW r, Typed(r),
         script' = [script EXCEPT ![o] = r]
  PROVE  /\ ScriptsTyped'
         /\ script'[o] = r
         /\ \A p \in Owners \ {o} : script'[p] = script[p]
<1>1. script' = [p \in Owners |-> IF p = o THEN r ELSE script[p]]
  BY DEF ScriptsTyped
<1>2. script'[o] = r /\ \A p \in Owners \ {o} : script'[p] = script[p]
  BY <1>1
<1>3. script' = [p \in Owners |-> script'[p]]
  BY <1>1
<1>4. QED
  BY <1>2, <1>3 DEF ScriptsTyped, Typed

(* ... or one in which it writes, and the others notice.                    *)
LEMMA MovesNoticed ==
  ASSUME ScriptsTyped, NEW o \in Owners, NEW r, Typed(r),
         script' = [Noticed(o) EXCEPT ![o] = r]
  PROVE  /\ ScriptsTyped'
         /\ script'[o] = r
         /\ \A p \in Owners \ {o} :
               Forgets(script[p], script'[p])
<1>1. script' = [p \in Owners |-> IF p = o THEN r ELSE Noticed(o)[p]]
  BY DEF Noticed
<1>2. script'[o] = r /\ \A p \in Owners \ {o} : script'[p] = Noticed(o)[p]
  BY <1>1
<1>3. script' = [p \in Owners |-> script'[p]]
  BY <1>1
<1>4. \A p \in Owners \ {o} :
         Forgets(script[p], script'[p])
  <2>1. ASSUME NEW p \in Owners \ {o}
        PROVE  Forgets(script[p], Noticed(o)[p])
    BY Noticing
  <2>2. QED
    BY <1>2, <2>1
<1>5. QED
  BY <1>2, <1>3, <1>4 DEF ScriptsTyped, Typed, Forgets

(* Somebody who is no owner's program writes: everybody notices.            *)
LEMMA AllNotice ==
  ASSUME ScriptsTyped, script' = Noticed(NoFile)
  PROVE  /\ ScriptsTyped'
         /\ \A p \in Owners :
               Forgets(script[p], script'[p])
<1>1. NoFile \notin Owners
  BY ManifestAssumption
<1>2. \A p \in Owners :
         Forgets(script[p], script'[p])
  <2>1. ASSUME NEW p \in Owners
        PROVE  Forgets(script[p], Noticed(NoFile)[p])
    BY <1>1, Noticing
  <2>2. QED
    BY <2>1
<1>3. script' = [p \in Owners |-> script'[p]]
  BY DEF Noticed
<1>4. QED
  BY <1>2, <1>3 DEF ScriptsTyped, Forgets

(* The forms in which the programs take their steps.                        *)
LEMMA Forms ==
  ASSUME ScriptsTyped, NEW o \in Owners, NEW at, NEW result
  PROVE  /\ Goes(o, at) => script' = [script EXCEPT ![o] = [script[o] EXCEPT !.at = at]]
         /\ WritesAndGoes(o, at) =>
               script' = [Noticed(o) EXCEPT ![o] = [script[o] EXCEPT !.at = at]]
         /\ Ends(o, result) => script' = [script EXCEPT ![o] = Outcome(o, result)]
         /\ WritesAndEnds(o, result) =>
               script' = [Noticed(o) EXCEPT ![o] = Outcome(o, result)]
<1>1. Noticed(o)[o] = script[o]
  BY Noticing
<1>2. Goes(o, at) => script' = [script EXCEPT ![o] = [script[o] EXCEPT !.at = at]]
  BY DEF Goes
<1>3. WritesAndGoes(o, at) =>
         script' = [Noticed(o) EXCEPT ![o] = [script[o] EXCEPT !.at = at]]
  BY <1>1 DEF WritesAndGoes
<1>4. QED
  BY <1>2, <1>3 DEF Ends, WritesAndEnds

(* What a program that ends leaves.                                         *)
LEMMA Outcomes_ ==
  ASSUME ScriptsTyped, NEW o \in Owners, Running(script[o]),
         NEW result \in {"ok", "noop", "failed", "died"}
  PROVE  LET r == Outcome(o, result)
         IN  /\ Typed(r)
             /\ \/ r = Off
                \/ /\ script[o].before # NoFile /\ r.before = script[o].before
                   /\ r.at = "done" /\ r.result = result
                   /\ r.kind = script[o].kind /\ r.arg = script[o].arg
<1>1. PICK kind \in Kinds : script[o] \in Programs(kind)
  BY DEF Running
<1>2. script[o].kind = kind /\ script[o].arg \in Args(kind)
      /\ script[o].before \in Founds \cup {NoFile} /\ FoundTyped(script[o].before)
  BY <1>1 DEF Programs, Running, Staged
<1>3. CASE script[o].before = NoFile
  BY <1>3 DEF Outcome, Typed
<1>4. CASE script[o].before # NoFile
  <2>1. Outcome(o, result) = [at |-> "done", kind |-> script[o].kind, arg |-> script[o].arg,
                              result |-> result, before |-> script[o].before]
    BY <1>4 DEF Outcome
  <2>2. Outcome(o, result) \in Outcomes(kind)
    BY <1>2, <1>4, <2>1 DEF Outcomes
  <2>3. QED
    BY <1>2, <1>4, <2>1, <2>2 DEF Typed, Ended
<1>5. QED
  BY <1>3, <1>4

(* A file is written, or a row: each keeps what belongs into it.            *)
LEMMA FileWritten ==
  ASSUME NEW c \in FileTexts, NEW f \in Files, NEW text \in TextsOf(f)
  PROVE  [c EXCEPT ![f] = text] \in FileTexts /\ c[f] \in TextsOf(f)
BY DEF FileTexts, Contents, Files, TextsOf

(* A row of the manifest is written.                                       *)
LEMMA RowWritten ==
  ASSUME NEW h \in RowTexts, NEW f \in Files, NEW text \in TextsOf(f)
  PROVE  [h EXCEPT ![f] = text] \in RowTexts
BY DEF RowTexts, Rowses, Files, TextsOf

(* The file that a running program signs, and what may be in it.            *)
LEMMA SignsFile ==
  ASSUME TypeInv, NEW o \in Owners, Running(script[o])
  PROVE  /\ Signs(o) \in Files /\ Signs(o) = SignedFile(script[o])
         /\ content[Signs(o)] \in TextsOf(Signs(o)) /\ TextsOf(Signs(o)) \subseteq Texts
         /\ script[o].kind # "resign" => Signs(o) = "PA"
<1>1. PICK kind \in Kinds : script[o] \in Programs(kind)
  BY DEF Running
<1>2. script[o].kind = kind /\ script[o].arg \in Args(kind)
  BY <1>1 DEF Programs
<1>3. Signs(o) \in Files /\ Signs(o) = SignedFile(script[o])
  BY <1>2 DEF Signs, SignedFile, Args, Files
<1>4. content[Signs(o)] \in TextsOf(Signs(o))
  BY <1>3 DEF TypeInv, FileTexts, Files, TextsOf
<1>5. QED
  BY <1>3, <1>4 DEF Signs, TextsOf, Texts

(* A new program.                                                          *)
LEMMA TypeStart ==
  ASSUME TypeInv, NEW o \in Owners, Start(o)
  PROVE  TypeInv'
<1>0. PICK kind \in Kinds : \E arg \in Args(kind) :
         script' = [script EXCEPT ![o] =
                      [kind |-> kind, arg |-> arg, at |-> First(kind),
                       text |-> NoFile, sum |-> NoFile, rows |-> NoFile,
                       before |-> [content |-> content, hash |-> hash]]]
  BY DEF Start
<1>1. PICK arg \in Args(kind) :
         script' = [script EXCEPT ![o] =
                      [kind |-> kind, arg |-> arg, at |-> First(kind),
                       text |-> NoFile, sum |-> NoFile, rows |-> NoFile,
                       before |-> [content |-> content, hash |-> hash]]]
  BY <1>0
<1> DEFINE b == [content |-> content, hash |-> hash]
<1> DEFINE r == [kind |-> kind, arg |-> arg, at |-> First(kind), text |-> NoFile,
                 sum |-> NoFile, rows |-> NoFile, before |-> b]
<1>2. b \in Founds /\ b.content = content /\ b.hash = hash
  BY DEF TypeInv, FileTexts, RowTexts, Founds
<1>3. FoundTyped(b)
  BY <1>2 DEF FoundTyped, TypeInv
<1>4. /\ First(kind) \in {"copy", "hash", "read"}
      /\ kind \in {"arm", "disarm"} => First(kind) = "copy"
      /\ kind = "resign" => First(kind) = "hash"
      /\ kind \in {"sync", "render"} => First(kind) = "read"
  BY DEF First, Kinds
<1> HIDE DEF b
<1>5. /\ r \in Programs(kind)
      /\ r.kind = kind /\ r.at = First(kind) /\ r.before = b
  BY <1>2, <1>4 DEF Programs
<1>6. script' = [script EXCEPT ![o] = r]
  BY <1>1 DEF b
<1> HIDE DEF r
<1>7. Staged(r)
  BY <1>3, <1>4, <1>5 DEF Staged, Kinds
<1>8. Typed(r)
  BY <1>5, <1>7 DEF Running, Typed
<1>9. ScriptsTyped'
  BY <1>6, <1>8, Moves DEF TypeInv
<1>10. UNCHANGED <<content, hash, backup, yaml, generated, session, today, vetted>>
  BY DEF Start
<1>11. QED
  BY <1>9, <1>10 DEF TypeInv, SessionTyped

(* A program goes on to a stage that asks nothing new of what it carries.   *)
LEMMA TypeGoes ==
  ASSUME ScriptsTyped, NEW o \in Owners, Running(script[o]), NEW at,
         Goes(o, at) \/ WritesAndGoes(o, at),
         \/ script[o].at = "copy" /\ at = "load"
         \/ script[o].at \in {"load", "hash", "rows"} /\ at = "undo"
                /\ script[o].kind \in {"arm", "disarm"}
         \/ script[o].at = "compare" /\ at = "rows"
         \/ script[o].at \in {"compare", "sign"} /\ at = "clean"
                /\ script[o].kind \in {"arm", "disarm"}
         \/ script[o].at = "registry" /\ at = "generate"
  PROVE  /\ ScriptsTyped' /\ Running(script'[o])
         /\ script'[o].at = at /\ script'[o].kind = script[o].kind
         /\ script'[o].arg = script[o].arg /\ script'[o].sum = script[o].sum
         /\ script'[o].before = script[o].before
         /\ Goes(o, at) => \A p \in Owners \ {o} : script'[p] = script[p]
         /\ WritesAndGoes(o, at) =>
               \A p \in Owners \ {o} :
                  Forgets(script[p], script'[p])
<1> DEFINE r == On(script[o], at)
<1>1. PICK kind \in Kinds : script[o] \in Programs(kind)
  BY DEF Running
<1>2. script[o].kind = kind /\ Staged(script[o])
  BY <1>1 DEF Programs, Running
<1>3. /\ r \in Programs(kind) /\ r.at = at /\ r.kind = kind /\ r.arg = script[o].arg
      /\ r.text = script[o].text /\ r.sum = script[o].sum /\ r.rows = script[o].rows
      /\ r.before = script[o].before
  <2>1. at \in {"copy", "load", "store", "undo", "hash", "compare", "rows", "sign",
                "clean", "read", "registry", "generate"}
    OBVIOUS
  <2>2. QED
    BY <1>1, <2>1, GoesOn
<1>4. /\ Goes(o, at) => script' = [script EXCEPT ![o] = r]
      /\ WritesAndGoes(o, at) => script' = [Noticed(o) EXCEPT ![o] = r]
  BY Forms DEF On
<1> HIDE DEF r
<1>5. Staged(r)
  BY <1>2, <1>3 DEF Staged, SignedFile, FoundTyped, Kinds
<1>6. Running(r) /\ Typed(r)
  BY <1>3, <1>5 DEF Running, Typed
<1>7. QED
  <2>1. Goes(o, at) => /\ ScriptsTyped' /\ script'[o] = r
                       /\ \A p \in Owners \ {o} : script'[p] = script[p]
    BY <1>4, <1>6, Moves
  <2>2. WritesAndGoes(o, at) =>
           /\ ScriptsTyped' /\ script'[o] = r
           /\ \A p \in Owners \ {o} :
                 Forgets(script[p], script'[p])
    BY <1>4, <1>6, MovesNoticed
  <2>3. QED
    BY <1>2, <1>3, <1>6, <2>1, <2>2

(* A program ends.                                                         *)
LEMMA TypeEnds ==
  ASSUME ScriptsTyped, NEW o \in Owners, Running(script[o]),
         NEW result \in {"ok", "noop", "failed", "died"},
         Ends(o, result) \/ WritesAndEnds(o, result)
  PROVE  /\ ScriptsTyped' /\ script'[o] = Outcome(o, result)
         /\ Ends(o, result) => \A p \in Owners \ {o} : script'[p] = script[p]
         /\ WritesAndEnds(o, result) =>
               \A p \in Owners \ {o} :
                  Forgets(script[p], script'[p])
<1>1. Typed(Outcome(o, result))
  BY Outcomes_
<1>2. /\ Ends(o, result) => script' = [script EXCEPT ![o] = Outcome(o, result)]
      /\ WritesAndEnds(o, result) => script' = [Noticed(o) EXCEPT ![o] = Outcome(o, result)]
  BY Forms
<1>3. CASE Ends(o, result) /\ ~WritesAndEnds(o, result)
  BY <1>1, <1>2, <1>3, Moves
<1>4. CASE WritesAndEnds(o, result) /\ ~Ends(o, result)
  BY <1>1, <1>2, <1>4, MovesNoticed
<1>5. CASE WritesAndEnds(o, result) /\ Ends(o, result)
  BY <1>1, <1>2, <1>5, Moves, MovesNoticed
<1>6. QED
  BY <1>3, <1>4, <1>5

(* The steps of arm and disarm ...                                         *)
LEMMA TypeArming ==
  ASSUME TypeInv, NEW o \in Owners, Arming(o)
  PROVE  TypeInv'
<1> USE DEF TypeInv
<1>1. script[o].at \in {"copy", "load", "store", "hash", "clean", "undo"}
  BY DEF Arming, Copy, Load, Store, NoResign, Clean, Undo
<1>2. Running(script[o])
  BY <1>1, AtTells DEF ScriptsTyped, Typed
<1>3. PICK kind \in Kinds : script[o] \in Programs(kind)
  BY <1>2 DEF Running
<1>4. script[o].kind = kind /\ Staged(script[o])
  BY <1>2, <1>3 DEF Programs, Running
<1>5. script[o].at \in {"copy", "load", "store", "clean", "undo"} => kind \in {"arm", "disarm"}
  BY <1>4 DEF Staged, Kinds
<1>6. content["PA"] \in Approvals
  BY DEF FileTexts
<1>7. CASE Copy(o)
  BY <1>2, <1>6, <1>7, TypeGoes DEF Copy, SessionTyped
<1>8. CASE Load(o)
  <2>1. CASE Goes(o, "undo")
    BY <1>2, <1>4, <1>5, <1>8, <2>1, TypeGoes DEF Load, SessionTyped
  <2>2. CASE ~Goes(o, "undo")
    <3> DEFINE text == Rewritten(content["PA"], script[o].kind, script[o].arg)
               r == WithText(script[o], "store", text)
    <3>1. script' = [script EXCEPT ![o] = r]
      BY <1>8, <2>2 DEF Load, WithText
    <3>2. script[o].arg \in Deadlines \cup {Unread, Blank}
      BY <1>3, <1>4, <1>5, <1>8 DEF Load, Programs, Args
    <3>3. text \in Approvals
      BY <1>6, <3>2 DEF Rewritten, Approvals
    <3>4. text \in Texts
      BY <3>3 DEF Texts
    <3> HIDE DEF text
    <3>5. /\ r \in Programs(kind) /\ r.at = "store" /\ r.kind = kind
          /\ r.text = text /\ r.before = script[o].before
      BY <1>3, <3>4, GoesOnWithText
    <3> HIDE DEF r
    <3>6. Staged(r)
      BY <1>4, <1>5, <1>8, <3>3, <3>5 DEF Load, Staged
    <3>7. ScriptsTyped'
      BY <3>1, <3>5, <3>6, Moves DEF Running, Typed
    <3>8. QED
      BY <1>8, <3>7 DEF Load, SessionTyped
  <2>3. QED
    BY <2>1, <2>2
<1>9. CASE Store(o)
  <2> DEFINE r == WithText(script[o], "hash", NoFile)
  <2>1. script' = [Noticed(o) EXCEPT ![o] = r]
    <3>1. Noticed(o)[o] = script[o]
      BY Noticing
    <3>2. QED
      BY <1>9, <3>1 DEF Store, WithText
  <2>2. /\ r \in Programs(kind) /\ r.at = "hash" /\ r.kind = kind
        /\ r.before = script[o].before
    BY <1>3, GoesOnWithText
  <2> HIDE DEF r
  <2>3. Staged(r)
    BY <1>4, <1>5, <1>9, <2>2 DEF Store, Staged
  <2>4. ScriptsTyped'
    BY <2>1, <2>2, <2>3, MovesNoticed DEF Running, Typed
  <2>5. script[o].text \in TextsOf("PA") /\ "PA" \in Files
    BY <1>4, <1>9 DEF Store, Staged, TextsOf, Files
  <2>6. content' \in FileTexts
    BY <1>9, <2>5, FileWritten DEF Store
  <2>7. QED
    BY <1>9, <2>4, <2>6 DEF Store, SessionTyped
<1>10. CASE NoResign(o)
  <2>1. script[o].kind \in {"arm", "disarm"}
    BY <1>4, <1>10 DEF NoResign, Staged, Kinds
  <2>2. QED
    BY <1>2, <1>10, <2>1, TypeGoes DEF NoResign, SessionTyped
<1>11. CASE Clean(o)
  BY <1>2, <1>11, TypeEnds DEF Clean, SessionTyped
<1>12. CASE Undo(o)
  <2>1. CASE backup = NoFile
    BY <1>2, <1>12, <2>1, TypeEnds DEF Undo, SessionTyped
  <2>2. CASE backup # NoFile
    <3>1. backup \in TextsOf("PA") /\ "PA" \in Files
      BY <2>2 DEF TextsOf, Files
    <3>2. content' \in FileTexts
      BY <1>12, <2>2, <3>1, FileWritten DEF Undo
    <3>3. QED
      BY <1>2, <1>12, <2>2, <3>2, TypeEnds DEF Undo, SessionTyped
  <2>3. QED
    BY <2>1, <2>2
<1>13. QED
  BY <1>7, <1>8, <1>9, <1>10, <1>11, <1>12 DEF Arming

(* ... of resign.sh, alone or in them ...                                   *)
LEMMA TypeSigning ==
  ASSUME TypeInv, NEW o \in Owners, Signing(o)
  PROVE  TypeInv'
<1>1. script[o].at \in {"hash", "compare", "rows", "sign"}
  BY DEF Signing, Hash, Compare, LoadRows, Sign
<1>2. Running(script[o]) /\ ScriptsTyped
  BY <1>1, AtTells DEF TypeInv, ScriptsTyped, Typed
<1>3. PICK kind \in Kinds : script[o] \in Programs(kind)
  BY <1>2 DEF Running
<1>4. script[o].kind = kind /\ Staged(script[o])
  BY <1>2, <1>3 DEF Programs, Running
<1>5. kind # "resign" => kind \in {"arm", "disarm"}
  BY <1>1, <1>4 DEF Staged, Kinds
<1>6. /\ Signs(o) \in Files /\ Signs(o) = SignedFile(script[o])
      /\ content[Signs(o)] \in TextsOf(Signs(o)) /\ TextsOf(Signs(o)) \subseteq Texts
  BY <1>2, SignsFile
<1>7. CASE Hash(o)
  <2> DEFINE r == WithSum(script[o], "compare", content[Signs(o)])
  <2>1. script' = [script EXCEPT ![o] = r]
    BY <1>7 DEF Hash, WithSum
  <2>2. /\ r \in Programs(kind) /\ r.at = "compare" /\ r.kind = kind /\ r.arg = script[o].arg
        /\ r.sum = content[Signs(o)] /\ r.before = script[o].before
    BY <1>3, <1>6, GoesOnWithSum
  <2> HIDE DEF r
  <2>3. Staged(r)
    BY <1>4, <1>5, <1>6, <2>2 DEF Staged, SignedFile
  <2>4. ScriptsTyped'
    BY <1>2, <2>1, <2>2, <2>3, Moves DEF Running, Typed
  <2>5. QED
    BY <1>7, <2>4 DEF Hash, TypeInv, SessionTyped
<1>8. CASE Compare(o)
  <2>1. ScriptsTyped'
    <3>1. CASE Goes(o, "rows")
      BY <1>2, <1>8, <3>1, TypeGoes DEF Compare
    <3>2. CASE Ends(o, "ok")
      BY <1>2, <1>8, <3>2, TypeEnds DEF Compare
    <3>3. CASE Goes(o, "clean") /\ script[o].kind # "resign"
      BY <1>2, <1>4, <1>5, <1>8, <3>3, TypeGoes DEF Compare
    <3>4. QED
      BY <1>8, <3>1, <3>2, <3>3 DEF Compare
  <2>2. QED
    BY <1>8, <2>1 DEF Compare, TypeInv, SessionTyped
<1>9. CASE LoadRows(o)
  <2>1. ScriptsTyped'
    <3>1. CASE script' = [script EXCEPT ![o].at = "sign", ![o].rows = hash]
      <4> DEFINE r == WithRows(script[o], hash)
      <4>1. script' = [script EXCEPT ![o] = r]
        BY <3>1 DEF WithRows
      <4>2. hash \in Rowses /\ hash \in RowTexts
        BY DEF TypeInv, RowTexts
      <4>3. /\ r \in Programs(kind) /\ r.at = "sign" /\ r.kind = kind /\ r.arg = script[o].arg
            /\ r.sum = script[o].sum /\ r.rows = hash /\ r.before = script[o].before
        BY <1>3, <4>2, GoesOnWithRows
      <4> HIDE DEF r
      <4>4. Staged(r)
        BY <1>4, <1>5, <1>9, <4>2, <4>3 DEF LoadRows, Staged, SignedFile
      <4>5. QED
        BY <1>2, <4>1, <4>3, <4>4, Moves DEF Running, Typed
    <3>2. CASE Ends(o, "failed")
      BY <1>2, <1>9, <3>2, TypeEnds DEF LoadRows
    <3>3. CASE Goes(o, "undo") /\ script[o].kind # "resign"
      BY <1>2, <1>4, <1>5, <1>9, <3>3, TypeGoes DEF LoadRows
    <3>4. QED
      BY <1>9, <3>1, <3>2, <3>3 DEF LoadRows
  <2>2. QED
    BY <1>9, <2>1 DEF LoadRows, TypeInv, SessionTyped
<1>10. CASE Sign(o)
  <2>1. ScriptsTyped'
    <3>1. CASE WritesAndEnds(o, "ok")
      BY <1>2, <1>10, <3>1, TypeEnds DEF Sign
    <3>2. CASE WritesAndGoes(o, "clean") /\ script[o].kind # "resign"
      BY <1>2, <1>4, <1>5, <1>10, <3>2, TypeGoes DEF Sign
    <3>3. QED
      BY <1>10, <3>1, <3>2 DEF Sign
  <2>2. script[o].rows \in RowTexts /\ script[o].sum \in TextsOf(Signs(o))
    BY <1>4, <1>6, <1>10 DEF Sign, Staged
  <2>3. hash' \in RowTexts
    BY <1>6, <1>10, <2>2, RowWritten DEF Sign
  <2>4. vetted' \in [Files -> SUBSET Texts]
    BY <1>6, <1>10, <2>2 DEF Sign, TypeInv
  <2>5. QED
    BY <1>10, <2>1, <2>3, <2>4 DEF Sign, TypeInv, SessionTyped
<1>11. QED
  BY <1>7, <1>8, <1>9, <1>10 DEF Signing

(* ... and of schema-sync and schema-render.                                *)
LEMMA TypeSyncing ==
  ASSUME TypeInv, NEW o \in Owners, Syncing(o)
  PROVE  TypeInv'
<1>1. script[o].at \in {"read", "registry", "generate"}
  BY DEF Syncing, Read, StoreRegistry, Generate
<1>2. Running(script[o]) /\ ScriptsTyped
  BY <1>1, AtTells DEF TypeInv, ScriptsTyped, Typed
<1>3. PICK kind \in Kinds : script[o] \in Programs(kind)
  BY <1>2 DEF Running
<1>4. script[o].kind = kind /\ Staged(script[o])
  BY <1>2, <1>3 DEF Programs, Running
<1>5. RenderedWhole(yaml) \in Renderings /\ RenderedSections(yaml) \in Nat
  BY DEF TypeInv, RenderedWhole, RenderedSections, Renderings
<1>6. CASE Read(o)
  <2>1. ScriptsTyped'
    <3>1. CASE \E result \in {"failed", "noop"} : Ends(o, result)
      BY <1>2, <3>1, TypeEnds
    <3>2. CASE /\ Loads(yaml) /\ script[o].kind = "render"
               /\ script' = [script EXCEPT ![o] =
                    [script[o] EXCEPT !.at = "generate", !.sum = RenderedWhole(yaml)]]
      <4> DEFINE r == WithSum(script[o], "generate", RenderedWhole(yaml))
      <4>0. script' = [script EXCEPT ![o] = r]
        BY <3>2 DEF WithSum
      <4>1. /\ r \in Programs(kind) /\ r.at = "generate" /\ r.kind = kind
            /\ r.sum = RenderedWhole(yaml) /\ r.before = script[o].before
        BY <1>3, <1>5, GoesOnWithSum
      <4> HIDE DEF r
      <4>2. Staged(r)
        BY <1>4, <1>5, <3>2, <4>1 DEF Staged
      <4>3. QED
        BY <1>2, <4>0, <4>1, <4>2, Moves DEF Running, Typed
    <3>3. CASE /\ Loads(yaml) /\ script[o].kind # "render"
               /\ script' = [script EXCEPT ![o] =
                    [script[o] EXCEPT !.at = "registry", !.sum = RenderedWhole(yaml),
                       !.text = [content["REG"] EXCEPT !.body = RenderedSections(yaml)]]]
      <4> DEFINE text == [content["REG"] EXCEPT !.body = RenderedSections(yaml)]
                 r == WithBoth(script[o], RenderedWhole(yaml), text)
      <4>1. text \in Registries /\ text \in Texts
        BY <1>5 DEF TypeInv, FileTexts, Registries, Texts
      <4> HIDE DEF text
      <4>2. /\ r \in Programs(kind) /\ r.at = "registry" /\ r.kind = kind
            /\ r.text = text /\ r.sum = RenderedWhole(yaml) /\ r.before = script[o].before
        BY <1>3, <1>5, <4>1, GoesOnWithBoth
      <4>3. script' = [script EXCEPT ![o] = r]
        BY <3>3 DEF text, WithBoth
      <4> HIDE DEF r
      <4>4. kind = "sync"
        BY <1>4, <1>6, <3>3 DEF Read, Staged, Kinds
      <4>5. Staged(r)
        BY <1>4, <1>5, <4>1, <4>2, <4>4 DEF Staged
      <4>6. QED
        BY <1>2, <4>2, <4>3, <4>5, Moves DEF Running, Typed
    <3>4. QED
      BY <1>6, <3>1, <3>2, <3>3 DEF Read
  <2>2. QED
    BY <1>6, <2>1 DEF Read, TypeInv, SessionTyped
<1>7. CASE StoreRegistry(o)
  <2>1. ScriptsTyped'
    BY <1>2, <1>7, TypeGoes DEF StoreRegistry
  <2>2. script[o].text \in TextsOf("REG") /\ "REG" \in Files
    BY <1>4, <1>7 DEF StoreRegistry, Staged, TextsOf, Files
  <2>3. content' \in FileTexts
    BY <1>7, <2>2, FileWritten DEF StoreRegistry, TypeInv
  <2>4. QED
    BY <1>7, <2>1, <2>3 DEF StoreRegistry, TypeInv, SessionTyped
<1>8. CASE Generate(o)
  <2>1. ScriptsTyped'
    BY <1>2, <1>8, TypeEnds DEF Generate
  <2>2. generated' \in Renderings
    BY <1>4, <1>8 DEF Generate, Staged
  <2>3. QED
    BY <1>8, <2>1, <2>2 DEF Generate, TypeInv, SessionTyped
<1>9. QED
  BY <1>6, <1>7, <1>8 DEF Syncing

(* The sessions at their check and at their stamps.                         *)
LEMMA TypeChecking ==
  ASSUME TypeInv, Checking
  PROVE  TypeInv'
<1> USE DEF TypeInv
<1>1. hash \in RowTexts /\ hash \in Rowses /\ content \in FileTexts
  BY DEF RowTexts
<1>2. CASE CheckStarts
  <2>1. session' = [at |-> "check", rows |-> hash, read |-> [f \in Files |-> NoFile]]
    BY <1>2 DEF CheckStarts
  <2>2. SessionTyped'
    BY <1>1, <2>1 DEF SessionTyped
  <2>3. QED
    BY <1>2, <2>2 DEF CheckStarts, ScriptsTyped
<1>3. CASE CheckFile
  <2>1. PICK f \in Files : session' = [session EXCEPT !.read[f] = content[f]]
    BY <1>3 DEF CheckFile, Unchecked, Files
  <2>2. session.at = "check" /\ content[f] \in Texts
    BY <1>1, <1>3, <2>1 DEF CheckFile, FileTexts, Contents, Texts
  <2>3. session = [at |-> session.at, rows |-> session.rows, read |-> session.read]
    BY <2>2 DEF SessionTyped
  <2>4. session' = [at |-> session.at, rows |-> session.rows,
                    read |-> [session.read EXCEPT ![f] = content[f]]]
    BY <2>1, <2>3
  <2>5. SessionTyped'
    BY <2>2, <2>4 DEF SessionTyped
  <2>6. QED
    BY <1>3, <2>5 DEF CheckFile, ScriptsTyped
<1>4. CASE CheckEnds
  <2>1. session = [at |-> "check", rows |-> session.rows, read |-> session.read]
    BY <1>4 DEF CheckEnds, SessionTyped
  <2>2. \/ session' = [at |-> "passed", rows |-> session.rows, read |-> session.read]
        \/ session' = [at |-> "failed"]
    BY <1>4, <2>1 DEF CheckEnds
  <2>3. SessionTyped'
    BY <1>4, <2>2 DEF CheckEnds, SessionTyped
  <2>4. QED
    BY <1>4, <2>3 DEF CheckEnds, ScriptsTyped
<1>5. CASE Work
  BY <1>5 DEF Work, SessionTyped, ScriptsTyped, Off
<1>6. CASE StampReads
  <2>1. \E at \in {"first", "second"} : session' = [at |-> at, rows |-> hash]
    BY <1>6 DEF StampReads
  <2>2. SessionTyped'
    BY <1>1, <2>1 DEF SessionTyped
  <2>3. QED
    BY <1>6, <2>2 DEF StampReads, ScriptsTyped
<1>7. CASE StampWrites
  <2>1. hash' \in RowTexts
    BY <1>7 DEF StampWrites, SessionTyped
  <2>2. ScriptsTyped'
    BY <1>7, AllNotice DEF StampWrites, ScriptsTyped
  <2>3. SessionTyped'
    BY <1>7 DEF StampWrites, SessionTyped, Off
  <2>4. QED
    BY <1>7, <2>1, <2>2, <2>3 DEF StampWrites
<1>8. QED
  BY <1>2, <1>3, <1>4, <1>5, <1>6, <1>7 DEF Checking

(* Everybody else.                                                         *)
LEMMA TypeOthers ==
  ASSUME TypeInv, (\E f \in Files : Edit(f)) \/ EditSchema \/ NextDay
  PROVE  TypeInv'
<1> USE DEF TypeInv
<1>1. ASSUME NEW f \in Files, Edit(f) PROVE TypeInv'
  <2>1. PICK new \in Edited(f) : content' = [content EXCEPT ![f] = new]
    BY <1>1 DEF Edit
  <2>2. new \in TextsOf(f)
    <3>1. CASE f = "PA"
      <4>1. content["PA"] \in Approvals
        BY DEF FileTexts
      <4>2. ASSUME NEW d \in Deadlines
            PROVE  [content["PA"] EXCEPT !.status = "ACTIVE", !.expires = d] \in Approvals
        BY <4>1 DEF Approvals
      <4>3. [form |-> "bare", status |-> "ACTIVE", expires |-> Blank] \in Approvals
        BY DEF Approvals
      <4>4. QED
        BY <2>1, <3>1, <4>2, <4>3 DEF Edited, TextsOf
    <3>2. CASE f = "REG"
      <4>1. content["REG"] \in Registries
        BY DEF FileTexts
      <4>2. [content["REG"] EXCEPT !.text = @ + 1] \in Registries
        BY <4>1 DEF Registries
      <4>3. [content["REG"] EXCEPT !.marked = FALSE] \in Registries
        BY <4>1 DEF Registries
      <4>4. QED
        BY <2>1, <3>2, <4>2, <4>3 DEF Edited, TextsOf
    <3>3. QED
      BY <3>1, <3>2 DEF Files
  <2>3. content' \in FileTexts
    BY <2>1, <2>2, FileWritten
  <2>4. ScriptsTyped'
    BY <1>1, AllNotice DEF Edit
  <2>5. QED
    BY <1>1, <2>3, <2>4 DEF Edit, SessionTyped
<1>2. CASE EditSchema
  <2>1. ScriptsTyped'
    BY <1>2, AllNotice DEF EditSchema
  <2>2. /\ [yaml EXCEPT !.body = @ + 1] \in [body : Nat, notes : Nat, loads : BOOLEAN]
        /\ [yaml EXCEPT !.notes = @ + 1] \in [body : Nat, notes : Nat, loads : BOOLEAN]
        /\ [yaml EXCEPT !.loads = FALSE] \in [body : Nat, notes : Nat, loads : BOOLEAN]
    <3>1. yaml \in [body : Nat, notes : Nat, loads : BOOLEAN]
      OBVIOUS
    <3>2. [yaml EXCEPT !.body = @ + 1] \in [body : Nat, notes : Nat, loads : BOOLEAN]
      BY <3>1
    <3>3. [yaml EXCEPT !.notes = @ + 1] \in [body : Nat, notes : Nat, loads : BOOLEAN]
      BY <3>1
    <3>4. [yaml EXCEPT !.loads = FALSE] \in [body : Nat, notes : Nat, loads : BOOLEAN]
      BY <3>1
    <3>5. QED
      BY <3>2, <3>3, <3>4
  <2>3. yaml' \in [body : Nat, notes : Nat, loads : BOOLEAN]
    BY <1>2, <2>2 DEF EditSchema
  <2>4. QED
    BY <1>2, <2>1, <2>3 DEF EditSchema, SessionTyped
<1>3. CASE NextDay
  BY <1>3, ManifestAssumption DEF NextDay, SessionTyped, ScriptsTyped
<1>4. QED
  BY <1>1, <1>2, <1>3

(* Every step keeps the types.                                              *)
LEMMA TypeInvStep ==
  ASSUME TypeInv, [Next]_vars
  PROVE  TypeInv'
<1>1. CASE UNCHANGED vars
  BY <1>1 DEF TypeInv, ScriptsTyped, SessionTyped, vars
<1>2. ASSUME NEW o \in Owners, Kill(o) PROVE TypeInv'
  <2>1. ScriptsTyped'
    BY <1>2, Moves DEF Kill, TypeInv, Typed
  <2>2. QED
    BY <1>2, <2>1 DEF Kill, TypeInv, SessionTyped
<1>3. QED
  BY <1>1, <1>2, TypeStart, TypeArming, TypeSigning, TypeSyncing, TypeChecking, TypeOthers
  DEF Next

(* The first contents and rows.                                             *)
LEMMA TypeInvInit == Init => TypeInv
<1> SUFFICES ASSUME Init PROVE TypeInv
  OBVIOUS
<1>1. /\ content["PA"] = [form |-> "full", status |-> "INACTIVE", expires |-> Blank]
      /\ content["REG"] = [body |-> 0, text |-> 0, marked |-> TRUE]
      /\ content = [f \in Files |-> content[f]]
  BY DEF Init, Files
<1>2. content["PA"] \in Approvals /\ content["REG"] \in Registries
  BY <1>1 DEF Approvals, Registries
<1>3. content \in FileTexts
  BY <1>1, <1>2 DEF FileTexts, Contents, Files
<1>4. hash \in [Files -> {Unsigned, content["PA"], content["REG"]}]
      /\ \A f \in Files : hash[f] \in {Unsigned, content[f]}
  BY DEF Init
<1>5. hash \in RowTexts
  BY <1>2, <1>4 DEF RowTexts, Rowses, Files
<1>6. vetted \in [Files -> SUBSET Texts]
  <2>1. vetted = [f \in Files |-> {hash[f]} \ {Unsigned}]
    BY DEF Init
  <2>2. \A f \in Files : {hash[f]} \ {Unsigned} \subseteq Texts
    BY <1>2, <1>4 DEF Texts, Files
  <2>3. QED
    BY <2>1, <2>2
<1>7. yaml \in [body : Nat, notes : Nat, loads : BOOLEAN] /\ generated \in Renderings
  BY DEF Init, Renderings, RenderedWhole
<1>8. today \in 0 .. LastDay
  BY ManifestAssumption DEF Init
<1>9. ScriptsTyped /\ SessionTyped
  BY DEF Init, ScriptsTyped, SessionTyped, Off
<1>10. QED
  BY <1>3, <1>5, <1>6, <1>7, <1>8, <1>9 DEF TypeInv, Init

(* In every reachable state files, rows, backup, programs and sessions are  *)
(* in their domains, whatever is edited, killed or overtaken (arm, disarm, *)
(* resign.sh, schema-sync, manifest_verify).                               *)
THEOREM TypeCorrect == Spec => []TypeOK
<1>1. TypeInv => TypeOK
  <2> SUFFICES ASSUME TypeInv PROVE TypeOK
    OBVIOUS
  <2>1. \A o \in Owners :
           script[o] = Off \/ \E kind \in Kinds : script[o] \in Programs(kind) \cup Outcomes(kind)
    BY DEF TypeInv, ScriptsTyped, Running, Ended
  <2>2. QED
    BY <2>1 DEF TypeInv, TypeOK, FileTexts, RowTexts, SessionTyped
<1>2. QED
  BY <1>1, TypeInvInit, TypeInvStep, PTL DEF Spec

-----------------------------------------------------------------------------
(* WHAT A STEP DOES TO THE PROGRAMS                                         *)

(* The others are as they were ...                                          *)
Silent(o) == \A p \in Owners \ {o} : script'[p] = script[p]
(* ... or have noticed.                                                     *)
Loud(o)   == \A p \in Owners \ {o} : Forgets(script[p], script'[p])

(* The program goes on as what it is.                                       *)
Same(o) == /\ script'[o].kind = script[o].kind /\ script'[o].arg = script[o].arg
           /\ script'[o].before = script[o].before

(* A program that is in the middle of something is one.                     *)
LEMMA Runs ==
  ASSUME ScriptsTyped, NEW o \in Owners, script[o].at \notin {"off", "done"}
  PROVE  Running(script[o]) /\ script[o].kind \in Kinds /\ Staged(script[o])
<1>1. Running(script[o])
  BY AtTells DEF ScriptsTyped, Typed
<1>2. PICK kind \in Kinds : script[o] \in Programs(kind)
  BY <1>1 DEF Running
<1>3. script[o].kind = kind
  BY <1>2 DEF Programs
<1>4. QED
  BY <1>1, <1>3 DEF Running

(* arm and disarm.                                                          *)
LEMMA ArmingSteps ==
  ASSUME TypeInv, NEW o \in Owners
  PROVE  /\ Copy(o) => Loud(o) /\ Same(o) /\ script'[o].at = "load"
         /\ Load(o) => /\ Silent(o) /\ Same(o)
                       /\ \/ /\ content["PA"].form = "full" /\ script'[o].at = "store"
                             /\ script'[o].text =
                                  Rewritten(content["PA"], script[o].kind, script[o].arg)
                          \/ script'[o].at = "undo"
         /\ Store(o) => Loud(o) /\ Same(o) /\ script'[o].at = "hash"
         /\ NoResign(o) => Silent(o) /\ Same(o) /\ script'[o].at = "undo"
         /\ Clean(o) => Loud(o) /\ script'[o] = Outcome(o, "ok")
         /\ Undo(o) => \/ /\ backup # NoFile /\ Loud(o) /\ script'[o] = Outcome(o, "failed")
                          /\ content' = [content EXCEPT !["PA"] = backup] /\ backup' = NoFile
                       \/ /\ backup = NoFile /\ Silent(o) /\ script'[o] = Outcome(o, "died")
                          /\ UNCHANGED <<content, backup>>
<1> USE DEF Silent, Loud, Same
<1>0. ScriptsTyped
  BY DEF TypeInv
<1>1. ASSUME script[o].at \in {"copy", "load", "store", "undo", "clean"}
      PROVE  Running(script[o]) /\ Staged(script[o]) /\ script[o].kind \in {"arm", "disarm"}
  BY <1>0, <1>1, Runs DEF Staged, Kinds
<1>2. Copy(o) => Loud(o) /\ Same(o) /\ script'[o].at = "load"
  BY <1>0, <1>1, TypeGoes DEF Copy
<1>3. ASSUME Load(o)
      PROVE  /\ Silent(o) /\ Same(o)
             /\ \/ /\ content["PA"].form = "full" /\ script'[o].at = "store"
                   /\ script'[o].text = Rewritten(content["PA"], script[o].kind, script[o].arg)
                \/ script'[o].at = "undo"
  <2>1. CASE Goes(o, "undo")
    BY <1>0, <1>1, <1>3, <2>1, TypeGoes DEF Load
  <2>2. CASE ~Goes(o, "undo")
    <3> DEFINE text == Rewritten(content["PA"], script[o].kind, script[o].arg)
               r == WithText(script[o], "store", text)
    <3>1. script' = [script EXCEPT ![o] = r] /\ content["PA"].form = "full"
      BY <1>3, <2>2 DEF Load, WithText
    <3>2. PICK kind \in Kinds : script[o] \in Programs(kind)
      BY <1>1, <1>3 DEF Load, Running
    <3>3. script[o].kind = kind /\ script[o].arg \in Deadlines \cup {Unread, Blank}
      BY <1>1, <1>3, <3>2 DEF Load, Programs, Args
    <3>4. content["PA"] \in Approvals
      BY DEF TypeInv, FileTexts
    <3>5. text \in Approvals
      BY <3>3, <3>4 DEF Rewritten, Approvals
    <3>6. text \in Texts
      BY <3>5 DEF Texts
    <3>7. /\ script'[o] = r /\ Silent(o)
      BY <1>0, <3>1 DEF ScriptsTyped
    <3>8. /\ r.at = "store" /\ r.kind = kind /\ r.arg = script[o].arg
          /\ r.text = text /\ r.before = script[o].before
      <4> HIDE DEF text
      <4>1. QED
        BY <3>2, <3>6, GoesOnWithText
    <3> HIDE DEF r
    <3>9. QED
      BY <3>1, <3>3, <3>7, <3>8
  <2>3. QED
    BY <2>1, <2>2
<1>4. ASSUME Store(o)
      PROVE  Loud(o) /\ Same(o) /\ script'[o].at = "hash"
  <2> DEFINE r == WithText(script[o], "hash", NoFile)
  <2>1. script' = [Noticed(o) EXCEPT ![o] = r]
    BY <1>0, <1>4, Noticing DEF Store, WithText
  <2>2. PICK kind \in Kinds : script[o] \in Programs(kind)
    BY <1>1, <1>4 DEF Store, Running
  <2>3. /\ r \in Programs(kind) /\ r.at = "hash" /\ r.kind = kind /\ r.arg = script[o].arg
        /\ r.text = NoFile /\ r.before = script[o].before
    BY <2>2, GoesOnWithText
  <2>4. script[o].kind = kind
    BY <2>2 DEF Programs
  <2> HIDE DEF r
  <2>5. Staged(r)
    BY <1>1, <1>4, <2>3, <2>4 DEF Store, Staged
  <2>6. QED
    BY <1>0, <2>1, <2>3, <2>4, <2>5, MovesNoticed DEF Running, Typed
<1>5. NoResign(o) => Silent(o) /\ Same(o) /\ script'[o].at = "undo"
  <2>1. NoResign(o) => Running(script[o]) /\ script[o].kind \in {"arm", "disarm"}
    BY <1>0, Runs DEF NoResign, Staged, Kinds
  <2>2. QED
    BY <1>0, <2>1, TypeGoes DEF NoResign
<1>6. Clean(o) => Loud(o) /\ script'[o] = Outcome(o, "ok")
  BY <1>0, <1>1, TypeEnds DEF Clean
<1>7. ASSUME Undo(o)
      PROVE  \/ /\ backup # NoFile /\ Loud(o) /\ script'[o] = Outcome(o, "failed")
                /\ content' = [content EXCEPT !["PA"] = backup] /\ backup' = NoFile
             \/ /\ backup = NoFile /\ Silent(o) /\ script'[o] = Outcome(o, "died")
                /\ UNCHANGED <<content, backup>>
  <2>1. CASE backup = NoFile
    BY <1>0, <1>1, <1>7, <2>1, TypeEnds DEF Undo
  <2>2. CASE backup # NoFile
    BY <1>0, <1>1, <1>7, <2>2, TypeEnds DEF Undo
  <2>3. QED
    BY <2>1, <2>2
<1>8. QED
  BY <1>2, <1>3, <1>4, <1>5, <1>6, <1>7

(* resign.sh.                                                               *)
LEMMA SigningSteps ==
  ASSUME TypeInv, NEW o \in Owners
  PROVE  /\ Hash(o) => /\ Silent(o) /\ Same(o) /\ script'[o].at = "compare"
                       /\ script'[o].sum = content[Signs(o)]
         /\ Compare(o) => /\ Silent(o)
                          /\ \/ /\ hash[Signs(o)] # script[o].sum /\ Same(o)
                                /\ script'[o].at = "rows" /\ script'[o].sum = script[o].sum
                             \/ /\ hash[Signs(o)] = script[o].sum
                                /\ script[o].kind = "resign" /\ script'[o] = Outcome(o, "ok")
                             \/ /\ hash[Signs(o)] = script[o].sum
                                /\ script[o].kind # "resign" /\ Same(o) /\ script'[o].at = "clean"
         /\ LoadRows(o) => /\ Silent(o)
                           /\ \/ /\ Same(o) /\ script'[o].at = "sign"
                                 /\ script'[o].sum = script[o].sum /\ script'[o].rows = hash
                              \/ script[o].kind = "resign" /\ script'[o] = Outcome(o, "failed")
                              \/ script[o].kind # "resign" /\ Same(o) /\ script'[o].at = "undo"
         /\ Sign(o) => /\ Loud(o)
                       /\ \/ script[o].kind = "resign" /\ script'[o] = Outcome(o, "ok")
                          \/ script[o].kind # "resign" /\ Same(o) /\ script'[o].at = "clean"
<1> USE DEF Silent, Loud, Same
<1>0. ScriptsTyped
  BY DEF TypeInv
<1>1. ASSUME script[o].at \in {"hash", "compare", "rows", "sign"}
      PROVE  /\ Running(script[o]) /\ Staged(script[o])
             /\ script[o].kind # "resign" => script[o].kind \in {"arm", "disarm"}
             /\ content[Signs(o)] \in Texts
  BY <1>0, <1>1, Runs, SignsFile DEF Staged, Kinds
<1>2. ASSUME Hash(o)
      PROVE  /\ Silent(o) /\ Same(o) /\ script'[o].at = "compare"
             /\ script'[o].sum = content[Signs(o)]
  <2> DEFINE r == WithSum(script[o], "compare", content[Signs(o)])
  <2>1. script' = [script EXCEPT ![o] = r]
    BY <1>2 DEF Hash, WithSum
  <2>2. PICK kind \in Kinds : script[o] \in Programs(kind)
    BY <1>1, <1>2 DEF Hash, Running
  <2>3. /\ r.at = "compare" /\ r.kind = kind /\ r.arg = script[o].arg
        /\ r.sum = content[Signs(o)] /\ r.before = script[o].before
    BY <1>1, <1>2, <2>2, GoesOnWithSum DEF Hash
  <2>4. script[o].kind = kind
    BY <2>2 DEF Programs
  <2> HIDE DEF r
  <2>5. script'[o] = r /\ Silent(o)
    BY <1>0, <2>1 DEF ScriptsTyped
  <2>6. QED
    BY <2>3, <2>4, <2>5
<1>3. ASSUME Compare(o)
      PROVE  /\ Silent(o)
             /\ \/ /\ hash[Signs(o)] # script[o].sum /\ Same(o)
                   /\ script'[o].at = "rows" /\ script'[o].sum = script[o].sum
                \/ /\ hash[Signs(o)] = script[o].sum
                   /\ script[o].kind = "resign" /\ script'[o] = Outcome(o, "ok")
                \/ /\ hash[Signs(o)] = script[o].sum
                   /\ script[o].kind # "resign" /\ Same(o) /\ script'[o].at = "clean"
  <2>0. script[o].at = "compare" /\ Running(script[o])
    BY <1>1, <1>3 DEF Compare
  <2>1. CASE hash[Signs(o)] # script[o].sum
    <3>1. Goes(o, "rows")
      BY <1>3, <2>1 DEF Compare
    <3>2. QED
      BY <1>0, <2>0, <2>1, <3>1, TypeGoes
  <2>2. CASE hash[Signs(o)] = script[o].sum /\ script[o].kind = "resign"
    <3>1. Ends(o, "ok")
      BY <1>3, <2>2 DEF Compare
    <3>2. QED
      BY <1>0, <2>0, <2>2, <3>1, TypeEnds
  <2>3. CASE hash[Signs(o)] = script[o].sum /\ script[o].kind # "resign"
    <3>1. Goes(o, "clean") /\ script[o].kind \in {"arm", "disarm"}
      BY <1>1, <1>3, <2>0, <2>3 DEF Compare
    <3>2. QED
      BY <1>0, <2>0, <2>3, <3>1, TypeGoes
  <2>4. QED
    BY <2>1, <2>2, <2>3
<1>4. ASSUME LoadRows(o)
      PROVE  /\ Silent(o)
             /\ \/ /\ Same(o) /\ script'[o].at = "sign"
                   /\ script'[o].sum = script[o].sum /\ script'[o].rows = hash
                \/ script[o].kind = "resign" /\ script'[o] = Outcome(o, "failed")
                \/ script[o].kind # "resign" /\ Same(o) /\ script'[o].at = "undo"
  <2>0. script[o].at = "rows" /\ Running(script[o])
    BY <1>1, <1>4 DEF LoadRows
  <2>1. CASE script' = [script EXCEPT ![o].at = "sign", ![o].rows = hash]
    <3> DEFINE r == WithRows(script[o], hash)
    <3>1. script' = [script EXCEPT ![o] = r]
      BY <2>1 DEF WithRows
    <3>2. PICK kind \in Kinds : script[o] \in Programs(kind)
      BY <2>0 DEF Running
    <3>3. /\ r.at = "sign" /\ r.kind = kind /\ r.arg = script[o].arg
          /\ r.sum = script[o].sum /\ r.rows = hash /\ r.before = script[o].before
      BY <3>2, GoesOnWithRows DEF TypeInv, RowTexts
    <3>4. script[o].kind = kind
      BY <3>2 DEF Programs
    <3> HIDE DEF r
    <3>5. script'[o] = r /\ Silent(o)
      BY <1>0, <1>4, <3>1 DEF ScriptsTyped, LoadRows
    <3>6. QED
      BY <3>3, <3>4, <3>5
  <2>2. CASE Ends(o, "failed") /\ script[o].kind = "resign"
    BY <1>0, <1>4, <2>0, <2>2, TypeEnds DEF LoadRows
  <2>3. CASE Goes(o, "undo") /\ script[o].kind # "resign"
    <3>1. script[o].kind \in {"arm", "disarm"}
      BY <1>1, <1>4, <2>0, <2>3 DEF LoadRows
    <3>2. QED
      BY <1>0, <1>4, <2>0, <2>3, <3>1, TypeGoes DEF LoadRows
  <2>4. QED
    BY <1>4, <2>1, <2>2, <2>3 DEF LoadRows
<1>5. ASSUME Sign(o)
      PROVE  /\ Loud(o)
             /\ \/ script[o].kind = "resign" /\ script'[o] = Outcome(o, "ok")
                \/ script[o].kind # "resign" /\ Same(o) /\ script'[o].at = "clean"
  <2>0. script[o].at = "sign" /\ Running(script[o])
    BY <1>1, <1>5 DEF Sign
  <2>1. CASE script[o].kind = "resign"
    <3>1. WritesAndEnds(o, "ok")
      BY <1>5, <2>1 DEF Sign
    <3>2. QED
      BY <1>0, <2>0, <2>1, <3>1, TypeEnds
  <2>2. CASE script[o].kind # "resign"
    <3>1. WritesAndGoes(o, "clean") /\ script[o].kind \in {"arm", "disarm"}
      BY <1>1, <1>5, <2>0, <2>2 DEF Sign
    <3>2. QED
      BY <1>0, <2>0, <2>2, <3>1, TypeGoes
  <2>3. QED
    BY <2>1, <2>2
<1>6. QED
  BY <1>2, <1>3, <1>4, <1>5

(* schema-sync and schema-render.                                           *)
LEMMA SyncingSteps ==
  ASSUME TypeInv, NEW o \in Owners
  PROVE  /\ Read(o) => 
              /\ Silent(o)
              /\ \/ script'[o] = Outcome(o, "failed")
                 \/ /\ script[o].kind = "sync" /\ script'[o] = Outcome(o, "noop")
                    /\ content["REG"].body = RenderedSections(yaml)
                 \/ /\ Loads(yaml) /\ script[o].kind = "render" /\ Same(o)
                    /\ script'[o].at = "generate" /\ script'[o].sum = RenderedWhole(yaml)
                 \/ /\ Loads(yaml) /\ script[o].kind = "sync" /\ Same(o)
                    /\ script'[o].at = "registry" /\ script'[o].sum = RenderedWhole(yaml)
                    /\ script'[o].text = [content["REG"] EXCEPT !.body = RenderedSections(yaml)]
         /\ StoreRegistry(o) => /\ Loud(o) /\ Same(o) /\ script[o].kind = "sync"
                                /\ script'[o].at = "generate" /\ script'[o].sum = script[o].sum
         /\ Generate(o) => Loud(o) /\ script'[o] = Outcome(o, "ok")
<1> USE DEF Silent, Loud, Same
<1>0. ScriptsTyped
  BY DEF TypeInv
<1>1. ASSUME script[o].at \in {"read", "registry", "generate"}
      PROVE  /\ Running(script[o]) /\ Staged(script[o]) /\ script[o].kind \in {"sync", "render"}
             /\ script[o].at = "registry" => script[o].kind = "sync"
  BY <1>0, <1>1, Runs DEF Staged, Kinds
<1>2. ASSUME Read(o)
      PROVE  /\ Silent(o)
             /\ \/ script'[o] = Outcome(o, "failed")
                \/ /\ script[o].kind = "sync" /\ script'[o] = Outcome(o, "noop")
                   /\ content["REG"].body = RenderedSections(yaml)
                \/ /\ Loads(yaml) /\ script[o].kind = "render" /\ Same(o)
                   /\ script'[o].at = "generate" /\ script'[o].sum = RenderedWhole(yaml)
                \/ /\ Loads(yaml) /\ script[o].kind = "sync" /\ Same(o)
                   /\ script'[o].at = "registry" /\ script'[o].sum = RenderedWhole(yaml)
                   /\ script'[o].text = [content["REG"] EXCEPT !.body = RenderedSections(yaml)]
  <2>0. /\ script[o].at = "read" /\ Running(script[o]) /\ Staged(script[o])
        /\ script[o].kind \in {"sync", "render"}
    BY <1>1, <1>2 DEF Read
  <2>1. PICK kind \in Kinds : script[o] \in Programs(kind)
    BY <2>0 DEF Running
  <2>2. script[o].kind = kind
    BY <2>1 DEF Programs
  <2>3. RenderedWhole(yaml) \in Renderings /\ RenderedSections(yaml) \in Nat
    BY DEF TypeInv, RenderedWhole, RenderedSections, Renderings
  <2>4. CASE Ends(o, "failed")
    BY <1>0, <2>0, <2>4, TypeEnds
  <2>5. CASE /\ Ends(o, "noop") /\ script[o].kind # "render"
             /\ content["REG"].body = RenderedSections(yaml)
    BY <1>0, <2>0, <2>5, TypeEnds
  <2>6. CASE /\ Loads(yaml) /\ script[o].kind = "render"
             /\ script' = [script EXCEPT ![o] =
                  [script[o] EXCEPT !.at = "generate", !.sum = RenderedWhole(yaml)]]
    <3> DEFINE r == WithSum(script[o], "generate", RenderedWhole(yaml))
    <3>1. script' = [script EXCEPT ![o] = r]
      BY <2>6 DEF WithSum
    <3>2. /\ r.at = "generate" /\ r.kind = kind /\ r.arg = script[o].arg
          /\ r.sum = RenderedWhole(yaml) /\ r.before = script[o].before
      BY <2>1, <2>3, GoesOnWithSum
    <3> HIDE DEF r
    <3>3. script'[o] = r /\ Silent(o)
      BY <1>0, <3>1 DEF ScriptsTyped
    <3>4. QED
      BY <2>2, <2>6, <3>2, <3>3
  <2>7. CASE /\ Loads(yaml) /\ script[o].kind # "render"
             /\ script' = [script EXCEPT ![o] =
                  [script[o] EXCEPT !.at = "registry", !.sum = RenderedWhole(yaml),
                     !.text = [content["REG"] EXCEPT !.body = RenderedSections(yaml)]]]
    <3> DEFINE text == [content["REG"] EXCEPT !.body = RenderedSections(yaml)]
               r == WithBoth(script[o], RenderedWhole(yaml), text)
    <3>1. script' = [script EXCEPT ![o] = r]
      BY <2>7 DEF WithBoth
    <3>2. text \in Registries
      BY <2>3 DEF TypeInv, FileTexts, Registries
    <3>3. text \in Texts
      BY <3>2 DEF Texts
    <3>4. /\ r.at = "registry" /\ r.kind = kind /\ r.arg = script[o].arg
          /\ r.text = text /\ r.sum = RenderedWhole(yaml) /\ r.before = script[o].before
      <4> HIDE DEF text
      <4>1. QED
        BY <2>1, <2>3, <3>3, GoesOnWithBoth
    <3> HIDE DEF r
    <3>5. script'[o] = r /\ Silent(o)
      BY <1>0, <3>1 DEF ScriptsTyped
    <3>6. script[o].kind = "sync"
      BY <2>0, <2>7
    <3>7. QED
      BY <2>2, <2>7, <3>4, <3>5, <3>6
  <2>8. \/ Ends(o, "failed")
        \/ /\ Ends(o, "noop") /\ script[o].kind # "render"
           /\ content["REG"].body = RenderedSections(yaml)
        \/ /\ Loads(yaml) /\ script[o].kind = "render"
           /\ script' = [script EXCEPT ![o] =
                [script[o] EXCEPT !.at = "generate", !.sum = RenderedWhole(yaml)]]
        \/ /\ Loads(yaml) /\ script[o].kind # "render"
           /\ script' = [script EXCEPT ![o] =
                [script[o] EXCEPT !.at = "registry", !.sum = RenderedWhole(yaml),
                   !.text = [content["REG"] EXCEPT !.body = RenderedSections(yaml)]]]
    BY <1>2 DEF Read
  <2>9. QED
    BY <2>4, <2>5, <2>6, <2>7, <2>8
<1>3. ASSUME StoreRegistry(o)
      PROVE  /\ Loud(o) /\ Same(o) /\ script[o].kind = "sync"
             /\ script'[o].at = "generate" /\ script'[o].sum = script[o].sum
  <2>1. /\ script[o].at = "registry" /\ Running(script[o]) /\ script[o].kind = "sync"
    BY <1>1, <1>3 DEF StoreRegistry
  <2>2. WritesAndGoes(o, "generate")
    BY <1>3 DEF StoreRegistry
  <2>3. QED
    BY <1>0, <2>1, <2>2, TypeGoes
<1>4. ASSUME Generate(o)
      PROVE  Loud(o) /\ script'[o] = Outcome(o, "ok")
  <2>1. /\ script[o].at = "generate" /\ Running(script[o]) /\ WritesAndEnds(o, "ok")
    BY <1>1, <1>4 DEF Generate
  <2>2. QED
    BY <1>0, <2>1, TypeEnds
<1>5. QED
  BY <1>2, <1>3, <1>4

(* A start, and a kill.                                                     *)
LEMMA StartStep ==
  ASSUME TypeInv, NEW o \in Owners, Start(o)
  PROVE  /\ Silent(o) /\ script'[o].at = First(script'[o].kind) /\ script'[o].kind \in Kinds
         /\ script'[o].before = [content |-> content, hash |-> hash]
<1>1. PICK kind \in Kinds : \E arg \in Args(kind) :
         script' = [script EXCEPT ![o] =
                      [kind |-> kind, arg |-> arg, at |-> First(kind),
                       text |-> NoFile, sum |-> NoFile, rows |-> NoFile,
                       before |-> [content |-> content, hash |-> hash]]]
  BY DEF Start
<1>2. PICK arg \in Args(kind) :
         script' = [script EXCEPT ![o] =
                      [kind |-> kind, arg |-> arg, at |-> First(kind),
                       text |-> NoFile, sum |-> NoFile, rows |-> NoFile,
                       before |-> [content |-> content, hash |-> hash]]]
  BY <1>1
<1> DEFINE r == [kind |-> kind, arg |-> arg, at |-> First(kind), text |-> NoFile,
                 sum |-> NoFile, rows |-> NoFile,
                 before |-> [content |-> content, hash |-> hash]]
<1>3. r.at = First(kind) /\ r.kind = kind /\ r.before = [content |-> content, hash |-> hash]
  OBVIOUS
<1>4. script' = [script EXCEPT ![o] = r]
  BY <1>2
<1> HIDE DEF r
<1>5. script'[o] = r /\ Silent(o)
  BY <1>4 DEF TypeInv, ScriptsTyped, Silent
<1>6. QED
  BY <1>3, <1>5

(* A kill leaves the others alone.                                          *)
LEMMA KillStep ==
  ASSUME TypeInv, NEW o \in Owners, Kill(o)
  PROVE  Silent(o) /\ script'[o].at = "off"
BY DEF TypeInv, ScriptsTyped, Kill, Silent, Off

-----------------------------------------------------------------------------
(* ROWS THAT THE OWNER SIGNED                                               *)

(* Rows that hold nothing but what the owner has signed.                    *)
SignedRows(signed, rows) == \A f \in Files : rows[f] \in signed[f] \cup {Unsigned}

(* Whoever is about to write rows back, or to compare files with them, has  *)
(* such rows in hand; and what has passed, agreed.                          *)
SignedInv ==
    /\ SignedRows(vetted, hash)
    /\ \A o \in Owners : script[o].at = "sign" => SignedRows(vetted, script[o].rows)
    /\ session.at \in {"check", "passed", "first", "second"} => SignedRows(vetted, session.rows)
    /\ session.at = "passed" => Agrees

(* The owner's signatures are never taken back.                             *)
LEMMA VettedGrows ==
  ASSUME TypeInv, [Next]_vars
  PROVE  \A f \in Files : vetted[f] \subseteq vetted'[f]
<1>1. CASE \E o \in Owners : Sign(o)
  BY <1>1 DEF Sign, TypeInv
<1>2. CASE ~\E o \in Owners : Sign(o)
  BY <1>2 DEF Next, vars, Start, Arming, Signing, Syncing, Kill, Checking, Edit, EditSchema,
     NextDay, Copy, Load, Store, NoResign, Clean, Undo, Hash, Compare, LoadRows, Read,
     StoreRegistry, Generate, CheckStarts, CheckFile, CheckEnds, Work, StampReads, StampWrites
<1>3. QED
  BY <1>1, <1>2

(* Rows that were the owner's still are.                                    *)
LEMMA StillSigned ==
  ASSUME NEW v, NEW w, \A f \in Files : v[f] \subseteq w[f],
         NEW rows, SignedRows(v, rows)
  PROVE  SignedRows(w, rows)
BY DEF SignedRows

(* A program only has the rows in hand that it has just read, or had.       *)
LEMMA RowsInHand ==
  ASSUME TypeInv, [Next]_vars, NEW p \in Owners, script'[p].at = "sign"
  PROVE  \/ script[p].at = "sign" /\ script'[p].rows = script[p].rows
         \/ script'[p].rows = hash
<1>0. ScriptsTyped /\ "sign" \notin {"off", "done"}
  BY DEF TypeInv
<1>1. ASSUME Forgets(script[p], script'[p])
      PROVE  script[p].at = "sign" /\ script'[p].rows = script[p].rows
  BY <1>1 DEF Forgets, Off
<1>2. ASSUME NEW o \in Owners, Running(script[o]), NEW result \in {"ok", "noop", "failed", "died"}
      PROVE  Outcome(o, result).at # "sign"
  BY <1>0, <1>2, Outcomes_ DEF Off
<1>3. ASSUME NEW o \in Owners, Start(o) \/ Kill(o)
      PROVE  script'[p] = script[p]
  BY <1>3, StartStep, KillStep DEF Silent, First, Kinds
<1>4. ASSUME NEW o \in Owners, Arming(o)
      PROVE  script[p].at = "sign" /\ script'[p].rows = script[p].rows
  <2>1. script[o].at \notin {"off", "done"}
    BY <1>4 DEF Arming, Copy, Load, Store, NoResign, Clean, Undo
  <2>2. Running(script[o])
    BY <1>0, <2>1, Runs
  <2>3. \A result \in {"ok", "noop", "failed", "died"} : Outcome(o, result).at # "sign"
    BY <1>2, <2>2
  <2>4. p # o
    BY <1>4, <2>3, ArmingSteps DEF Arming
  <2>5. script'[p] = script[p] \/ Forgets(script[p], script'[p])
    BY <1>4, <2>4, ArmingSteps DEF Arming, Silent, Loud
  <2>6. QED
    BY <1>1, <2>5
<1>5. ASSUME NEW o \in Owners, Signing(o)
      PROVE  \/ script[p].at = "sign" /\ script'[p].rows = script[p].rows
             \/ script'[p].rows = hash
  <2>1. script[o].at \notin {"off", "done"}
    BY <1>5 DEF Signing, Hash, Compare, LoadRows, Sign
  <2>2. Running(script[o])
    BY <1>0, <2>1, Runs
  <2>3. \A result \in {"ok", "noop", "failed", "died"} : Outcome(o, result).at # "sign"
    BY <1>2, <2>2
  <2>4. CASE p = o
    BY <1>5, <2>3, <2>4, SigningSteps DEF Signing
  <2>5. CASE p # o
    <3>1. script'[p] = script[p] \/ Forgets(script[p], script'[p])
      BY <1>5, <2>5, SigningSteps DEF Signing, Silent, Loud
    <3>2. QED
      BY <1>1, <3>1
  <2>6. QED
    BY <2>4, <2>5
<1>6. ASSUME NEW o \in Owners, Syncing(o)
      PROVE  script[p].at = "sign" /\ script'[p].rows = script[p].rows
  <2>1. script[o].at \notin {"off", "done"}
    BY <1>6 DEF Syncing, Read, StoreRegistry, Generate
  <2>2. Running(script[o])
    BY <1>0, <2>1, Runs
  <2>3. \A result \in {"ok", "noop", "failed", "died"} : Outcome(o, result).at # "sign"
    BY <1>2, <2>2
  <2>4. p # o
    BY <1>6, <2>3, SyncingSteps DEF Syncing
  <2>5. script'[p] = script[p] \/ Forgets(script[p], script'[p])
    BY <1>6, <2>4, SyncingSteps DEF Syncing, Silent, Loud
  <2>6. QED
    BY <1>1, <2>5
<1>7. CASE Checking \/ (\E f \in Files : Edit(f)) \/ EditSchema \/ NextDay \/ UNCHANGED vars
  <2>1. script' = script \/ script' = Noticed(NoFile)
    BY <1>7 DEF Checking, CheckStarts, CheckFile, CheckEnds, Work, StampReads, StampWrites,
       Edit, EditSchema, NextDay, vars
  <2>2. script'[p] = script[p] \/ Forgets(script[p], script'[p])
    BY <1>0, <2>1, AllNotice
  <2>3. QED
    BY <1>1, <2>2
<1>8. QED
  BY <1>3, <1>4, <1>5, <1>6, <1>7 DEF Next

(* Every step keeps it so.                                                  *)
LEMMA SignedInvStep ==
  ASSUME TypeInv, SignedInv, [Next]_vars
  PROVE  SignedInv'
<1>1. \A f \in Files : vetted[f] \subseteq vetted'[f]
  BY VettedGrows
<1>2. \A rows : SignedRows(vetted, rows) => SignedRows(vetted', rows)
  BY <1>1, StillSigned
<1>3. SignedRows(vetted', hash')
  <2>1. CASE \E o \in Owners : Sign(o)
    <3>1. PICK o \in Owners : Sign(o)
      BY <2>1
    <3>2. Running(script[o]) /\ Staged(script[o]) /\ script[o].at = "sign"
      BY <3>1, Runs DEF Sign, TypeInv
    <3>3. Signs(o) \in Files
      BY <3>2, SignsFile
    <3>4. SignedRows(vetted', script[o].rows) /\ script[o].rows \in RowTexts
      BY <1>2, <3>2 DEF SignedInv, Staged
    <3>5. script[o].sum \in vetted'[Signs(o)]
      BY <3>1, <3>3 DEF Sign, TypeInv
    <3>6. \A f \in Files : hash'[f] = IF f = Signs(o) THEN script[o].sum ELSE script[o].rows[f]
      BY <3>1, <3>3, <3>4 DEF Sign, RowTexts, Rowses
    <3>7. QED
      BY <3>4, <3>5, <3>6 DEF SignedRows
  <2>2. CASE StampWrites
    BY <1>2, <2>2 DEF StampWrites, SignedInv
  <2>3. CASE (~\E o \in Owners : Sign(o)) /\ ~StampWrites
    <3>1. hash' = hash
      BY <2>3 DEF Next, vars, Start, Arming, Signing, Syncing, Kill, Checking, Edit, EditSchema,
       NextDay, Copy, Load, Store, NoResign, Clean, Undo, Hash, Compare, LoadRows, Read,
       StoreRegistry, Generate, CheckStarts, CheckFile, CheckEnds, Work, StampReads
    <3>2. QED
      BY <1>2, <3>1 DEF SignedInv
  <2>4. QED
    BY <2>1, <2>2, <2>3
<1>4. ASSUME NEW p \in Owners, script'[p].at = "sign"
      PROVE  SignedRows(vetted', script'[p].rows)
  <2>1. \/ script[p].at = "sign" /\ script'[p].rows = script[p].rows
        \/ script'[p].rows = hash
    BY <1>4, RowsInHand
  <2>2. QED
    BY <1>2, <2>1 DEF SignedInv
<1>5. /\ session'.at \in {"check", "passed", "first", "second"} => SignedRows(vetted', session'.rows)
      /\ session'.at = "passed" => Agrees'
  <2>1. CASE CheckStarts \/ StampReads
    BY <1>2, <2>1 DEF CheckStarts, StampReads, SignedInv
  <2>2. CASE CheckFile
    <3>1. /\ session = [at |-> "check", rows |-> session.rows, read |-> session.read]
          /\ SignedRows(vetted', session.rows)
      BY <1>2, <2>2 DEF CheckFile, TypeInv, SessionTyped, SignedInv
    <3>2. PICK f \in Files : session' = [session EXCEPT !.read[f] = content[f]]
      BY <2>2 DEF CheckFile, Unchecked, Files
    <3>3. session'.at = "check" /\ session'.rows = session.rows
      BY <3>1, <3>2
    <3>4. QED
      BY <3>1, <3>3
  <2>3. CASE CheckEnds
    <3>1. /\ session = [at |-> "check", rows |-> session.rows, read |-> session.read]
          /\ SignedRows(vetted', session.rows)
      BY <1>2, <2>3 DEF CheckEnds, TypeInv, SessionTyped, SignedInv
    <3>2. \/ Agrees /\ session' = [session EXCEPT !.at = "passed"]
          \/ session' = [at |-> "failed"]
      BY <2>3 DEF CheckEnds
    <3>3. CASE Agrees /\ session' = [session EXCEPT !.at = "passed"]
      <4>1. session' = [at |-> "passed", rows |-> session.rows, read |-> session.read]
        BY <3>1, <3>3
      <4>2. session'.at = "passed" /\ session'.rows = session.rows /\ session'.read = session.read
        BY <4>1
      <4>3. QED
        BY <3>1, <3>3, <4>2 DEF Agrees
    <3>4. CASE session' = [at |-> "failed"]
      BY <3>4
    <3>5. QED
      BY <3>2, <3>3, <3>4
  <2>4. CASE Work \/ StampWrites
    BY <2>4 DEF Work, StampWrites, Off
  <2>5. CASE ~Checking
    <3>1. session' = session
      BY <2>5 DEF Next, vars, Start, Arming, Signing, Syncing, Kill, Edit, EditSchema,
       NextDay, Copy, Load, Store, NoResign, Clean, Undo, Hash, Compare, LoadRows, Sign, Read,
       StoreRegistry, Generate
    <3>2. QED
      BY <1>2, <3>1 DEF SignedInv, Agrees
  <2>6. QED
    BY <2>1, <2>2, <2>3, <2>4, <2>5 DEF Checking
<1>6. QED
  BY <1>3, <1>4, <1>5 DEF SignedInv

(* A session whose integrity check passes has read, of each file with a     *)
(* hash, a text that the owner signed (integrity-check of the engine; the  *)
(* writes of arm, disarm, resign.sh and manifest_verify): the rows that     *)
(* anybody writes back are rows that somebody read, and the owner signed   *)
(* them then.                                                              *)
THEOREM OnlySignedPasses == Spec => []SignedByOwner
<1>1. Init => SignedInv
  <2> SUFFICES ASSUME Init PROVE SignedInv
    OBVIOUS
  <2>1. SignedRows(vetted, hash)
    BY DEF Init, SignedRows
  <2>2. session.at = "off" /\ \A o \in Owners : script[o].at = "off"
    BY DEF Init, Off
  <2>3. QED
    BY <2>1, <2>2 DEF SignedInv
<1>2. TypeInv /\ SignedInv => SignedByOwner
  BY DEF SignedInv, SignedRows, Agrees, SignedByOwner
<1>3. QED
  BY <1>1, <1>2, TypeInvInit, TypeInvStep, SignedInvStep, PTL DEF Spec

-----------------------------------------------------------------------------
(* PROGRAMS THAT NOBODY DISTURBED                                           *)

Kept(c) == content = c.before.content /\ hash = c.before.hash
Saved(c) == backup = c.before.content["PA"]

(* The header of c.before can be rewritten, and OPS-PREAPPROVAL.md has it.  *)
Header(c) == Rewritten(c.before.content["PA"], c.kind, c.arg)
Fits(c)   == c.before.content["PA"].form = "full"
Armed(c)  == Fits(c) /\ content = [c.before.content EXCEPT !["PA"] = Header(c)]

(* What the outcome of a program says of the files.                         *)
Promised(c) ==
    CASE c.kind \in {"arm", "disarm"} ->
           /\ backup = NoFile
           /\ IF c.result = "ok"
              THEN /\ Armed(c) /\ hash["PA"] = content["PA"]
                   /\ hash["REG"] = c.before.hash["REG"]
              ELSE Kept(c)
      [] c.kind = "resign" ->
           /\ content = c.before.content
           /\ hash = IF c.result = "ok" THEN [c.before.hash EXCEPT ![c.arg] = content[c.arg]]
                     ELSE c.before.hash
      [] c.kind = "sync" ->
           /\ hash = c.before.hash
           /\ IF c.result = "failed" THEN content = c.before.content
              ELSE /\ content = [c.before.content EXCEPT !["REG"].body = RenderedSections(yaml)]
                   /\ c.result = "ok" => LintOK
      [] OTHER -> Kept(c) /\ (c.result = "ok" => LintOK)

(* What a program has done so far, stage by stage: what it carries is what  *)
(* it would read again, and what it must restore is in the backup.          *)
Faithful(c) ==
    /\ c.at \in {"copy", "load", "store", "read", "registry"} => Kept(c)
    /\ c.at \in {"load", "store"} => Saved(c)
    /\ c.at = "store" => Fits(c) /\ c.text = Header(c)
    /\ c.at \in {"hash", "compare", "rows", "sign"} =>
          IF c.kind = "resign" THEN Kept(c)
          ELSE Armed(c) /\ Saved(c) /\ hash = c.before.hash
    /\ c.at \in {"compare", "rows", "sign"} => c.sum = content[SignedFile(c)]
    /\ c.at = "sign" => c.rows = hash
    /\ c.at = "clean" => /\ Armed(c) /\ hash["PA"] = content["PA"]
                         /\ hash["REG"] = c.before.hash["REG"]
    /\ c.at = "undo" => /\ Saved(c) /\ hash = c.before.hash
                        /\ content["REG"] = c.before.content["REG"]
    /\ c.at \in {"registry", "generate"} => c.sum = RenderedWhole(yaml) /\ Loads(yaml)
    /\ c.at = "registry" => c.text = [content["REG"] EXCEPT !.body = RenderedSections(yaml)]
    /\ c.at = "generate" =>
          /\ hash = c.before.hash
          /\ content = IF c.kind = "sync"
                       THEN [c.before.content EXCEPT !["REG"].body = RenderedSections(yaml)]
                       ELSE c.before.content
    /\ c.at = "done" => Promised(c)

(* A program whose work nobody else has overwritten.                        *)
Undisturbed(c) == c.at # "off" /\ c.before # NoFile

AtomicInv == \A o \in Owners : Undisturbed(script[o]) => Faithful(script[o])

(* Those whose files nobody touches stay faithful; the others are disturbed. *)
LEMMA OthersFaithful ==
  ASSUME AtomicInv, NEW p \in Owners, Undisturbed(script'[p]),
         \/ /\ script'[p] = script[p]
            /\ UNCHANGED <<content, hash, backup, yaml, generated>>
         \/ Forgets(script[p], script'[p])
  PROVE  Faithful(script[p])'
<1>1. ~Forgets(script[p], script'[p])
  BY DEF Forgets, Undisturbed, Off
<1>2. /\ script'[p] = script[p] /\ Faithful(script[p])
      /\ UNCHANGED <<content, hash, backup, yaml, generated>>
  BY <1>1 DEF AtomicInv
<1>3. QED
  BY <1>2 DEF Faithful, Kept, Saved, Fits, Header, Armed, Promised, LintOK

(* What an undisturbed outcome says is what the program was.                *)
LEMMA OutcomeTold ==
  ASSUME ScriptsTyped, NEW o \in Owners, Running(script[o]),
         NEW result \in {"ok", "noop", "failed", "died"},
         script'[o] = Outcome(o, result), Undisturbed(script'[o])
  PROVE  /\ script[o].before # NoFile /\ script[o].before \in Founds
         /\ script'[o].at = "done" /\ script'[o].result = result /\ Same(o)
<1>1. \/ script'[o] = Off
      \/ /\ script[o].before # NoFile /\ script'[o].before = script[o].before
         /\ script'[o].at = "done" /\ script'[o].result = result
         /\ script'[o].kind = script[o].kind /\ script'[o].arg = script[o].arg
  BY Outcomes_
<1>2. script'[o] # Off
  BY DEF Undisturbed, Off
<1>3. script[o].before # NoFile => script[o].before \in Founds
  BY DEF Running, Staged, FoundTyped
<1>4. QED
  BY <1>1, <1>2, <1>3 DEF Same

(* A rewritten file is in its place, and the other one is as it was.        *)
LEMMA Replaced ==
  ASSUME NEW c \in Contents, NEW f \in Files, NEW text
  PROVE  /\ [c EXCEPT ![f] = text][f] = text
         /\ \A g \in Files : g # f => [c EXCEPT ![f] = text][g] = c[g]
         /\ [c EXCEPT ![f] = c[f]] = c
         /\ \A other : [[c EXCEPT ![f] = other] EXCEPT ![f] = text] = [c EXCEPT ![f] = text]
BY DEF Contents

(* Two of the functions on the files are the same if both values are.       *)
LEMMA SameFiles ==
  ASSUME NEW c \in Contents, NEW d \in Contents, c["PA"] = d["PA"], c["REG"] = d["REG"]
  PROVE  c = d
<1>1. c = [f \in Files |-> c[f]] /\ d = [f \in Files |-> d[f]]
  BY DEF Contents
<1>2. \A f \in Files : c[f] = d[f]
  BY DEF Files
<1>3. QED
  BY <1>1, <1>2

(* What is found before is of the types of files and rows.                  *)
LEMMA FoundBefore ==
  ASSUME TypeInv, NEW o \in Owners, Running(script[o]), script[o].before # NoFile
  PROVE  /\ script[o].before.content \in Contents /\ script[o].before.content \in FileTexts
         /\ script[o].before.hash \in RowTexts /\ script[o].before.hash \in [Files -> Texts \cup {Unsigned}]
         /\ content \in Contents /\ script[o].before.content["PA"] # NoFile
<1>1. FoundTyped(script[o].before)
  BY DEF Running, Staged
<1>2. /\ script[o].before.content \in FileTexts /\ script[o].before.hash \in RowTexts
  BY <1>1 DEF FoundTyped
<1>3. QED
  BY <1>2, ManifestAssumption DEF FileTexts, RowTexts, Rowses, Texts, TypeInv

(* arm and disarm keep faith.                                               *)
LEMMA ArmingFaithful ==
  ASSUME TypeInv, AtomicInv, NEW o \in Owners, Arming(o), Undisturbed(script'[o])
  PROVE  Faithful(script[o])'
<1>0. ScriptsTyped /\ "PA" \in Files /\ "REG" \in Files /\ "PA" # "REG"
  BY DEF TypeInv, Files
<1>1. script[o].at \in {"copy", "load", "store", "hash", "undo", "clean"}
  BY DEF Arming, Copy, Load, Store, NoResign, Clean, Undo
<1>2. Running(script[o]) /\ script[o].kind \in Kinds /\ Staged(script[o])
  BY <1>0, <1>1, Runs
<1>3. script[o].at # "off" /\ (Same(o) => script[o].before # NoFile)
  BY <1>1 DEF Same, Undisturbed
<1>4. script[o].before # NoFile => Faithful(script[o])
  BY <1>3 DEF AtomicInv, Undisturbed
<1>5. script[o].at # "hash" => script[o].kind \in {"arm", "disarm"}
  BY <1>1, <1>2 DEF Staged, Kinds
<1> DEFINE c == script[o]
           d == script'[o]
           b == script[o].before
<1>6. CASE Copy(o)
  <2>1. Same(o) /\ d.at = "load"
    BY <1>6, ArmingSteps
  <2>2. Kept(c)
    BY <1>3, <1>4, <1>6, <2>1 DEF Copy, Faithful
  <2>3. QED
    BY <1>6, <2>1, <2>2 DEF Same, Copy, Faithful, Kept, Saved
<1>7. CASE Load(o)
  <2>1. /\ Same(o) /\ UNCHANGED <<content, hash, backup, yaml, generated>>
        /\ \/ /\ content["PA"].form = "full" /\ d.at = "store"
              /\ d.text = Rewritten(content["PA"], c.kind, c.arg)
           \/ d.at = "undo"
    BY <1>7, ArmingSteps DEF Load
  <2>2. Kept(c) /\ Saved(c)
    BY <1>3, <1>4, <1>7, <2>1 DEF Load, Faithful
  <2>3. QED
    BY <2>1, <2>2 DEF Same, Faithful, Kept, Saved, Fits, Header
<1>8. CASE Store(o)
  <2>1. Same(o) /\ d.at = "hash"
    BY <1>8, ArmingSteps
  <2>2. Kept(c) /\ Saved(c) /\ Fits(c) /\ c.text = Header(c)
    BY <1>3, <1>4, <1>8, <2>1 DEF Store, Faithful
  <2>3. /\ content' = [content EXCEPT !["PA"] = c.text]
        /\ UNCHANGED <<hash, backup, yaml, generated>>
    BY <1>8 DEF Store
  <2>4. d.kind # "resign"
    BY <1>5, <1>8, <2>1 DEF Store, Same
  <2>5. QED
    BY <2>1, <2>2, <2>3, <2>4 DEF Same, Faithful, Kept, Saved, Fits, Header, Armed
<1>9. CASE NoResign(o)
  <2>1. /\ Same(o) /\ d.at = "undo" /\ UNCHANGED <<content, hash, backup, yaml, generated>>
    BY <1>9, ArmingSteps DEF NoResign
  <2>2. Armed(c) /\ Saved(c) /\ hash = b.hash
    BY <1>3, <1>4, <1>9, <2>1 DEF NoResign, Faithful
  <2>3. content["REG"] = b.content["REG"]
    BY <1>0, <1>2, <1>3, <2>1, <2>2, FoundBefore, Replaced DEF Armed
  <2>4. QED
    BY <2>1, <2>2, <2>3 DEF Same, Faithful, Saved
<1>10. CASE Clean(o)
  <2>1. d = Outcome(o, "ok") /\ backup' = NoFile /\ UNCHANGED <<content, hash, yaml, generated>>
    BY <1>10, ArmingSteps DEF Clean
  <2>2. b # NoFile /\ d.at = "done" /\ d.result = "ok" /\ Same(o)
    BY <1>0, <1>2, <2>1, OutcomeTold
  <2>3. Armed(c) /\ hash["PA"] = content["PA"] /\ hash["REG"] = b.hash["REG"]
    BY <1>4, <1>10, <2>2 DEF Clean, Faithful
  <2>4. d.kind \in {"arm", "disarm"}
    BY <1>5, <1>10, <2>2 DEF Clean, Same
  <2>5. Promised(script[o])'
    BY <2>1, <2>2, <2>3, <2>4 DEF Same, Promised, Armed, Fits, Header
  <2>6. QED
    BY <2>2, <2>5 DEF Faithful
<1>11. CASE Undo(o)
  <2>1. \/ /\ backup # NoFile /\ d = Outcome(o, "failed")
           /\ content' = [content EXCEPT !["PA"] = backup] /\ backup' = NoFile
        \/ backup = NoFile /\ d = Outcome(o, "died")
    BY <1>11, ArmingSteps
  <2>2. b # NoFile /\ d.at = "done" /\ Same(o) /\ d.result \in {"failed", "died"}
    BY <1>0, <1>2, <2>1, OutcomeTold
  <2>3. Saved(c) /\ hash = b.hash /\ content["REG"] = b.content["REG"]
    BY <1>4, <1>11, <2>2 DEF Undo, Faithful
  <2>4. /\ b.content \in Contents /\ content \in Contents /\ b.content["PA"] # NoFile
        /\ b.content["PA"] \in Texts
    BY <1>2, <2>2, FoundBefore DEF FileTexts, Texts
  <2>5. content' = [content EXCEPT !["PA"] = backup] /\ backup' = NoFile
    BY <2>1, <2>3, <2>4 DEF Saved
  <2>6. content' \in Contents
    BY <2>3, <2>4, <2>5 DEF Saved, Contents, Texts
  <2>7. content' = b.content
    <3>1. content'["PA"] = b.content["PA"] /\ content'["REG"] = b.content["REG"]
      <4>1. backup = b.content["PA"] /\ content["REG"] = b.content["REG"]
        BY <2>3 DEF Saved
      <4>2. /\ [content EXCEPT !["PA"] = backup]["PA"] = backup
            /\ [content EXCEPT !["PA"] = backup]["REG"] = content["REG"]
        BY <1>0, <2>4 DEF Contents
      <4>3. QED
        BY <2>5, <4>1, <4>2
    <3>2. QED
      BY <2>4, <2>6, <3>1, SameFiles
  <2>8. d.kind \in {"arm", "disarm"} /\ hash' = hash
    BY <1>5, <1>11, <2>2 DEF Undo, Same
  <2>9. Promised(script[o])'
    BY <2>2, <2>3, <2>5, <2>7, <2>8 DEF Same, Promised, Kept
  <2>10. QED
    BY <2>2, <2>9 DEF Faithful
<1>12. QED
  BY <1>6, <1>7, <1>8, <1>9, <1>10, <1>11 DEF Arming

(* resign.sh keeps faith, alone or in them.                                 *)
LEMMA SigningFaithful ==
  ASSUME TypeInv, AtomicInv, NEW o \in Owners, Signing(o), Undisturbed(script'[o])
  PROVE  Faithful(script[o])'
<1>0. ScriptsTyped /\ "PA" \in Files /\ "REG" \in Files /\ "PA" # "REG"
  BY DEF TypeInv, Files
<1>1. script[o].at \in {"hash", "compare", "rows", "sign"}
  BY DEF Signing, Hash, Compare, LoadRows, Sign
<1>2. Running(script[o]) /\ script[o].kind \in Kinds /\ Staged(script[o])
  BY <1>0, <1>1, Runs
<1>3. script[o].before # NoFile => Faithful(script[o])
  BY <1>1 DEF AtomicInv, Undisturbed
<1>4. script[o].kind # "resign" => script[o].kind \in {"arm", "disarm"}
  BY <1>1, <1>2 DEF Staged, Kinds
<1>5. /\ Signs(o) \in Files /\ Signs(o) = SignedFile(script[o])
      /\ script[o].kind = "resign" => Signs(o) = script[o].arg
      /\ script[o].kind # "resign" => Signs(o) = "PA"
  BY <1>2, SignsFile DEF Signs
<1> DEFINE c == script[o]
           d == script'[o]
           b == script[o].before
<1>6. Same(o) => /\ b # NoFile /\ SignedFile(d) = SignedFile(c)
                 /\ IF c.kind = "resign" THEN Kept(c)
                    ELSE Armed(c) /\ Saved(c) /\ hash = b.hash
  BY <1>1, <1>3 DEF Same, Undisturbed, SignedFile, Faithful
<1>7. b # NoFile => /\ c.kind = "resign" => Kept(c)
                    /\ c.kind # "resign" => Armed(c) /\ Saved(c) /\ hash = b.hash
  BY <1>1, <1>3 DEF Faithful
<1>8. CASE Hash(o)
  <2>1. /\ Same(o) /\ d.at = "compare" /\ d.sum = content[Signs(o)]
        /\ UNCHANGED <<content, hash, backup, yaml, generated>>
    BY <1>8, SigningSteps DEF Hash
  <2>2. QED
    BY <1>5, <1>6, <2>1 DEF Same, Faithful, Kept, Armed, Saved, Fits, Header
<1>9. CASE Compare(o)
  <2>0. UNCHANGED <<content, hash, backup, yaml, generated>> /\ c.at = "compare"
    BY <1>9 DEF Compare
  <2>1. b # NoFile => c.sum = content[Signs(o)]
    BY <1>3, <1>5, <2>0 DEF Faithful
  <2>2. CASE Same(o) /\ d.at = "rows" /\ d.sum = c.sum
    BY <1>5, <1>6, <2>0, <2>1, <2>2 DEF Same, Faithful, Kept, Armed, Saved, Fits, Header
  <2>3. CASE hash[Signs(o)] = c.sum /\ c.kind = "resign" /\ d = Outcome(o, "ok")
    <3>1. b # NoFile /\ d.at = "done" /\ d.result = "ok" /\ Same(o)
      BY <1>0, <1>2, <2>3, OutcomeTold
    <3>2. Kept(c) /\ hash[c.arg] = content[c.arg] /\ c.arg \in Files
      BY <1>5, <1>7, <2>1, <2>3, <3>1
    <3>3. hash = [b.hash EXCEPT ![c.arg] = content[c.arg]]
      BY <1>2, <3>1, <3>2, FoundBefore DEF Kept
    <3>4. Promised(script[o])'
      BY <2>0, <2>3, <3>1, <3>2, <3>3 DEF Same, Promised, Kept
    <3>5. QED
      BY <3>1, <3>4 DEF Faithful
  <2>4. CASE /\ hash[Signs(o)] = c.sum /\ c.kind # "resign" /\ Same(o) /\ d.at = "clean"
    <3>1. Armed(c) /\ hash = b.hash /\ hash["PA"] = content["PA"]
      BY <1>5, <1>6, <2>1, <2>4
    <3>2. QED
      BY <2>0, <2>4, <3>1 DEF Same, Faithful, Armed, Fits, Header
  <2>5. QED
    BY <1>9, <2>2, <2>3, <2>4, SigningSteps
<1>10. CASE LoadRows(o)
  <2>0. UNCHANGED <<content, hash, backup, yaml, generated>> /\ c.at = "rows"
    BY <1>10 DEF LoadRows
  <2>1. b # NoFile => c.sum = content[Signs(o)]
    BY <1>3, <1>5, <2>0 DEF Faithful
  <2>2. CASE Same(o) /\ d.at = "sign" /\ d.sum = c.sum /\ d.rows = hash
    BY <1>5, <1>6, <2>0, <2>1, <2>2 DEF Same, Faithful, Kept, Armed, Saved, Fits, Header
  <2>3. CASE c.kind = "resign" /\ d = Outcome(o, "failed")
    <3>1. b # NoFile /\ d.at = "done" /\ d.result = "failed" /\ Same(o)
      BY <1>0, <1>2, <2>3, OutcomeTold
    <3>2. Kept(c)
      BY <1>7, <2>3, <3>1
    <3>3. Promised(script[o])'
      BY <2>0, <2>3, <3>1, <3>2 DEF Same, Promised, Kept
    <3>4. QED
      BY <3>1, <3>3 DEF Faithful
  <2>4. CASE c.kind # "resign" /\ Same(o) /\ d.at = "undo"
    <3>1. Armed(c) /\ Saved(c) /\ hash = b.hash
      BY <1>6, <2>4
    <3>2. content["REG"] = b.content["REG"]
      BY <1>0, <1>2, <1>6, <2>4, <3>1, FoundBefore, Replaced DEF Armed
    <3>3. QED
      BY <2>0, <2>4, <3>1, <3>2 DEF Same, Faithful, Saved
  <2>5. QED
    BY <1>10, <2>2, <2>3, <2>4, SigningSteps
<1>11. CASE Sign(o)
  <2>0. /\ hash' = [c.rows EXCEPT ![Signs(o)] = c.sum] /\ c.at = "sign"
        /\ UNCHANGED <<content, backup, yaml, generated>>
    BY <1>11 DEF Sign
  <2>1. b # NoFile => c.sum = content[Signs(o)] /\ c.rows = hash
    BY <1>3, <1>5, <2>0 DEF Faithful
  <2>2. CASE c.kind = "resign" /\ d = Outcome(o, "ok")
    <3>1. b # NoFile /\ d.at = "done" /\ d.result = "ok" /\ Same(o)
      BY <1>0, <1>2, <2>2, OutcomeTold
    <3>2. Kept(c) /\ hash' = [b.hash EXCEPT ![c.arg] = content[c.arg]]
      BY <1>5, <1>7, <2>0, <2>1, <2>2, <3>1 DEF Kept
    <3>3. Promised(script[o])'
      BY <2>0, <2>2, <3>1, <3>2 DEF Same, Promised, Kept
    <3>4. QED
      BY <3>1, <3>3 DEF Faithful
  <2>3. CASE c.kind # "resign" /\ Same(o) /\ d.at = "clean"
    <3>1. Armed(c) /\ hash = b.hash /\ b # NoFile
      BY <1>6, <2>3
    <3>2. hash' = [b.hash EXCEPT !["PA"] = content["PA"]]
      BY <1>5, <2>0, <2>1, <2>3, <3>1
    <3>3. hash'["PA"] = content'["PA"] /\ hash'["REG"] = b.hash["REG"]
      BY <1>0, <1>2, <2>0, <3>1, <3>2, FoundBefore
    <3>4. QED
      BY <2>0, <2>3, <3>1, <3>3 DEF Same, Faithful, Armed, Fits, Header
  <2>4. QED
    BY <1>11, <2>2, <2>3, SigningSteps
<1>12. QED
  BY <1>8, <1>9, <1>10, <1>11 DEF Signing

(* schema-sync and schema-render keep faith.                                *)
LEMMA SyncingFaithful ==
  ASSUME TypeInv, AtomicInv, NEW o \in Owners, Syncing(o), Undisturbed(script'[o])
  PROVE  Faithful(script[o])'
<1>0. ScriptsTyped /\ "PA" \in Files /\ "REG" \in Files /\ "PA" # "REG"
  BY DEF TypeInv, Files
<1>1. script[o].at \in {"read", "registry", "generate"}
  BY DEF Syncing, Read, StoreRegistry, Generate
<1>2. /\ Running(script[o]) /\ script[o].kind \in Kinds /\ Staged(script[o])
      /\ script[o].kind \in {"sync", "render"}
  BY <1>0, <1>1, Runs DEF Staged, Kinds
<1>3. script[o].before # NoFile => Faithful(script[o])
  BY <1>1 DEF AtomicInv, Undisturbed
<1>4. Same(o) => script[o].before # NoFile
  BY DEF Same, Undisturbed
<1> DEFINE c == script[o]
           d == script'[o]
           b == script[o].before
<1>5. CASE Read(o)
  <2>0. UNCHANGED <<content, hash, backup, yaml, generated>> /\ c.at = "read"
    BY <1>5 DEF Read
  <2>1. b # NoFile => Kept(c)
    BY <1>3, <2>0 DEF Faithful
  <2>2. CASE d = Outcome(o, "failed")
    <3>1. b # NoFile /\ d.at = "done" /\ d.result = "failed" /\ Same(o)
      BY <1>0, <1>2, <2>2, OutcomeTold
    <3>2. Promised(script[o])'
      BY <1>2, <2>0, <2>1, <3>1 DEF Same, Promised, Kept
    <3>3. QED
      BY <3>1, <3>2 DEF Faithful
  <2>3. CASE /\ c.kind = "sync" /\ d = Outcome(o, "noop")
             /\ content["REG"].body = RenderedSections(yaml)
    <3>1. b # NoFile /\ d.at = "done" /\ d.result = "noop" /\ Same(o)
      BY <1>0, <1>2, <2>3, OutcomeTold
    <3>2. content["REG"] = [content["REG"] EXCEPT !.body = RenderedSections(yaml)]
      BY <2>3 DEF TypeInv, FileTexts, Registries
    <3>3. content = [content EXCEPT !["REG"] = [content["REG"] EXCEPT !.body = RenderedSections(yaml)]]
      <4>1. content \in Contents
        BY DEF TypeInv, FileTexts
      <4>2. [content EXCEPT !["REG"] = content["REG"]] = content
        BY <1>0, <4>1 DEF Contents
      <4>3. QED
        BY <3>2, <4>2
    <3>4. Promised(script[o])'
      BY <2>0, <2>1, <2>3, <3>1, <3>3 DEF Same, Promised, Kept, RenderedSections
    <3>5. QED
      BY <3>1, <3>4 DEF Faithful
  <2>4. CASE /\ Loads(yaml) /\ c.kind = "render" /\ Same(o)
             /\ d.at = "generate" /\ d.sum = RenderedWhole(yaml)
    BY <1>4, <2>0, <2>1, <2>4 DEF Same, Faithful, Kept
  <2>5. CASE /\ Loads(yaml) /\ c.kind = "sync" /\ Same(o)
             /\ d.at = "registry" /\ d.sum = RenderedWhole(yaml)
             /\ d.text = [content["REG"] EXCEPT !.body = RenderedSections(yaml)]
    BY <1>4, <2>0, <2>1, <2>5 DEF Same, Faithful, Kept
  <2>6. QED
    BY <1>5, <2>2, <2>3, <2>4, <2>5, SyncingSteps
<1>6. CASE StoreRegistry(o)
  <2>0. /\ content' = [content EXCEPT !["REG"] = c.text] /\ c.at = "registry"
        /\ UNCHANGED <<hash, backup, yaml, generated>>
    BY <1>6 DEF StoreRegistry
  <2>1. Same(o) /\ c.kind = "sync" /\ d.at = "generate" /\ d.sum = c.sum
    BY <1>6, SyncingSteps
  <2>2. /\ Kept(c) /\ c.sum = RenderedWhole(yaml) /\ Loads(yaml)
        /\ c.text = [content["REG"] EXCEPT !.body = RenderedSections(yaml)]
    BY <1>3, <1>4, <2>0, <2>1 DEF Faithful
  <2>3. QED
    BY <2>0, <2>1, <2>2 DEF Same, Faithful, Kept
<1>7. CASE Generate(o)
  <2>0. /\ generated' = c.sum /\ c.at = "generate"
        /\ UNCHANGED <<content, hash, backup, yaml>>
    BY <1>7 DEF Generate
  <2>1. d = Outcome(o, "ok")
    BY <1>7, SyncingSteps
  <2>2. b # NoFile /\ d.at = "done" /\ d.result = "ok" /\ Same(o)
    BY <1>0, <1>2, <2>1, OutcomeTold
  <2>3. /\ c.sum = RenderedWhole(yaml) /\ Loads(yaml) /\ hash = b.hash
        /\ c.kind = "sync" =>
              content = [b.content EXCEPT !["REG"].body = RenderedSections(yaml)]
        /\ c.kind = "render" => content = b.content
    BY <1>3, <2>0, <2>2 DEF Faithful
  <2>4. LintOK'
    BY <2>0, <2>3 DEF LintOK
  <2>5. CASE c.kind = "sync"
    <3>1. Promised(script[o])'
      BY <2>0, <2>2, <2>3, <2>4, <2>5 DEF Same, Promised
    <3>2. QED
      BY <2>2, <3>1 DEF Faithful
  <2>6. CASE c.kind = "render"
    <3>1. Promised(script[o])'
      BY <2>0, <2>2, <2>3, <2>4, <2>6 DEF Same, Promised, Kept
    <3>2. QED
      BY <2>2, <3>1 DEF Faithful
  <2>7. QED
    BY <1>2, <2>5, <2>6
<1>8. QED
  BY <1>5, <1>6, <1>7 DEF Syncing

(* Every step keeps undisturbed programs faithful.                          *)
LEMMA AtomicInvStep ==
  ASSUME TypeInv, AtomicInv, [Next]_vars
  PROVE  AtomicInv'
<1>0. SUFFICES ASSUME NEW p \in Owners, Undisturbed(script'[p])
               PROVE  Faithful(script[p])'
  BY DEF AtomicInv
<1>1. ASSUME NEW o \in Owners, Start(o) PROVE Faithful(script[p])'
  <2>0. UNCHANGED <<content, hash, backup, yaml, generated>>
    BY <1>1 DEF Start
  <2>1. CASE p = o
    BY <1>0, <1>1, <2>0, <2>1, StartStep DEF First, Kinds, Faithful, Kept
  <2>2. CASE p # o
    BY <1>0, <1>1, <2>0, <2>2, StartStep, OthersFaithful DEF Silent
  <2>3. QED
    BY <2>1, <2>2
<1>2. ASSUME NEW o \in Owners, Kill(o) PROVE Faithful(script[p])'
  <2>1. UNCHANGED <<content, hash, backup, yaml, generated>> /\ p # o
    BY <1>0, <1>2, KillStep DEF Kill, Undisturbed
  <2>2. QED
    BY <1>0, <1>2, <2>1, KillStep, OthersFaithful DEF Silent
<1>3. ASSUME NEW o \in Owners, Arming(o) \/ Signing(o) \/ Syncing(o), p # o
      PROVE  Faithful(script[p])'
  <2>1. \/ Loud(o)
        \/ Silent(o) /\ UNCHANGED <<content, hash, backup, yaml, generated>>
    <3>1. CASE Arming(o)
      BY <3>1, ArmingSteps DEF Arming, Load, NoResign, Undo
    <3>2. CASE Signing(o)
      BY <3>2, SigningSteps DEF Signing, Hash, Compare, LoadRows
    <3>3. CASE Syncing(o)
      BY <3>3, SyncingSteps DEF Syncing, Read
    <3>4. QED
      BY <1>3, <3>1, <3>2, <3>3
  <2>2. QED
    BY <1>0, <1>3, <2>1, OthersFaithful DEF Silent, Loud
<1>4. ASSUME NEW o \in Owners, Arming(o) \/ Signing(o) \/ Syncing(o), p = o
      PROVE  Faithful(script[p])'
  BY <1>0, <1>4, ArmingFaithful, SigningFaithful, SyncingFaithful
<1>5. CASE Checking \/ (\E f \in Files : Edit(f)) \/ EditSchema \/ NextDay \/ UNCHANGED vars
  <2>1. \/ script' = Noticed(NoFile)
        \/ script' = script /\ UNCHANGED <<content, hash, backup, yaml, generated>>
    BY <1>5 DEF Checking, CheckStarts, CheckFile, CheckEnds, Work, StampReads, StampWrites,
       Edit, EditSchema, NextDay, vars
  <2>2. QED
    BY <1>0, <2>1, AllNotice, OthersFaithful DEF TypeInv
<1>6. QED
  BY <1>1, <1>2, <1>3, <1>4, <1>5 DEF Next

(* There is nobody to be faithful yet.                                      *)
LEMMA AtomicInvInit == Init => AtomicInv
BY DEF Init, AtomicInv, Undisturbed, Off

(* An outcome that is there is undisturbed.                                 *)
LEMMA DoneUndisturbed ==
  ASSUME TypeInv, AtomicInv, NEW o \in Owners, script[o].at = "done"
  PROVE  /\ Promised(script[o]) /\ script[o].kind \in Kinds
         /\ script[o].arg \in Args(script[o].kind)
         /\ script[o].before.content \in FileTexts /\ script[o].before.hash \in RowTexts
<1>1. Ended(script[o])
  BY AtTells DEF TypeInv, ScriptsTyped, Typed
<1>2. PICK kind \in Kinds : script[o] \in Outcomes(kind)
  BY <1>1 DEF Ended
<1>3. script[o].kind = kind /\ script[o].before \in Founds /\ script[o].arg \in Args(kind)
  BY <1>2 DEF Outcomes
<1>4. Undisturbed(script[o])
  BY <1>1 DEF Ended, Undisturbed
<1>5. Promised(script[o])
  BY <1>4 DEF AtomicInv, Faithful
<1>6. QED
  BY <1>1, <1>3, <1>5 DEF Ended, FoundTyped

(* A program of the owner that nobody disturbs and nobody kills does all it *)
(* says or leaves files, rows and backup as they were (arm, disarm,         *)
(* resign.sh, schema-sync and schema-render), for every number of programs *)
(* and whatever the files were before.                                     *)
THEOREM AllOrNothing == Spec => []ScriptsAtomic
<1>1. ASSUME TypeInv, AtomicInv PROVE ScriptsAtomic
  <2>1. SUFFICES ASSUME NEW o \in Owners, script[o].at = "done"
                 PROVE
                 CASE script[o].kind \in {"arm", "disarm"} ->
                   /\ backup = NoFile
                   /\ hash["REG"] = script[o].before.hash["REG"]
                   /\ content["REG"] = script[o].before.content["REG"]
                   /\ IF script[o].result = "ok"
                      THEN /\ content["PA"] = Rewritten(script[o].before.content["PA"],
                                                       script[o].kind, script[o].arg)
                           /\ hash["PA"] = content["PA"]
                      ELSE /\ hash = script[o].before.hash
                           /\ content = script[o].before.content
                 [] script[o].kind = "resign" ->
                   /\ content = script[o].before.content
                   /\ hash = IF script[o].result = "ok"
                             THEN [script[o].before.hash EXCEPT ![script[o].arg] = content[script[o].arg]]
                             ELSE script[o].before.hash
                 [] script[o].kind = "sync" ->
                   /\ hash = script[o].before.hash
                   /\ IF script[o].result = "failed" THEN content = script[o].before.content
                      ELSE /\ content = [script[o].before.content EXCEPT
                                            !["REG"].body = RenderedSections(yaml)]
                           /\ script[o].result = "ok" => LintOK
                 [] OTHER -> /\ content = script[o].before.content
                             /\ hash = script[o].before.hash
                             /\ script[o].result = "ok" => LintOK
    BY DEF ScriptsAtomic
  <2>2. /\ Promised(script[o]) /\ script[o].kind \in Kinds
        /\ script[o].before.content \in Contents
    BY <1>1, <2>1, DoneUndisturbed DEF FileTexts
  <2>3. CASE script[o].kind \in {"arm", "disarm"}
    <3>1. /\ backup = NoFile
          /\ IF script[o].result = "ok"
             THEN /\ Armed(script[o]) /\ hash["PA"] = content["PA"]
                  /\ hash["REG"] = script[o].before.hash["REG"]
             ELSE Kept(script[o])
      BY <2>2, <2>3 DEF Promised
    <3>2. Armed(script[o]) => /\ content["PA"] = Header(script[o])
                              /\ content["REG"] = script[o].before.content["REG"]
      BY <2>2, Replaced DEF Armed, Files
    <3>3. QED
      BY <2>3, <3>1, <3>2 DEF Header, Kept
  <2>4. CASE script[o].kind = "resign"
    BY <2>2, <2>4 DEF Promised
  <2>5. CASE script[o].kind = "sync"
    BY <2>2, <2>5 DEF Promised
  <2>6. CASE script[o].kind = "render"
    BY <2>2, <2>6 DEF Promised, Kept
  <2>7. QED
    BY <2>2, <2>3, <2>4, <2>5, <2>6 DEF Kinds
<1>2. QED
  BY <1>1, TypeInvInit, TypeInvStep, AtomicInvInit, AtomicInvStep, PTL DEF Spec

-----------------------------------------------------------------------------
(* WHAT READERS MAKE OF THE SCHEMA AND THE TABLES                           *)

(* Numbers cannot become less and less.                                     *)
Below == {ss \in Nat \X Nat : ss[1] < ss[2]}

(* ... which is what well-founded means.                                   *)
LEMMA BelowWellFounded == IsWellFoundedOn(Below, Nat)
<1>1. OpToRel(<, Nat) = Below
  BY Zenon DEF OpToRel, Below
<1>2. QED
  BY <1>1, NatLessThanWellFounded, Zenon

(* The least of some numbers.                                               *)
LEMMA Least ==
  ASSUME NEW hits \in SUBSET Nat, hits # {}
  PROVE  \E i \in hits : \A j \in hits : i <= j
<1>1. PICK i \in hits : \A j \in hits : <<j, i>> \notin Below
  BY BelowWellFounded, WFMin
<1>2. ASSUME NEW j \in hits PROVE i <= j
  <2>1. i \in Nat /\ j \in Nat /\ <<j, i>> \notin Below
    BY <1>1
  <2>2. ~(j < i)
    BY <2>1 DEF Below
  <2>3. QED
    BY <2>1, <2>2
<1>3. QED
  BY <1>2

(* A list has numbers for its domain.                                       *)
LEMMA Listed ==
  ASSUME NEW S, NEW list \in Seq(S)
  PROVE  /\ DOMAIN list = 1 .. Len(list) /\ Len(list) \in Nat
         /\ DOMAIN list \subseteq Nat /\ list \in [DOMAIN list -> S]
OBVIOUS

(* A path that a row matches has a route (gates.py): the first such row.    *)
LEMMA Routed ==
  ASSUME NEW s \in Schemas, NEW path, NEW r \in Rows(s), Matches(r.file, path)
  PROVE  /\ RouteFor(s, path) \in Rows(s) /\ RouteFor(s, path) # NoRow
         /\ Matches(RouteFor(s, path).file, path)
<1> DEFINE hits == {i \in DOMAIN s.routes : Matches(s.routes[i].file, path)}
           first == CHOOSE i \in hits : \A j \in hits : i <= j
<1>1. DOMAIN s.routes \subseteq Nat /\ \A i \in DOMAIN s.routes : s.routes[i] # NoRow
  <2> DEFINE S == [file : Names, tier : STRING, bundle : s.bundleNames \cup {""}]
  <2>1. s.routes \in Seq(S) /\ \A i \in DOMAIN s.routes : s.routes[i] # NoRow
    BY TablesAssumption DEF IsSchema
  <2> HIDE DEF S
  <2>2. QED
    BY <2>1, Listed
<1>2. hits \in SUBSET Nat /\ hits # {}
  BY <1>1 DEF Rows
<1>3. first \in hits
  BY <1>2, Least
<1>4. RouteFor(s, path) = s.routes[first]
  BY <1>2 DEF RouteFor
<1>5. QED
  BY <1>1, <1>3, <1>4 DEF Rows

(* There are finitely many rows.                                            *)
LEMMA FiniteRows ==
  ASSUME NEW s \in Schemas
  PROVE  IsFiniteSet(Rows(s))
<1> DEFINE S == [file : Names, tier : STRING, bundle : s.bundleNames \cup {""}]
<1>1. s.routes \in Seq(S)
  BY TablesAssumption DEF IsSchema
<1> HIDE DEF S
<1>2. /\ DOMAIN s.routes = 1 .. Len(s.routes) /\ Len(s.routes) \in Nat
      /\ s.routes \in [DOMAIN s.routes -> S]
  BY <1>1, Listed
<1>3. IsFiniteSet(DOMAIN s.routes)
  BY <1>2, FS_Interval
<1>4. s.routes \in Surjection(DOMAIN s.routes, Rows(s))
  BY <1>2 DEF Rows, Surjection
<1>5. QED
  BY <1>3, <1>4, FS_Surjection

(* What a run of scr-verify that fails nothing has found out.               *)
LEMMA ScrFound ==
  ASSUME RulesDeclared, NEW s \in Schemas, NEW w \in Disks, ScrFailed(s, w) = {}
  PROVE  /\ Tier(s, "PROTECTED") \subseteq s.protected
         /\ Tier(s, "PROTECTED") \subseteq
               {e.target : e \in {x \in s.edges : x.type = "VALIDATES"}}
         /\ CodeFiles \cap w.files = Tier(s, "CODE")
         /\ \A c \in w.calls :
               c.bundle \in DOMAIN s.bundles => s.bundles[c.bundle].args \subseteq c.args
<1> DEFINE verdict == Predicate(s, w)
           failed == {r \in s.rules : r \notin DOMAIN verdict \/ verdict[r] = "FAIL"}
<1>1. /\ failed = {}
      /\ Tier(s, "PROTECTED") \subseteq s.protected
  BY DEF ScrFailed
<1>2. {"r3_protected_files_are_in_manifest", "code_files_have_r3_rows",
       "prompt_bundle_args_match_r5"} \subseteq s.rules
  BY DEF RulesDeclared
<1>3. /\ verdict["r3_protected_files_are_in_manifest"] # "FAIL"
      /\ verdict["code_files_have_r3_rows"] # "FAIL"
      /\ verdict["prompt_bundle_args_match_r5"] # "FAIL"
  <2> HIDE DEF verdict
  <2>1. QED
    BY <1>1, <1>2
<1>4. /\ verdict["r3_protected_files_are_in_manifest"] = ProtectedValidated(s)
      /\ verdict["code_files_have_r3_rows"] = CodeHasRows(s, w)
      /\ verdict["prompt_bundle_args_match_r5"] = PromptArgsMatch(s, w)
  BY DEF Predicate
<1>5. ProtectedValidated(s) # "FAIL" /\ CodeHasRows(s, w) # "FAIL" /\ PromptArgsMatch(s, w) # "FAIL"
  BY <1>3, <1>4
<1>6. QED
  BY <1>1, <1>5 DEF ProtectedValidated, CodeHasRows, PromptArgsMatch, Verdict

(* A file that a row of R3 names PROTECTED.                                 *)
LEMMA ProtectedHeld ==
  ASSUME RulesDeclared, NEW s \in Schemas, NEW w \in Disks, ScrFailed(s, w) = {},
         NEW path \in Tier(s, "PROTECTED") \cap Paths
  PROVE  /\ RouteAnswer(s, path) = "PROTECTED"
         /\ \A b \in DOMAIN s.bundles : RouteCheck(s, path, b) = "R3_PROTECTED"
         /\ \E e \in CascadeUpstream(s, path) :
               /\ e.type = "VALIDATES"
               /\ e.source \in Paths => e \in CascadeFor(s, e.source)
         /\ (\A r \in Rows(s) : Matches(r.file, path) => r.file = path)
            /\ Cardinality({r \in Rows(s) : r.file = path}) = 1
               => ~AppendAllowed(s, path, {})
<1>0. /\ path \in Names /\ \A p \in Paths : p \in Names /\ Matches(p, p)
      /\ path \in s.protected
  BY ScrFound, SchemaAssumption DEF Matches
<1>1. RouteAnswer(s, path) = "PROTECTED"
      /\ \A b \in DOMAIN s.bundles : RouteCheck(s, path, b) = "R3_PROTECTED"
  BY <1>0 DEF RouteAnswer, RouteCheck, IsProtected
<1>2. \E e \in CascadeUpstream(s, path) :
         /\ e.type = "VALIDATES"
         /\ e.source \in Paths => e \in CascadeFor(s, e.source)
  <2>1. PICK e \in s.edges : e.type = "VALIDATES" /\ e.target = path
    BY ScrFound
  <2>2. e \in CascadeUpstream(s, path)
    BY <1>0, <2>1 DEF CascadeUpstream
  <2>3. e.source \in Paths => e \in CascadeFor(s, e.source)
    BY <1>0 DEF CascadeFor
  <2>4. QED
    BY <2>1, <2>2, <2>3
<1>3. ASSUME \A r \in Rows(s) : Matches(r.file, path) => r.file = path,
             Cardinality({r \in Rows(s) : r.file = path}) = 1
      PROVE  ~AppendAllowed(s, path, {})
  <2> DEFINE named == {r \in Rows(s) : r.file = path}
  <2>1. PICK r \in Rows(s) : r.file = path /\ r.tier = "PROTECTED"
    BY DEF Tier
  <2>2. IsFiniteSet(named)
    BY FiniteRows, FS_Subset
  <2>3. PICK x : named = {x}
    BY <1>3, <2>2, FS_Singleton
  <2>4. Matches(r.file, path)
    BY <1>0, <2>1
  <2>5. RouteFor(s, path) \in named /\ r \in named
    BY <1>3, <2>1, <2>4, Routed
  <2>6. RouteFor(s, path).tier = "PROTECTED"
    BY <2>1, <2>3, <2>5
  <2>7. QED
    BY <2>6 DEF AppendAllowed
<1>4. QED
  BY <1>1, <1>2, <1>3

(* The readers of the schema (engine/gates.py, bundles.py) can rely upon    *)
(* one that scr-verify and validate-bundles pass, whatever rows, edges and *)
(* bundles it has.                                                         *)
LEMMA SchemaRelied ==
  ASSUME RulesDeclared
  PROVE  SchemaHeld
<1>1. SUFFICES ASSUME NEW s \in Schemas, NEW w \in Disks, ScrFailed(s, w) = {}
               PROVE
            /\ \A path \in Tier(s, "PROTECTED") \cap Paths :
                  /\ RouteAnswer(s, path) = "PROTECTED"
                  /\ \A b \in DOMAIN s.bundles : RouteCheck(s, path, b) = "R3_PROTECTED"
                  /\ \E e \in CascadeUpstream(s, path) :
                        /\ e.type = "VALIDATES"
                        /\ e.source \in Paths => e \in CascadeFor(s, e.source)
                  /\ (\A r \in Rows(s) : Matches(r.file, path) => r.file = path)
                     /\ Cardinality({r \in Rows(s) : r.file = path}) = 1
                        => ~AppendAllowed(s, path, {})
            /\ \A path \in CodeFiles \cap w.files : RouteFor(s, path) # NoRow
            /\ BundleErrors(s) = {} =>
                  \A c \in w.calls : c.bundle \in DOMAIN s.bundles =>
                      s.bundles[c.bundle].uses \subseteq c.args \cup Computed
  BY DEF SchemaHeld
<1>2. ASSUME NEW path \in CodeFiles \cap w.files
      PROVE  RouteFor(s, path) # NoRow
  <2>1. PICK r \in Rows(s) : r.file = path
    BY <1>1, ScrFound DEF Tier
  <2>2. Matches(r.file, path)
    BY <2>1, SchemaAssumption DEF Matches
  <2>3. QED
    BY <2>2, Routed
<1>3. ASSUME BundleErrors(s) = {}, NEW c \in w.calls, c.bundle \in DOMAIN s.bundles
      PROVE  s.bundles[c.bundle].uses \subseteq c.args \cup Computed
  <2>1. s.bundles[c.bundle].uses \subseteq s.bundles[c.bundle].args \cup Computed
    BY <1>3 DEF BundleErrors
  <2>2. s.bundles[c.bundle].args \subseteq c.args
    BY <1>1, <1>3, ScrFound
  <2>3. QED
    BY <2>1, <2>2
<1>4. QED
  BY <1>1, <1>2, <1>3, ProtectedHeld

(* dispatch can rely upon a table that dispatch-validate passes             *)
(* (commands/validate.py), however many rows it has.                       *)
LEMMA TablesRelied == TablesHeld
<1>1. SUFFICES ASSUME NEW t \in Tables, Violations(Fields, t.rows, t.dirs) = {},
                      NEW i \in DOMAIN t.rows, NEW j \in DOMAIN t.rows,
                      t.rows[i].status.text = "ACTIVE"
               PROVE  /\ "INT" \in t.rows[i].priority.fits /\ t.rows[i].slug.text \in t.dirs
                      /\ i # j /\ t.rows[j].status.text = "ACTIVE"
                           => t.rows[i].priority.text # t.rows[j].priority.text
  BY DEF TablesHeld
<1>2. ValidateField(Fields["priority"], t.rows[i]["priority"]) = "OK"
  <2>1. <<i, "priority">> \in (DOMAIN t.rows) \X (DOMAIN Fields)
    BY TablesAssumption
  <2>2. {cell \in (DOMAIN t.rows) \X (DOMAIN Fields) :
           ValidateField(Fields[cell[2]], t.rows[cell[1]][cell[2]]) # "OK"} = {}
    BY <1>1 DEF Violations
  <2>3. QED
    BY <2>1, <2>2
<1>3. "INT" \in t.rows[i].priority.fits
  BY <1>2, TablesAssumption DEF ValidateField
<1>4. t.rows[i].slug.text \in t.dirs
  BY <1>1 DEF Violations
<1>5. ASSUME NEW k \in DOMAIN t.rows, NEW l \in DOMAIN t.rows, l < k,
             t.rows[k].status.text = "ACTIVE", t.rows[l].status.text = "ACTIVE"
      PROVE  t.rows[k].priority.text # t.rows[l].priority.text
  <2>1. {x \in DOMAIN t.rows :
            t.rows[x].status.text = "ACTIVE" /\ \E y \in 1 .. x - 1 :
                t.rows[y].status.text = "ACTIVE"
                /\ t.rows[y].priority.text = t.rows[x].priority.text} = {}
    <3> DEFINE twice == {x \in DOMAIN t.rows :
                          t.rows[x].status.text = "ACTIVE" /\ \E y \in 1 .. x - 1 :
                              t.rows[y].status.text = "ACTIVE"
                              /\ t.rows[y].priority.text = t.rows[x].priority.text}
    <3>1. {<<x, "priority_unique">> : x \in twice} \subseteq Violations(Fields, t.rows, t.dirs)
      BY DEF Violations
    <3> HIDE DEF twice
    <3>2. twice = {}
      BY <1>1, <3>1
    <3>3. QED
      BY <3>2 DEF twice
  <2>2. l \in 1 .. k - 1
    BY <1>5, TablesAssumption
  <2>3. QED
    BY <1>5, <2>1, <2>2
<1>6. i \in Nat /\ j \in Nat
  BY TablesAssumption
<1>7. QED
  BY <1>1, <1>3, <1>4, <1>5, <1>6

(* Two programs that read the same file tell the same, for every schema,    *)
(* workspace and table and whatever the owners, the editors and the        *)
(* sessions do: the engine and the bridge read an approval alike           *)
(* (_shared.check_pa_active, sources.parse_preapprovals), also after arm   *)
(* and disarm, and what one check passes, the other readers can rely upon. *)
THEOREM ReadersTellTheSame ==
  ASSUME RulesDeclared
  PROVE  Spec => []ReadersAgree
<1>1. ASSUME TypeInv, AtomicInv PROVE ReadersAgree
  <2>0. /\ content["PA"] \in Approvals
        /\ content["PA"] = [form |-> content["PA"].form, status |-> content["PA"].status,
                            expires |-> content["PA"].expires]
        /\ content["PA"].form \in {"full", "bare"}
        /\ Blank \notin Deadlines /\ Unread \notin Deadlines
    BY <1>1, ManifestAssumption DEF TypeInv, FileTexts, Approvals
  <2>1. EngineActive(content["PA"]) = BridgeActive(content["PA"])
    BY <2>0 DEF EngineActive, BridgeActive, Active
  <2>2. ASSUME NEW o \in Owners, script[o].at = "done", script[o].result = "ok",
               script[o].kind \in {"arm", "disarm"}
        PROVE  /\ content["PA"].form = "full" /\ content["PA"].expires = script[o].arg
               /\ content["PA"].status = IF script[o].kind = "arm" THEN "ACTIVE" ELSE "INACTIVE"
    <3>1. /\ Promised(script[o]) /\ script[o].before.content \in FileTexts
          /\ script[o].arg \in Args(script[o].kind)
      BY <1>1, <2>2, DoneUndisturbed
    <3>2. Armed(script[o])
      BY <2>2, <3>1 DEF Promised
    <3>3. content["PA"] = Header(script[o]) /\ script[o].before.content["PA"] \in Approvals
      BY <3>1, <3>2 DEF Armed, FileTexts, Contents, Files
    <3>4. script[o].before.content["PA"].form = "full"
      BY <3>2 DEF Armed, Fits
    <3> DEFINE status == IF script[o].kind = "arm" THEN "ACTIVE" ELSE "INACTIVE"
    <3>5. content["PA"] = [script[o].before.content["PA"] EXCEPT !.status = status,
                                                               !.expires = script[o].arg]
      BY <3>3 DEF Header, Rewritten
    <3> HIDE DEF status
    <3>6. /\ content["PA"].form = "full" /\ content["PA"].expires = script[o].arg
          /\ content["PA"].status = status
      BY <3>3, <3>4, <3>5 DEF Approvals
    <3>7. QED
      BY <3>6 DEF status
  <2>3. ASSUME NEW o \in Owners, script[o].at = "done", script[o].result = "ok"
        PROVE  /\ script[o].kind = "arm" => EngineActive(content["PA"]) =
                     (script[o].arg \in Deadlines /\ today <= script[o].arg)
               /\ script[o].kind = "disarm" => ~EngineActive(content["PA"])
    BY <2>2, <2>3 DEF EngineActive, Active
  <2>4. CheckPasses /\ (\A f \in Files : hash[f] # Unsigned) => VerifyPasses
    BY DEF CheckPasses, VerifyPasses
  <2>5. QED
    BY <2>1, <2>3, <2>4, SchemaRelied, TablesRelied DEF ReadersAgree
<1>2. QED
  BY <1>1, TypeInvInit, TypeInvStep, AtomicInvInit, AtomicInvStep, PTL DEF Spec
=============================================================================
