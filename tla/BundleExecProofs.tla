-------------------------- MODULE BundleExecProofs --------------------------
(***************************************************************************)
(* What TLC checks of BundleExec on six bundles, for all bundles, state     *)
(* files, calls, edges, owner commands and deaths.                         *)
(***************************************************************************)
EXTENDS BundleExec, TLAPS

-----------------------------------------------------------------------------
(* TYPES                                                                   *)

Busy(p) == change[p].at # "none"

(* A change under way belongs to the call, or to the command, under way.    *)
Tied ==
    /\ session.at # "idle" => called # <<>>
    /\ Busy("session") => session.at = "writes"
    /\ Busy("owner") => /\ owner.at = "found" /\ change["owner"].file = "DISPATCH"
                        /\ change["owner"].key = owner.key
                        /\ change["owner"].value = owner.value
    /\ owner.at = "found" => "DISPATCH" \in DOMAIN InitDisk

TypeInv == TypeOK /\ Tied

(* A change that is under way has all its fields.                           *)
LEMMA ChangeFields ==
  ASSUME NEW c, ChangeOK(c), c.at # "none"
  PROVE  /\ c.file \in DOMAIN InitDisk /\ c \in ChangesOf(c.file)
         /\ c.file \in Files /\ c.key \in Texts /\ c.value \in Texts /\ c.old \in Texts
         /\ c.content \in Contents(c.file)
<1>1. PICK f \in DOMAIN InitDisk : c \in ChangesOf(f)
  BY DEF ChangeOK, NoChange
<1>2. c.file = f
  BY <1>1 DEF ChangesOf
<1>3. QED
  BY <1>1, <1>2, BundleAssumption DEF ChangesOf

(* Setting a field of a file gives the contents of such a file.             *)
LEMMA AfterTyped ==
  ASSUME NEW f \in DOMAIN InitDisk, NEW content \in Contents(f), NEW k, NEW v \in Texts
  PROVE  After(content, k, v) \in Contents(f)
<1>1. CASE k \in DOMAIN content
  <2>1. content \in [DOMAIN InitDisk[f] -> Texts]
    BY <1>1 DEF Contents, Empty
  <2>2. QED
    BY <1>1, <2>1 DEF After, Contents
<1>2. CASE k \notin DOMAIN content
  BY <1>2 DEF After
<1>3. QED
  BY <1>1, <1>2

(* The value a mutator returns is a text.                                   *)
LEMMA OldTyped ==
  ASSUME NEW f \in DOMAIN InitDisk, NEW content \in Contents(f), NEW k
  PROVE  OldValue(content, k) \in Texts
<1>1. CASE k \in DOMAIN content
  <2>1. content \in [DOMAIN InitDisk[f] -> Texts]
    BY <1>1 DEF Contents, Empty
  <2>2. QED
    BY <1>1, <2>1 DEF OldValue
<1>2. CASE k \notin DOMAIN content
  BY <1>2, BundleAssumption DEF OldValue
<1>3. QED
  BY <1>1, <1>2

(* The parts of a call while it writes.                                     *)
LEMMA WritingFields ==
  ASSUME NEW s \in Sessions, s.at = "writes",
         s.next \in 1 .. Len(Bundles[s.bundle].writes)
  PROVE  /\ s.bundle \in DOMAIN Bundles /\ s.args \in {c.args : c \in Calls}
         /\ s.next \in Nat /\ s.rows \in Seq(Rows) /\ s.touched \subseteq Files
         /\ BundleShape(Bundles[s.bundle])
         /\ Bundles[s.bundle].writes[s.next] \in Writes
         /\ Bundles[s.bundle].writes[s.next] \in ToSet(Bundles[s.bundle].writes)
<1>1. /\ s.bundle \in DOMAIN Bundles /\ s.args \in {c.args : c \in Calls}
      /\ s.next \in Nat /\ s.rows \in Seq(Rows) /\ s.touched \subseteq Files
  BY DEF Sessions, Idle
<1>2. BundleShape(Bundles[s.bundle])
  BY <1>1, BundleAssumption
<1>3. QED
  BY <1>1, <1>2 DEF BundleShape, ToSet

(* The parts of a call once it has written.                                 *)
LEMMA LoggingFields ==
  ASSUME NEW s \in Sessions, s.at = "lines"
  PROVE  s = [at |-> "lines", edges |-> s.edges, rows |-> s.rows, due |-> s.due]
         /\ s.edges \subseteq Edges /\ s.rows \in Seq(Rows) /\ s.due \in Seq(Reports)
  BY DEF Sessions, Idle

(* The lines of the appends and the notification of a bundle.               *)
LEMMA ReportsTyped ==
  ASSUME NEW b, BundleShape(b), NEW args
  PROVE  ReportsOf(b, args) \in Seq(Reports)
<1>1. \A kind \in {"append", "notice"}, t \in Templates : Filled(kind, t, args) \in Reports
  BY DEF Templates, Filled, Report, Reports
<1>2. [i \in DOMAIN b.appends |-> Filled("append", b.appends[i], args)] \in Seq(Reports)
  BY <1>1 DEF BundleShape
<1>3. [i \in DOMAIN b.notify |-> Filled("notice", b.notify[i], args)] \in Seq(Reports)
  BY <1>1 DEF BundleShape
<1>4. QED
  BY <1>2, <1>3 DEF ReportsOf

(* A call that has begun to add its lines.                                  *)
LEMMA ToLinesTyped ==
  ASSUME NEW s, s.bundle \in DOMAIN Bundles, NEW rows \in Seq(Rows), NEW touched
  PROVE  ToLines(s, rows, touched) \in Sessions
<1>1. ReportsOf(Bundles[s.bundle], s.args) \in Seq(Reports)
  BY BundleAssumption, ReportsTyped
<1>2. CascadeFor(touched) \in SUBSET Edges
  BY DEF CascadeFor
<1>3. QED
  BY <1>1, <1>2 DEF ToLines, Sessions

(* A call that goes on from a write.                                        *)
LEMMA OnwardTyped ==
  ASSUME NEW s \in Sessions, s.at = "writes",
         s.next \in 1 .. Len(Bundles[s.bundle].writes),
         NEW rows \in Seq(Rows), NEW touched \in SUBSET Files, NEW on,
         on = Onward(s, rows, touched)
  PROVE  /\ on \in Sessions /\ on.rows = rows /\ on.at \in {"writes", "lines"}
         /\ on.at = "writes" => /\ on.next \in 1 .. Len(Bundles[on.bundle].writes)
                                /\ on.bundle = s.bundle /\ on.args = s.args
<1>1. CASE s.next < Len(Bundles[s.bundle].writes)
  <2>1. on = [at |-> "writes", bundle |-> s.bundle, args |-> s.args, next |-> s.next + 1,
              rows |-> rows, touched |-> touched]
    BY <1>1 DEF Onward
  <2>2. s.next + 1 \in 1 .. Len(Bundles[s.bundle].writes) /\ s.next + 1 \in Nat
    <3>1. Len(Bundles[s.bundle].writes) \in Nat
      BY WritingFields DEF BundleShape
    <3>2. QED
      BY <1>1, <3>1
  <2>3. on \in Sessions
    BY <2>1, <2>2, WritingFields DEF Sessions
  <2>4. QED
    BY <2>1, <2>2, <2>3
<1>2. CASE ~(s.next < Len(Bundles[s.bundle].writes))
  <2>1. on = ToLines(s, rows, touched)
    BY <1>2 DEF Onward
  <2>2. s.bundle \in DOMAIN Bundles
    BY WritingFields
  <2>3. QED
    BY <2>1, <2>2, ToLinesTyped DEF ToLines
<1>3. QED
  BY <1>1, <1>2

(* What resolve_expression gives is a text; it is the placeholder only for  *)
(* an argument that was not given.                                         *)
LEMMA ResolvedTyped ==
  ASSUME TypeInv, session.at = "writes", NEW w,
         w = Bundles[session.bundle].writes[session.next]
  PROVE  /\ Resolved(w.expr, session.args) \in Texts
         /\ (w.expr.kind = "arg" => w.expr.text \in DOMAIN session.args)
               => Resolved(w.expr, session.args) # Unresolved
<1> DEFINE e == w.expr
<1>1. /\ session.args \in {c.args : c \in Calls} /\ session.bundle \in DOMAIN Bundles
      /\ w \in Writes /\ w \in ToSet(Bundles[session.bundle].writes)
  BY WritingFields DEF TypeInv, TypeOK
<1>2. e \in Exprs
  BY <1>1 DEF Writes
<1>3. CASE e.kind = "literal"
  <2>1. Text(e.text)
    BY <1>1, <1>3, TextAssumption
  <2>2. Resolved(e, session.args) = e.text
    BY <1>3 DEF Resolved
  <2>3. QED
    BY <1>3, <2>1, <2>2 DEF Text
<1>4. CASE e.kind = "arg"
  <2>1. Resolved(e, session.args) = ArgValue(session.args, e.text)
    BY <1>4 DEF Resolved
  <2>2. \A a \in DOMAIN session.args : Text(session.args[a])
    BY <1>1, TextAssumption
  <2>3. QED
    BY <1>4, <2>1, <2>2, BundleAssumption DEF ArgValue, Text
<1>5. CASE e.kind = "now"
  <2>1. Len(called) \in 1 .. MaxCalls
    BY BoundAssumption DEF TypeInv, TypeOK, Tied
  <2>2. Resolved(e, session.args) = Now(Len(called))
    BY <1>5 DEF Resolved
  <2>3. Text(Now(Len(called)))
    BY <2>1, TextAssumption
  <2>4. QED
    BY <1>5, <2>2, <2>3 DEF Text
<1>6. CASE e.kind = "now_plus"
  <2>1. Resolved(e, session.args) = DaysAhead(DaysIn(e.text))
    BY <1>6 DEF Resolved
  <2>2. DaysIn(e.text) \in Numbers
    BY TextAssumption DEF DaysIn
  <2>3. Text(DaysAhead(DaysIn(e.text)))
    BY <2>2, TextAssumption
  <2>4. QED
    BY <1>6, <2>1, <2>3 DEF Text
<1>7. QED
  BY <1>2, <1>3, <1>4, <1>5, <1>6 DEF Exprs, ExprKinds

(* Init establishes it.                                                    *)
LEMMA TypeInit ==
  ASSUME Init
  PROVE  TypeInv
<1>1. /\ DOMAIN disk = DOMAIN InitDisk /\ DOMAIN intended = DOMAIN InitDisk
      /\ \A f \in DOMAIN disk : /\ disk[f] \in Contents(f)
                               /\ intended[f] \in [DOMAIN InitDisk[f] -> Texts]
  BY BundleAssumption DEF Init, Contents
<1>2. DOMAIN change = Procs /\ \A p \in Procs : ChangeOK(change[p])
  BY DEF Init, ChangeOK
<1>3. session \in Sessions /\ owner \in Owners /\ session.at = "idle" /\ owner.at = "idle"
  BY DEF Init, Sessions, Owners, Idle
<1>4. /\ log \in [Procs -> Seq(Rows)] /\ reports \in [Procs -> Seq(Reports)]
      /\ \A p \in Procs : /\ reports[p] = <<>>
                           /\ \A i \in DOMAIN reports[p] : reports[p][i].to \in Appendable
  BY DEF Init
<1>5. called \in Seq(Calls) /\ Len(called) <= MaxCalls
  BY BoundAssumption DEF Init
<1>6. typed \in 0 .. MaxOwner /\ deaths \in 0 .. MaxDeaths
  BY BoundAssumption DEF Init
<1>7. Tied
  BY <1>3 DEF Init, Tied, Busy, NoChange, Procs
<1>8. QED
  BY <1>1, <1>2, <1>3, <1>4, <1>5, <1>6, <1>7 DEF Init, TypeInv, TypeOK

(* Opening a file empties it.                                              *)
LEMMA OpenTyped ==
  ASSUME TypeInv, NEW p \in Procs, OpenFile(p)
  PROVE  TypeInv'
<1>1. PICK c : c = change[p]
  OBVIOUS
<1>2. /\ c.at = "read" /\ c.file \in DOMAIN InitDisk /\ c \in ChangesOf(c.file)
  BY <1>1, ChangeFields DEF OpenFile, TypeInv, TypeOK
<1>3. PICK o : o = [c EXCEPT !.at = "opened"]
  OBVIOUS
<1>4. o \in ChangesOf(c.file) /\ o.file = c.file /\ o.key = c.key /\ o.value = c.value
  BY <1>2, <1>3 DEF ChangesOf
<1>5. change' = [change EXCEPT ![p] = o]
  BY <1>1, <1>3 DEF OpenFile
<1>6. DOMAIN change' = Procs /\ \A q \in Procs : ChangeOK(change'[q])
  BY <1>2, <1>4, <1>5 DEF TypeInv, TypeOK, ChangeOK
<1>7. DOMAIN disk' = DOMAIN InitDisk /\ \A f \in DOMAIN disk' : disk'[f] \in Contents(f)
  BY <1>1, <1>2 DEF OpenFile, TypeInv, TypeOK, Contents
<1>8. Tied'
  BY <1>1, <1>2, <1>4, <1>5 DEF OpenFile, TypeInv, TypeOK, Tied, Busy, Procs
<1>9. QED
  BY <1>6, <1>7, <1>8 DEF OpenFile, TypeInv, TypeOK, history, logs

(* Writing a file: what is left of the change is nothing.                   *)
LEMMA WriteTyped ==
  ASSUME TypeInv, NEW p \in Procs, WriteFile(p)
  PROVE  /\ change[p].at = "opened" /\ change[p].file \in DOMAIN InitDisk
         /\ change' = [change EXCEPT ![p] = NoChange]
         /\ DOMAIN disk' = DOMAIN InitDisk /\ DOMAIN intended' = DOMAIN InitDisk
         /\ \A f \in DOMAIN disk' : /\ disk'[f] \in Contents(f)
                                   /\ intended'[f] \in [DOMAIN InitDisk[f] -> Texts]
         /\ DOMAIN change' = Procs /\ \A q \in Procs : ChangeOK(change'[q])
<1>1. PICK c : c = change[p]
  OBVIOUS
<1>2. /\ c.at = "opened" /\ c.file \in DOMAIN InitDisk
      /\ c.value \in Texts /\ c.content \in Contents(c.file)
  BY <1>1, ChangeFields DEF WriteFile, TypeInv, TypeOK
<1>3. After(c.content, c.key, c.value) \in Contents(c.file)
  BY <1>2, AfterTyped
<1>4. disk' = [disk EXCEPT ![c.file] = After(c.content, c.key, c.value)]
  BY <1>1 DEF WriteFile
<1>5. change' = [change EXCEPT ![p] = NoChange]
  BY DEF WriteFile
<1>6. \/ intended' = intended
      \/ intended' = [intended EXCEPT ![c.file][c.key] = c.value]
  <2>1. intended' = IF c.key \in DOMAIN intended[c.file]
                    THEN [intended EXCEPT ![c.file][c.key] = c.value] ELSE intended
    BY <1>1 DEF WriteFile
  <2>2. QED
    BY <2>1
<1>7. DOMAIN intended' = DOMAIN InitDisk
      /\ \A f \in DOMAIN InitDisk : intended'[f] \in [DOMAIN InitDisk[f] -> Texts]
  <2>1. DOMAIN intended = DOMAIN InitDisk
        /\ \A f \in DOMAIN InitDisk : intended[f] \in [DOMAIN InitDisk[f] -> Texts]
    BY DEF TypeInv, TypeOK
  <2>2. CASE intended' = intended
    BY <2>1, <2>2
  <2>3. CASE intended' = [intended EXCEPT ![c.file][c.key] = c.value]
    <3>1. PICK g : g = [intended[c.file] EXCEPT ![c.key] = c.value]
      OBVIOUS
    <3>2. g \in [DOMAIN InitDisk[c.file] -> Texts]
      BY <1>2, <2>1, <3>1
    <3>3. intended' = [intended EXCEPT ![c.file] = g]
      BY <2>3, <3>1
    <3>4. QED
      BY <1>2, <2>1, <3>2, <3>3
  <2>4. QED
    BY <1>6, <2>2, <2>3
<1>8. QED
  BY <1>1, <1>2, <1>3, <1>4, <1>5, <1>7 DEF TypeInv, TypeOK, ChangeOK

(* Reading a file begins a change.                                         *)
LEMMA ReadTyped ==
  ASSUME TypeInv, NEW p \in Procs, NEW f \in DOMAIN InitDisk, NEW k \in Texts,
         NEW v \in Texts, NEW old \in Texts, ReadFile(p, f, k, v, old)
  PROVE  /\ DOMAIN change' = Procs /\ \A q \in Procs : ChangeOK(change'[q])
         /\ torn' \subseteq Files
         /\ change'[p].file = f /\ change'[p].key = k /\ change'[p].value = v
         /\ \A q \in Procs \ {p} : change'[q] = change[q]
<1>1. PICK c : c = [at |-> "read", file |-> f, key |-> k, value |-> v,
                    none |-> ReturnsNone(f, disk[f], k), old |-> old,
                    content |-> ContentRead(p, f)]
  OBVIOUS
<1>2. c \in ChangesOf(f)
  <2>1. ReturnsNone(f, disk[f], k) \in BOOLEAN
    BY DEF ReturnsNone
  <2>2. ContentRead(p, f) \in Contents(f)
    BY DEF ContentRead, TypeInv, TypeOK
  <2>3. QED
    BY <1>1, <2>1, <2>2 DEF ChangesOf
<1>3. change' = [change EXCEPT ![p] = c]
  BY <1>1 DEF ReadFile
<1>4. torn' \subseteq Files
  BY BundleAssumption DEF ReadFile, TypeInv, TypeOK
<1>5. QED
  BY <1>1, <1>2, <1>3, <1>4 DEF TypeInv, TypeOK, ChangeOK

(* A call of bundle-exec.                                                  *)
LEMMA CallTyped ==
  ASSUME TypeInv, NEW c \in Calls, Call(c)
  PROVE  TypeInv'
<1>1. called' \in Seq(Calls) /\ Len(called') <= MaxCalls /\ called' # <<>>
  <2>1. called \in Seq(Calls) /\ Len(called) < MaxCalls /\ called' = Append(called, c)
    BY DEF Call, TypeInv, TypeOK
  <2>2. called' \in Seq(Calls) /\ Len(called') = Len(called) + 1 /\ Len(called) \in Nat
    BY <2>1
  <2>3. called' # <<>>
    BY <2>2
  <2>4. QED
    BY <2>1, <2>2, <2>3, BoundAssumption
<1>2. /\ session' \in Sessions
      /\ session'.at = "writes" =>
            session'.next \in 1 .. Len(Bundles[session'.bundle].writes)
  <2>1. PICK s : s = [at |-> "writes", bundle |-> c.bundle, args |-> c.args, next |-> 1,
                      rows |-> <<>>, touched |-> {}]
    OBVIOUS
  <2>2. \/ session' = session
        \/ /\ Declared(c.bundle)
           /\ \/ session' = ToLines(s, <<>>, {})
              \/ session' = s /\ Bundles[c.bundle].writes # <<>>
    BY <2>1 DEF Call
  <2>3. CASE session' = session
    BY <2>3 DEF TypeInv, TypeOK, Call, Idle
  <2>4. CASE Declared(c.bundle) /\ session' = ToLines(s, <<>>, {})
    <3>1. s.bundle \in DOMAIN Bundles /\ <<>> \in Seq(Rows)
      BY <2>1, <2>4 DEF Declared
    <3>2. session' \in Sessions /\ session'.at = "lines"
      BY <2>4, <3>1, ToLinesTyped DEF ToLines
    <3>3. QED
      BY <3>2
  <2>5. CASE Declared(c.bundle) /\ session' = s /\ Bundles[c.bundle].writes # <<>>
    <3>1. BundleShape(Bundles[c.bundle])
      BY <2>5, BundleAssumption DEF Declared
    <3>2. Len(Bundles[c.bundle].writes) \in Nat /\ Len(Bundles[c.bundle].writes) > 0
      BY <2>5, <3>1 DEF BundleShape
    <3>3. c.bundle \in DOMAIN Bundles /\ <<>> \in Seq(Rows) /\ c.args \in {x.args : x \in Calls}
      BY <2>5 DEF Declared
    <3>4. s \in Sessions
      BY <2>1, <3>3 DEF Sessions
    <3>5. QED
      BY <2>1, <2>5, <3>2, <3>4
  <2>6. QED
    BY <2>2, <2>3, <2>4, <2>5
<1>3. Tied'
  BY <1>1 DEF Call, TypeInv, Tied, Busy
<1>4. QED
  BY <1>1, <1>2, <1>3 DEF Call, TypeInv, TypeOK, logs, history

(* The next field of the bundle is read, or passed over.                    *)
LEMMA StartTyped ==
  ASSUME TypeInv, StartWrite
  PROVE  TypeInv'
<1>1. PICK w : w = Bundles[session.bundle].writes[session.next]
  OBVIOUS
<1>2. /\ session.at = "writes" /\ session \in Sessions
      /\ session.next \in 1 .. Len(Bundles[session.bundle].writes)
  BY DEF StartWrite, TypeInv, TypeOK
<1>3. w \in Writes /\ session.rows \in Seq(Rows) /\ session.touched \in SUBSET Files
  BY <1>1, <1>2, WritingFields
<1>4. CASE w.file \in DOMAIN disk /\ ~GivesUp(w.file, disk[w.file], w.key)
  <2>1. PICK v : v = Resolved(w.expr, session.args)
    OBVIOUS
  <2>2. PICK old : old = OldValue(disk[w.file], w.key)
    OBVIOUS
  <2>3. v \in Texts
    BY <1>1, <1>2, <2>1, ResolvedTyped
  <2>4. w.file \in DOMAIN InitDisk /\ disk[w.file] \in Contents(w.file)
    BY <1>4 DEF TypeInv, TypeOK
  <2>5. old \in Texts
    BY <2>2, <2>4, OldTyped
  <2>6. ReadFile("session", w.file, w.key, v, old) /\ session' = session
    BY <1>1, <1>4, <2>1, <2>2 DEF StartWrite
  <2>7. w.key \in Texts /\ "session" \in Procs
    BY <1>3 DEF Writes, Procs
  <2>8. /\ DOMAIN change' = Procs /\ \A q \in Procs : ChangeOK(change'[q])
        /\ torn' \subseteq Files /\ change'["owner"] = change["owner"]
    <3>1. "owner" \in Procs \ {"session"}
      BY DEF Procs
    <3>2. QED
      BY <2>3, <2>4, <2>5, <2>6, <2>7, <3>1, ReadTyped
  <2>9. Tied'
    BY <1>2, <2>6, <2>8 DEF StartWrite, TypeInv, Tied, Busy
  <2>10. QED
    BY <2>6, <2>8, <2>9 DEF StartWrite, TypeInv, TypeOK, logs
<1>5. CASE ~(w.file \in DOMAIN disk /\ ~GivesUp(w.file, disk[w.file], w.key))
  <2>1. session' = Onward(session, session.rows, session.touched) /\ change' = change
    BY <1>1, <1>5 DEF StartWrite
  <2>2. /\ session' \in Sessions /\ session'.at \in {"writes", "lines"}
        /\ session'.at = "writes" =>
              session'.next \in 1 .. Len(Bundles[session'.bundle].writes)
    BY <1>2, <1>3, <2>1, OnwardTyped
  <2>3. torn' \subseteq Files
    <3>1. torn' = torn \/ torn' = torn \cup {w.file}
      BY <1>1, <1>5 DEF StartWrite
    <3>2. w.file \in Files
      BY <1>3 DEF Writes
    <3>3. QED
      BY <3>1, <3>2 DEF TypeInv, TypeOK
  <2>4. Tied'
    BY <1>2, <2>1, <2>2 DEF StartWrite, TypeInv, Tied, Busy
  <2>5. QED
    BY <2>1, <2>2, <2>3, <2>4 DEF StartWrite, TypeInv, TypeOK, logs
<1>6. QED
  BY <1>4, <1>5

(* A row for the log has all its fields.                                   *)
LEMMA RowTyped ==
  ASSUME NEW f \in Files, NEW k \in Texts, NEW old \in Texts, NEW v \in Texts
  PROVE  Row(f, k, old, v) \in Rows
  BY DEF Row, Rows

(* A write of the call is done.                                            *)
LEMMA FinishTyped ==
  ASSUME TypeInv, FinishWrite
  PROVE  TypeInv'
<1>1. PICK c : c = change["session"]
  OBVIOUS
<1>2. "session" \in Procs /\ WriteFile("session")
  BY DEF Procs, FinishWrite
<1>3. session.at = "writes"
  BY <1>2, WriteTyped DEF TypeInv, Tied, Busy
<1>4. /\ c.file \in Files /\ c.key \in Texts /\ c.value \in Texts /\ c.old \in Texts
  <2>1. ChangeOK(c) /\ c.at # "none"
    BY <1>1, <1>2, WriteTyped DEF TypeInv, TypeOK
  <2>2. QED
    BY <2>1, ChangeFields
<1>5. /\ session \in Sessions /\ session.rows \in Seq(Rows) /\ session.touched \in SUBSET Files
      /\ session.next \in 1 .. Len(Bundles[session.bundle].writes)
  BY <1>3, WritingFields DEF TypeInv, TypeOK
<1>6. PICK rows : rows = IF Changed(c) /\ c.file # "MANIFEST"
                         THEN Append(session.rows, Row(c.file, c.key, c.old, c.value))
                         ELSE session.rows
  OBVIOUS
<1>7. PICK touched : touched = IF Changed(c) THEN session.touched \cup {c.file}
                               ELSE session.touched
  OBVIOUS
<1>8. rows \in Seq(Rows) /\ touched \in SUBSET Files
  <2>1. Row(c.file, c.key, c.old, c.value) \in Rows
    BY <1>4, RowTyped
  <2>2. QED
    BY <1>4, <1>5, <1>6, <1>7, <2>1
<1>9. session' = Onward(session, rows, touched)
  BY <1>1, <1>6, <1>7 DEF FinishWrite
<1>10. /\ session' \in Sessions /\ session'.at \in {"writes", "lines"}
       /\ session'.at = "writes" =>
             session'.next \in 1 .. Len(Bundles[session'.bundle].writes)
  BY <1>3, <1>5, <1>8, <1>9, OnwardTyped
<1>11. change'["session"] = NoChange /\ change'["owner"] = change["owner"]
  BY <1>2, WriteTyped DEF TypeInv, TypeOK, Procs
<1>12. Tied'
  BY <1>3, <1>11 DEF FinishWrite, TypeInv, Tied, Busy, NoChange
<1>13. QED
  BY <1>2, <1>10, <1>12, WriteTyped DEF FinishWrite, TypeInv, TypeOK, logs

(* A line is added, or the call returns.                                   *)
LEMMA LinesTyped ==
  ASSUME TypeInv, AppendEdge \/ AppendRow \/ AppendReport \/ Return
  PROVE  TypeInv'
<1>1. /\ session.at = "lines" /\ session.edges \subseteq Edges
      /\ session.rows \in Seq(Rows) /\ session.due \in Seq(Reports)
      /\ session = [at |-> "lines", edges |-> session.edges, rows |-> session.rows,
                    due |-> session.due]
  BY LoggingFields DEF AppendEdge, AppendRow, AppendReport, Return, TypeInv, TypeOK
<1>2. CASE AppendEdge
  <2>1. PICK e \in session.edges : /\ stale' = stale \cup {e}
                                   /\ session' = [session EXCEPT !.edges = @ \ {e}]
    BY <1>2 DEF AppendEdge
  <2>2. session' = [at |-> "lines", edges |-> session.edges \ {e}, rows |-> session.rows,
                    due |-> session.due]
    BY <1>1, <2>1
  <2>3. session' \in Sessions /\ session'.at = "lines"
    BY <1>1, <2>2 DEF Sessions
  <2>4. stale' \subseteq Edges
    BY <1>1, <2>1 DEF TypeInv, TypeOK
  <2>5. QED
    BY <1>1, <1>2, <2>3, <2>4 DEF AppendEdge, TypeInv, TypeOK, Tied, Busy, history
<1>3. CASE AppendRow
  <2>1. session.rows # <<>>
    BY <1>3 DEF AppendRow, Due
  <2>2. Head(session.rows) \in Rows /\ Tail(session.rows) \in Seq(Rows)
    BY <1>1, <2>1
  <2>3. session' = [at |-> "lines", edges |-> session.edges, rows |-> Tail(session.rows),
                    due |-> session.due]
    BY <1>1, <1>3 DEF AppendRow
  <2>4. session' \in Sessions /\ session'.at = "lines"
    BY <1>1, <2>2, <2>3 DEF Sessions
  <2>5. log' \in [Procs -> Seq(Rows)]
    <3>1. log \in [Procs -> Seq(Rows)] /\ "session" \in Procs
      BY DEF TypeInv, TypeOK, Procs
    <3>2. log' = [log EXCEPT !["session"] = Append(log["session"], Head(session.rows))]
      BY <1>3 DEF AppendRow
    <3>3. Append(log["session"], Head(session.rows)) \in Seq(Rows)
      BY <2>2, <3>1
    <3>4. QED
      BY <3>1, <3>2, <3>3
  <2>6. QED
    BY <1>1, <1>3, <2>4, <2>5 DEF AppendRow, TypeInv, TypeOK, Tied, Busy, history
<1>4. CASE AppendReport
  <2>1. session.due # <<>>
    BY <1>4 DEF AppendReport, Due
  <2>2. Head(session.due) \in Reports /\ Tail(session.due) \in Seq(Reports)
    BY <1>1, <2>1
  <2>3. session' = [at |-> "lines", edges |-> session.edges, rows |-> session.rows,
                    due |-> Tail(session.due)]
    BY <1>1, <1>4 DEF AppendReport
  <2>4. session' \in Sessions /\ session'.at = "lines"
    BY <1>1, <2>2, <2>3 DEF Sessions
  <2>5. PICK line : line = Head(session.due)
    OBVIOUS
  <2>6. PICK new : new = Appended(reports["session"], line)
    OBVIOUS
  <2>7. "session" \in Procs /\ reports["session"] \in Seq(Reports)
        /\ \A i \in DOMAIN reports["session"] : reports["session"][i].to \in Appendable
    BY DEF Procs, TypeInv, TypeOK
  <2>8. new \in Seq(Reports) /\ \A i \in DOMAIN new : new[i].to \in Appendable
    BY <2>2, <2>5, <2>6, <2>7 DEF Appended
  <2>9. reports' = [reports EXCEPT !["session"] = new]
    BY <1>4, <2>5, <2>6 DEF AppendReport
  <2>10. QED
    BY <1>1, <1>4, <2>4, <2>7, <2>8, <2>9
    DEF AppendReport, TypeInv, TypeOK, Tied, Busy, history
<1>5. CASE Return
  BY <1>1, <1>5 DEF Return, TypeInv, TypeOK, Tied, Busy, Sessions, Idle, logs, history
<1>6. QED
  BY <1>2, <1>3, <1>4, <1>5

(* A command of the owner begins.                                          *)
LEMMA LookTyped ==
  ASSUME TypeInv, NEW o \in OwnerWrites, Look(o)
  PROVE  TypeInv'
<1>1. owner.at = "idle" /\ ~Busy("owner")
  BY DEF Look, TypeInv, Tied
<1>2. owner' \in Owners /\ (owner'.at = "found" => "DISPATCH" \in DOMAIN disk)
  <2>1. owner' = owner \/ owner' = [at |-> "found", key |-> o.key, value |-> o.value,
                                    old |-> disk["DISPATCH"][o.key]]
    BY DEF Look
  <2>2. CASE owner' = owner
    BY <1>1, <2>2 DEF TypeInv, TypeOK
  <2>3. CASE owner' # owner
    <3>1. "DISPATCH" \in DOMAIN disk /\ o.key \in DOMAIN disk["DISPATCH"]
      BY <2>3 DEF Look
    <3>2. disk["DISPATCH"] \in Contents("DISPATCH")
      BY <3>1 DEF TypeInv, TypeOK
    <3>3. disk["DISPATCH"][o.key] \in Texts
      BY <3>1, <3>2 DEF Contents, Empty
    <3>4. o.key \in Texts /\ o.value \in Texts
      BY TextAssumption DEF Text
    <3>5. QED
      BY <2>1, <2>3, <3>1, <3>3, <3>4 DEF Owners
  <2>4. QED
    BY <2>2, <2>3
<1>3. typed' \in 0 .. MaxOwner
  BY BoundAssumption DEF Look, TypeInv, TypeOK
<1>4. QED
  BY <1>1, <1>2, <1>3 DEF Look, TypeInv, TypeOK, Tied, Busy, logs, history

(* The parts of a command that has found its row.                           *)
LEMMA OwnerFields ==
  ASSUME TypeInv, owner.at \in {"found", "written"}
  PROVE  /\ owner.key \in Texts /\ owner.value \in Texts /\ owner.old \in Texts
         /\ owner = [at |-> owner.at, key |-> owner.key, value |-> owner.value,
                     old |-> owner.old]
  BY DEF TypeInv, TypeOK, Owners, Idle

(* The command reads the file again, or gives up.                           *)
LEMMA OwnerReadsTyped ==
  ASSUME TypeInv, OwnerReads
  PROVE  TypeInv'
<1>1. owner.at = "found" /\ ~Busy("owner") /\ "owner" \in Procs
  BY DEF OwnerReads, Busy, Procs
<1>2. CASE GivesUp("DISPATCH", disk["DISPATCH"], owner.key)
  <2>1. owner' = Idle /\ change' = change
    BY <1>2 DEF OwnerReads
  <2>2. torn' \subseteq Files
    BY <1>2 DEF OwnerReads, TypeInv, TypeOK, Files
  <2>3. owner' \in Owners
    BY <2>1 DEF Owners
  <2>4. QED
    BY <1>1, <2>1, <2>2, <2>3 DEF OwnerReads, TypeInv, TypeOK, Tied, Busy, logs
<1>3. CASE ~GivesUp("DISPATCH", disk["DISPATCH"], owner.key)
  <2>1. ReadFile("owner", "DISPATCH", owner.key, owner.value, owner.old) /\ owner' = owner
    BY <1>3 DEF OwnerReads
  <2>2. "DISPATCH" \in DOMAIN InitDisk
    BY <1>1 DEF TypeInv, Tied
  <2>3. owner.key \in Texts /\ owner.value \in Texts /\ owner.old \in Texts
    BY <1>1, OwnerFields
  <2>4. /\ DOMAIN change' = Procs /\ \A q \in Procs : ChangeOK(change'[q])
        /\ torn' \subseteq Files
        /\ change'["owner"].file = "DISPATCH" /\ change'["owner"].key = owner.key
        /\ change'["owner"].value = owner.value
        /\ \A q \in Procs \ {"owner"} : change'[q] = change[q]
    BY <1>1, <2>1, <2>2, <2>3, ReadTyped
  <2>5. Tied'
    BY <1>1, <2>1, <2>4 DEF OwnerReads, TypeInv, Tied, Busy, Procs
  <2>6. QED
    BY <2>1, <2>4, <2>5 DEF OwnerReads, TypeInv, TypeOK, logs
<1>4. QED
  BY <1>2, <1>3

(* The command writes the file.                                            *)
LEMMA OwnerWritesTyped ==
  ASSUME TypeInv, OwnerWritesFile
  PROVE  TypeInv'
<1>1. "owner" \in Procs /\ "session" \in Procs /\ WriteFile("owner")
  BY DEF Procs, OwnerWritesFile
<1>2. owner.at = "found"
  BY <1>1, WriteTyped DEF TypeInv, Tied, Busy
<1>3. owner' \in Owners /\ owner'.at = "written"
  <2>1. owner = [at |-> owner.at, key |-> owner.key, value |-> owner.value, old |-> owner.old]
    BY <1>2, OwnerFields
  <2>2. owner' = [at |-> "written", key |-> owner.key, value |-> owner.value, old |-> owner.old]
    BY <2>1 DEF OwnerWritesFile
  <2>3. QED
    BY <1>2, <2>2, OwnerFields DEF Owners
<1>4. change'["owner"] = NoChange /\ change'["session"] = change["session"]
  BY <1>1, WriteTyped DEF TypeInv, TypeOK
<1>5. Tied'
  BY <1>3, <1>4 DEF OwnerWritesFile, TypeInv, Tied, Busy, NoChange
<1>6. QED
  BY <1>1, <1>3, <1>5, WriteTyped DEF OwnerWritesFile, TypeInv, TypeOK, logs

(* The command adds its row.                                               *)
LEMMA OwnerLogsTyped ==
  ASSUME TypeInv, OwnerLogs
  PROVE  TypeInv'
<1>1. owner.at = "written" /\ ~Busy("owner") /\ owner' = [at |-> "reporting"]
  BY DEF OwnerLogs, TypeInv, Tied
<1>2. owner' \in Owners
  BY <1>1 DEF Owners
<1>3. OwnerRow \in Rows
  BY <1>1, OwnerFields, RowTyped DEF OwnerRow, Files
<1>4. log' \in [Procs -> Seq(Rows)]
  <2>1. log \in [Procs -> Seq(Rows)] /\ "owner" \in Procs
    BY DEF TypeInv, TypeOK, Procs
  <2>2. log' = [log EXCEPT !["owner"] = Append(log["owner"], OwnerRow)]
    BY DEF OwnerLogs
  <2>3. Append(log["owner"], OwnerRow) \in Seq(Rows)
    BY <1>3, <2>1
  <2>4. QED
    BY <2>1, <2>2, <2>3
<1>5. QED
  BY <1>1, <1>2, <1>4 DEF OwnerLogs, TypeInv, TypeOK, Tied, Busy, history

(* The command reports.                                                    *)
LEMMA OwnerReportsTyped ==
  ASSUME TypeInv, OwnerReports
  PROVE  TypeInv'
<1>1. owner.at = "reporting" /\ ~Busy("owner") /\ owner' = Idle
  BY DEF OwnerReports, TypeInv, Tied
<1>2. owner' \in Owners
  BY <1>1 DEF Owners
<1>3. PICK line : line = Report("append", "AUDIT-LOG", "text")
  OBVIOUS
<1>4. line \in Reports /\ line.to \in Appendable
  BY <1>3, BundleAssumption DEF Report, Reports
<1>5. "owner" \in Procs /\ reports["owner"] \in Seq(Reports)
      /\ \A i \in DOMAIN reports["owner"] : reports["owner"][i].to \in Appendable
  BY DEF Procs, TypeInv, TypeOK
<1>6. PICK new : new = Append(reports["owner"], line)
  OBVIOUS
<1>7. new \in Seq(Reports) /\ \A i \in DOMAIN new : new[i].to \in Appendable
  BY <1>4, <1>5, <1>6
<1>8. reports' = [reports EXCEPT !["owner"] = new]
  BY <1>3, <1>6 DEF OwnerReports
<1>9. QED
  BY <1>1, <1>2, <1>5, <1>7, <1>8 DEF OwnerReports, TypeInv, TypeOK, Tied, Busy, history, Idle

(* What is owed are rows.                                                  *)
LEMMA OwedTyped ==
  ASSUME TypeInv, NEW p \in Procs
  PROVE  Owed(p) \in Seq(Rows)
<1>1. CASE p = "owner"
  BY <1>1, OwnerFields, RowTyped DEF Owed, OwnerRow, Files
<1>2. CASE p # "owner"
  BY <1>2 DEF Owed, TypeInv, TypeOK, Sessions, Idle
<1>3. QED
  BY <1>1, <1>2

(* A death leaves the files as they are.                                   *)
LEMMA KilledTyped ==
  ASSUME TypeInv, NEW p \in Procs, Killed(p)
  PROVE  TypeInv'
<1>1. change' = [change EXCEPT ![p] = NoChange]
  BY DEF Killed
<1>2. DOMAIN change' = Procs /\ \A q \in Procs : ChangeOK(change'[q])
  BY <1>1 DEF TypeInv, TypeOK, ChangeOK
<1>3. session' \in Sessions /\ owner' \in Owners
  BY DEF Killed, TypeInv, TypeOK, Sessions, Owners
<1>4. session'.at = "writes" => session'.next \in 1 .. Len(Bundles[session'.bundle].writes)
  BY DEF Killed, TypeInv, TypeOK, Idle
<1>5. torn' \subseteq Files
  <2>1. change[p].at = "opened" => change[p].file \in Files
    BY ChangeFields DEF TypeInv, TypeOK
  <2>2. QED
    BY <2>1 DEF Killed, TypeInv, TypeOK
<1>6. forgotten' \subseteq Rows
  <2>1. ToSet(Owed(p)) \subseteq Rows
    BY OwedTyped DEF ToSet
  <2>2. QED
    BY <2>1 DEF Killed, TypeInv, TypeOK
<1>7. deaths' \in 0 .. MaxDeaths
  BY BoundAssumption DEF Killed, TypeInv, TypeOK
<1>8. Tied'
  BY <1>1 DEF Killed, TypeInv, TypeOK, Tied, Busy, NoChange, Idle, Procs
<1>9. QED
  BY <1>2, <1>3, <1>4, <1>5, <1>6, <1>7, <1>8 DEF Killed, TypeInv, TypeOK, logs

(* Every step keeps it.                                                    *)
LEMMA TypeNext ==
  ASSUME TypeInv, [Next]_vars
  PROVE  TypeInv'
<1>1. CASE UNCHANGED vars
  BY <1>1 DEF vars, TypeInv, TypeOK, Tied, Busy
<1>2. CASE Next
  BY <1>2, CallTyped, StartTyped, FinishTyped, LinesTyped, LookTyped, OwnerReadsTyped,
     OwnerWritesTyped, OwnerLogsTyped, OwnerReportsTyped, OpenTyped, KilledTyped DEF Next
<1>3. QED
  BY <1>1, <1>2

(* Files, changes, calls, commands and logs are what they should be: an     *)
(* emptied file has no field, a change under way has read a file that is    *)
(* there, and only append targets are appended to (do_append).              *)
THEOREM TypeInvariant == Spec => []TypeInv
<1>1. Init => TypeInv
  BY TypeInit
<1>2. TypeInv /\ [Next]_vars => TypeInv'
  BY TypeNext
<1>3. QED
  BY <1>1, <1>2, PTL DEF Spec

(* TypeOK, as TLC checks it.                                               *)
THEOREM TypeCorrect == Spec => []TypeOK
<1>1. TypeInv => TypeOK
  BY DEF TypeInv
<1>2. QED
  BY <1>1, TypeInvariant, PTL

-----------------------------------------------------------------------------
(* WRITES STICK                                                            *)

(* File f while one change of it at most is under way: its content is what  *)
(* was last written to its fields, on disk or in the hands of the one who   *)
(* has it open.                                                            *)
Changes(p, f) == change[p].at # "none" /\ change[p].file = f
Opened(p, f)  == change[p].at = "opened" /\ change[p].file = f
Whole(f) ==
    /\ \A p \in Procs, q \in Procs : Changes(p, f) /\ Changes(q, f) => p = q
    /\ \A p \in Procs : Changes(p, f) => change[p].content = intended[f]
    /\ IF \E p \in Procs : Opened(p, f) THEN disk[f] = Empty ELSE disk[f] = intended[f]

WholeInv == \A f \in DOMAIN disk \ torn : Whole(f)

(* A file that a step leaves alone.                                        *)
LEMMA LeftAlone ==
  ASSUME NEW f, Whole(f), disk'[f] = disk[f], intended'[f] = intended[f],
         \A p \in Procs : \/ change'[p] = change[p]
                          \/ change'[p] = NoChange /\ ~Opened(p, f)
                          \/ ~Changes(p, f) /\ ~Changes(p, f)'
  PROVE  Whole(f)'
  BY DEF Whole, Changes, Opened, NoChange

(* Beginning a change of a file nobody else is changing.                    *)
LEMMA ReadWhole ==
  ASSUME TypeInv, WholeInv, NEW p \in Procs, NEW g, NEW k, NEW v, NEW old,
         ReadFile(p, g, k, v, old), ~Busy(p), UNCHANGED <<disk, intended>>
  PROVE  WholeInv'
<1> SUFFICES ASSUME NEW f \in DOMAIN disk', f \notin torn'
             PROVE  Whole(f)'
  BY DEF WholeInv
<1>1. f \in DOMAIN disk /\ f \notin torn /\ Whole(f)
  BY DEF WholeInv, ReadFile
<1>2. PICK c : c = [at |-> "read", file |-> g, key |-> k, value |-> v,
                    none |-> ReturnsNone(g, disk[g], k), old |-> old,
                    content |-> ContentRead(p, g)]
  OBVIOUS
<1>3. change' = [change EXCEPT ![p] = c] /\ DOMAIN change = Procs
  BY <1>2 DEF ReadFile, TypeInv, TypeOK
<1>4. c.at = "read" /\ c.file = g /\ c.content = disk[g]
  BY <1>2 DEF ContentRead
<1>5. CASE g # f
  BY <1>1, <1>3, <1>4, <1>5, LeftAlone DEF Changes, Busy
<1>6. CASE g = f
  <2>1. \A q \in Procs : ~Changes(q, f)
    BY <1>6 DEF ReadFile, Overlaps, Changes, Busy
  <2>2. disk[f] = intended[f]
    BY <1>1, <2>1 DEF Whole, Opened, Changes
  <2>3. \A q \in Procs : Changes(q, f)' => q = p
    BY <1>3, <2>1 DEF Changes
  <2>4. change'[p] = c /\ \A q \in Procs : ~Opened(q, f)'
    BY <1>3, <1>4, <2>3 DEF Opened, Changes
  <2>5. QED
    BY <1>4, <1>6, <2>2, <2>3, <2>4 DEF Whole
<1>7. QED
  BY <1>5, <1>6

(* Opening a file whose content is in hand.                                 *)
LEMMA OpenWhole ==
  ASSUME TypeInv, WholeInv, NEW p \in Procs, OpenFile(p)
  PROVE  WholeInv'
<1> SUFFICES ASSUME NEW f \in DOMAIN disk', f \notin torn'
             PROVE  Whole(f)'
  BY DEF WholeInv
<1>1. f \in DOMAIN disk /\ f \notin torn /\ Whole(f) /\ intended' = intended
  BY DEF WholeInv, OpenFile, history
<1>2. PICK c : c = change[p]
  OBVIOUS
<1>3. c.at = "read" /\ ChangeOK(c) /\ DOMAIN change = Procs
  BY <1>2 DEF OpenFile, TypeInv, TypeOK
<1>4. PICK o : o = [c EXCEPT !.at = "opened"]
  OBVIOUS
<1>5. o.at = "opened" /\ o.file = c.file /\ o.content = c.content
  BY <1>3, <1>4, ChangeFields DEF ChangesOf
<1>6. change' = [change EXCEPT ![p] = o] /\ disk' = [disk EXCEPT ![c.file] = Empty]
  BY <1>2, <1>4 DEF OpenFile
<1>7. CASE c.file # f
  BY <1>1, <1>2, <1>3, <1>5, <1>6, <1>7, LeftAlone DEF Changes
<1>8. CASE c.file = f
  <2>1. change'[p] = o /\ \A q \in Procs : q # p => change'[q] = change[q]
    BY <1>3, <1>6
  <2>2. Changes(p, f) /\ c.content = intended[f]
    BY <1>1, <1>2, <1>3, <1>8 DEF Changes, Whole
  <2>3. \A q \in Procs : Changes(q, f)' <=> Changes(q, f)
    BY <1>5, <1>8, <2>1, <2>2 DEF Changes
  <2>4. disk'[f] = Empty /\ Opened(p, f)'
    BY <1>1, <1>5, <1>6, <1>8, <2>1 DEF Opened
  <2>5. \A q \in Procs : Changes(q, f) => change'[q].content = intended[f]
    BY <1>1, <1>5, <2>1, <2>2 DEF Whole
  <2>6. QED
    BY <1>1, <2>3, <2>4, <2>5 DEF Whole
<1>9. QED
  BY <1>7, <1>8

(* Writing it back with one field changed.                                  *)
LEMMA WriteWhole ==
  ASSUME TypeInv, WholeInv, NEW p \in Procs, WriteFile(p), torn' = torn
  PROVE  WholeInv'
<1> SUFFICES ASSUME NEW f \in DOMAIN disk', f \notin torn'
             PROVE  Whole(f)'
  BY DEF WholeInv
<1>1. PICK c : c = change[p]
  OBVIOUS
<1>2. f \in DOMAIN disk /\ f \notin torn /\ Whole(f) /\ DOMAIN change = Procs
  BY WriteTyped DEF WholeInv, TypeInv, TypeOK
<1>3. /\ change' = [change EXCEPT ![p] = NoChange] /\ c.at = "opened"
      /\ disk' = [disk EXCEPT ![c.file] = After(c.content, c.key, c.value)]
      /\ intended' = IF c.key \in DOMAIN intended[c.file]
                     THEN [intended EXCEPT ![c.file][c.key] = c.value] ELSE intended
  BY <1>1 DEF WriteFile
<1>4. CASE c.file # f
  <2>1. disk'[f] = disk[f] /\ intended'[f] = intended[f]
    BY <1>2, <1>3, <1>4 DEF TypeInv, TypeOK
  <2>2. QED
    BY <1>1, <1>2, <1>3, <1>4, <2>1, LeftAlone DEF Opened
<1>5. CASE c.file = f
  <2>1. Changes(p, f) /\ c.content = intended[f]
    BY <1>1, <1>2, <1>3, <1>5 DEF Whole, Changes
  <2>2. \A q \in Procs : ~Changes(q, f)'
    BY <1>2, <1>3, <2>1 DEF Whole, Changes, NoChange
  <2>3. disk'[f] = After(intended[f], c.key, c.value)
    BY <1>2, <1>3, <1>5, <2>1
  <2>4. intended'[f] = After(intended[f], c.key, c.value)
    BY <1>2, <1>3, <1>5 DEF After, TypeInv, TypeOK
  <2>5. QED
    BY <2>2, <2>3, <2>4 DEF Whole, Changes, Opened
<1>6. QED
  BY <1>4, <1>5

(* Dying with a file open tears it; with it closed, nothing is lost.        *)
LEMMA KilledWhole ==
  ASSUME TypeInv, WholeInv, NEW p \in Procs, Killed(p)
  PROVE  WholeInv'
<1> SUFFICES ASSUME NEW f \in DOMAIN disk', f \notin torn'
             PROVE  Whole(f)'
  BY DEF WholeInv
<1>1. f \in DOMAIN disk /\ f \notin torn /\ Whole(f) /\ DOMAIN change = Procs
  BY DEF WholeInv, Killed, TypeInv, TypeOK
<1>2. change' = [change EXCEPT ![p] = NoChange] /\ ~Opened(p, f)
  BY DEF Killed, Opened
<1>3. QED
  BY <1>1, <1>2, LeftAlone DEF Killed

(* Every step keeps the files whole.                                        *)
LEMMA WholeNext ==
  ASSUME TypeInv, WholeInv, [Next]_vars
  PROVE  WholeInv'
<1>1. CASE UNCHANGED <<disk, change, intended>> /\ torn \subseteq torn'
  BY <1>1 DEF WholeInv, Whole, Changes, Opened
<1>2. CASE StartWrite
  <2>1. ~Busy("session") /\ "session" \in Procs /\ UNCHANGED <<disk, intended>>
    BY <1>2 DEF StartWrite, Busy, Procs
  <2>2. CASE change' = change
    BY <1>1, <1>2, <2>1, <2>2 DEF StartWrite, ReadFile
  <2>3. CASE change' # change
    BY <1>2, <2>1, <2>3, ReadWhole DEF StartWrite
  <2>4. QED
    BY <2>2, <2>3
<1>3. CASE OwnerReads
  <2>1. ~Busy("owner") /\ "owner" \in Procs /\ UNCHANGED <<disk, intended>>
    BY <1>3 DEF OwnerReads, Busy, Procs
  <2>2. CASE change' = change
    BY <1>1, <1>3, <2>1, <2>2 DEF OwnerReads, ReadFile
  <2>3. CASE change' # change
    BY <1>3, <2>1, <2>3, ReadWhole DEF OwnerReads
  <2>4. QED
    BY <2>2, <2>3
<1>4. CASE FinishWrite
  BY <1>4, WriteWhole DEF FinishWrite, Procs
<1>5. CASE OwnerWritesFile
  BY <1>5, WriteWhole DEF OwnerWritesFile, Procs
<1>6. CASE \E p \in Procs : OpenFile(p) \/ Killed(p)
  BY <1>6, OpenWhole, KilledWhole
<1>7. CASE \/ \E c \in Calls : Call(c)
           \/ AppendEdge \/ AppendRow \/ AppendReport \/ Return
           \/ \E o \in OwnerWrites : Look(o)
           \/ OwnerLogs \/ OwnerReports
  BY <1>1, <1>7
  DEF Call, AppendEdge, AppendRow, AppendReport, Return, Look, OwnerLogs, OwnerReports, history
<1>8. CASE UNCHANGED vars
  BY <1>1, <1>8 DEF vars
<1>9. QED
  BY <1>2, <1>3, <1>4, <1>5, <1>6, <1>7, <1>8 DEF Next

(* Where no two changes of a file overlapped and none was cut short, every  *)
(* field has the value last written to it, whoever wrote it: reading the    *)
(* whole file before emptying it loses no other field.                      *)
THEOREM FieldsKeepTheirValues == Spec => []WritesStick
<1>1. Init => WholeInv
  BY DEF Init, WholeInv, Whole, Changes, Opened, NoChange
<1>2. TypeInv /\ WholeInv /\ [Next]_vars => WholeInv'
  BY WholeNext
<1>3. WholeInv => WritesStick
  BY DEF WholeInv, Whole, Opened, WritesStick
<1>4. QED
  BY <1>1, <1>2, <1>3, TypeInvariant, PTL DEF Spec

-----------------------------------------------------------------------------
(* THE LOGS                                                                *)

(* What a step may do to the rows owed and logged, and to the reports.      *)
OthersOwe(p) == \A q \in Procs \ {p} : Owed(q)' = Owed(q)

Keeps == /\ \A q \in Procs : Owed(q)' = Owed(q)
         /\ UNCHANGED <<log, forgotten>>
Tells(p) == /\ Keeps /\ Owed(p) = <<>>
            /\ \E line \in Reports : reports' = [reports EXCEPT ![p] = Append(reports[p], line)]
Owes(p) == /\ \E r \in Rows : Owed(p)' = Append(Owed(p), r)
           /\ OthersOwe(p) /\ UNCHANGED <<log, reports, forgotten>>
Records(p) == /\ Owed(p) # <<>> /\ Owed(p)' = Tail(Owed(p)) /\ OthersOwe(p)
              /\ log' = [log EXCEPT ![p] = Append(log[p], Head(Owed(p)))]
              /\ UNCHANGED <<reports, forgotten>>
Forgets(p) == /\ Owed(p)' = <<>> /\ OthersOwe(p)
              /\ forgotten' = forgotten \cup ToSet(Owed(p))
              /\ UNCHANGED <<log, reports>>

LogStep == \/ Keeps /\ reports' = reports
           \/ \E p \in Procs : Tells(p) \/ Owes(p) \/ Records(p) \/ Forgets(p)

(* What each owes is a matter of its own call or command.                   *)
LEMMA OwedBy ==
  /\ Owed("session") = IF session.at = "idle" THEN <<>> ELSE session.rows
  /\ Owed("owner") = IF owner.at = "written" THEN <<OwnerRow>> ELSE <<>>
  /\ Owed("session")' = IF session'.at = "idle" THEN <<>> ELSE session'.rows
  /\ Owed("owner")' = IF owner'.at = "written" THEN <<OwnerRow'>> ELSE <<>>
  /\ owner' = owner => Owed("owner")' = Owed("owner")
  BY DEF Owed, OwnerRow

(* A new call owes nothing yet.                                            *)
LEMMA CallLogs ==
  ASSUME TypeInv, NEW c \in Calls, Call(c)
  PROVE  LogStep
<1>1. session.at = "idle" /\ owner' = owner
  BY DEF Call
<1>2. session'.at = "idle" \/ session'.rows = <<>>
  BY <1>1 DEF Call, ToLines
<1>3. QED
  BY <1>1, <1>2, OwedBy DEF Call, LogStep, Keeps, Procs, logs, history

(* Reading a field, or passing it over, changes no file.                    *)
LEMMA StartLogs ==
  ASSUME TypeInv, StartWrite
  PROVE  LogStep
<1>1. /\ session \in Sessions /\ session.at = "writes" /\ session.rows \in Seq(Rows)
      /\ session.touched \in SUBSET Files
      /\ session.next \in 1 .. Len(Bundles[session.bundle].writes)
  BY WritingFields DEF StartWrite, TypeInv, TypeOK
<1>2. session' = session \/ session' = Onward(session, session.rows, session.touched)
  BY DEF StartWrite
<1>3. session'.at # "idle" /\ session'.rows = session.rows
  BY <1>1, <1>2, OnwardTyped
<1>4. QED
  BY <1>1, <1>3, OwedBy DEF StartWrite, LogStep, Keeps, Procs, logs

(* A write that changed a field owes its row.                               *)
LEMMA FinishLogs ==
  ASSUME TypeInv, FinishWrite
  PROVE  /\ LogStep
         /\ Owed("session")' =
               IF Changed(change["session"]) /\ change["session"].file # "MANIFEST"
               THEN Append(Owed("session"),
                           Row(change["session"].file, change["session"].key,
                               change["session"].old, change["session"].value))
               ELSE Owed("session")
<1>1. PICK c : c = change["session"]
  OBVIOUS
<1>2. "session" \in Procs /\ WriteFile("session")
  BY DEF Procs, FinishWrite
<1>3. session.at = "writes"
  BY <1>2, WriteTyped DEF TypeInv, Tied, Busy
<1>4. Row(c.file, c.key, c.old, c.value) \in Rows
  <2>1. ChangeOK(c) /\ c.at # "none"
    BY <1>1, <1>2, WriteTyped DEF TypeInv, TypeOK
  <2>2. QED
    BY <2>1, ChangeFields, RowTyped
<1>5. /\ session \in Sessions /\ session.rows \in Seq(Rows) /\ session.touched \in SUBSET Files
      /\ session.next \in 1 .. Len(Bundles[session.bundle].writes)
  BY <1>3, WritingFields DEF TypeInv, TypeOK
<1>6. PICK rows : rows = IF Changed(c) /\ c.file # "MANIFEST"
                         THEN Append(session.rows, Row(c.file, c.key, c.old, c.value))
                         ELSE session.rows
  OBVIOUS
<1>7. PICK touched : touched = IF Changed(c) THEN session.touched \cup {c.file}
                               ELSE session.touched
  OBVIOUS
<1>8. rows \in Seq(Rows) /\ touched \in SUBSET Files
  <2>1. c.file \in Files
    BY <1>1, <1>2, WriteTyped, BundleAssumption
  <2>2. QED
    BY <1>4, <1>5, <1>6, <1>7, <2>1
<1>9. session' = Onward(session, rows, touched)
  BY <1>1, <1>6, <1>7 DEF FinishWrite
<1>10. session'.at # "idle" /\ session'.rows = rows
  BY <1>3, <1>5, <1>8, <1>9, OnwardTyped
<1>11. Owed("session") = session.rows /\ Owed("session")' = rows
  BY <1>3, <1>10, OwedBy
<1>12. Owed("owner")' = Owed("owner") /\ UNCHANGED <<log, reports, forgotten>>
  BY OwedBy DEF FinishWrite, logs
<1>13. LogStep
  BY <1>2, <1>4, <1>6, <1>11, <1>12 DEF LogStep, Keeps, Owes, OthersOwe, Procs
<1>14. QED
  BY <1>1, <1>6, <1>11, <1>13

(* The lines of a call: its rows in order, then its reports.                *)
LEMMA LinesLogs ==
  ASSUME TypeInv, AppendEdge \/ AppendRow \/ AppendReport \/ Return
  PROVE  LogStep
<1>1. /\ session.at = "lines"
      /\ session.rows \in Seq(Rows) /\ session.due \in Seq(Reports)
      /\ session = [at |-> "lines", edges |-> session.edges, rows |-> session.rows,
                    due |-> session.due]
      /\ owner' = owner /\ forgotten' = forgotten
  BY LoggingFields DEF AppendEdge, AppendRow, AppendReport, Return, TypeInv, TypeOK, history
<1>2. CASE AppendEdge
  <2>1. session'.at = "lines" /\ session'.rows = session.rows
    BY <1>1, <1>2 DEF AppendEdge
  <2>2. QED
    BY <1>1, <1>2, <2>1, OwedBy DEF AppendEdge, LogStep, Keeps, Procs
<1>3. CASE AppendRow
  <2>1. session.rows # <<>>
    BY <1>3 DEF AppendRow, Due
  <2>2. session'.at = "lines" /\ session'.rows = Tail(session.rows)
    BY <1>1, <1>3 DEF AppendRow
  <2>3. Owed("session") = session.rows /\ Owed("session")' = Tail(session.rows)
        /\ Owed("owner")' = Owed("owner")
    BY <1>1, <2>2, OwedBy
  <2>4. log' = [log EXCEPT !["session"] = Append(log["session"], Head(session.rows))]
        /\ reports' = reports
    BY <1>3 DEF AppendRow
  <2>5. QED
    BY <1>1, <2>1, <2>3, <2>4 DEF LogStep, Records, OthersOwe, Procs
<1>4. CASE AppendReport
  <2>1. session.due # <<>> /\ session.rows = <<>>
    BY <1>4 DEF AppendReport, Due
  <2>2. session'.at = "lines" /\ session'.rows = session.rows
    BY <1>1, <1>4 DEF AppendReport
  <2>3. Owed("session") = <<>> /\ Keeps
    BY <1>1, <1>4, <2>1, <2>2, OwedBy DEF AppendReport, Keeps, Procs
  <2>4. PICK line : line = Head(session.due)
    OBVIOUS
  <2>5. line \in Reports /\ "session" \in Procs /\ reports \in [Procs -> Seq(Reports)]
    BY <1>1, <2>1, <2>4 DEF Procs, TypeInv, TypeOK
  <2>6. reports' = [reports EXCEPT !["session"] = Appended(reports["session"], line)]
    BY <1>4, <2>4 DEF AppendReport
  <2>7. CASE line.to \in Appendable
    BY <2>3, <2>5, <2>6, <2>7 DEF LogStep, Tells, Appended
  <2>8. CASE line.to \notin Appendable
    <3>1. reports' = [reports EXCEPT !["session"] = reports["session"]]
      BY <2>6, <2>8 DEF Appended
    <3>2. QED
      BY <2>3, <2>5, <3>1 DEF LogStep
  <2>9. QED
    BY <2>7, <2>8
<1>5. CASE Return
  <2>1. session.rows = <<>> /\ session'.at = "idle"
    BY <1>5 DEF Return, Due, Idle
  <2>2. QED
    BY <1>1, <1>5, <2>1, OwedBy DEF Return, LogStep, Keeps, Procs, logs
<1>6. QED
  BY <1>2, <1>3, <1>4, <1>5

(* A log of one row.                                                       *)
LEMMA OneRow ==
  ASSUME NEW r \in Rows
  PROVE  /\ Append(<<>>, r) = <<r>> /\ <<r>> # <<>>
         /\ Head(<<r>>) = r /\ Tail(<<r>>) = <<>>
  OBVIOUS

(* Until the write it owes nothing.                                        *)
LEMMA OwnerKeepsLogs ==
  ASSUME TypeInv, (\E o \in OwnerWrites : Look(o)) \/ OwnerReads
  PROVE  LogStep
<1>1. owner.at # "written" /\ owner'.at # "written"
  BY DEF Look, OwnerReads, Idle
<1>2. QED
  BY <1>1, OwedBy DEF Look, OwnerReads, LogStep, Keeps, Procs, logs, history

(* From the write to the log it owes its row, and then it reports.          *)
LEMMA OwnerLogsStep ==
  ASSUME TypeInv, OwnerWritesFile \/ OwnerLogs \/ OwnerReports
  PROVE  LogStep
<1>1. CASE OwnerWritesFile
  <2>1. owner.at = "found"
    BY <1>1, WriteTyped DEF OwnerWritesFile, TypeInv, Tied, Busy, Procs
  <2>2. owner'.at = "written" /\ OwnerRow' \in Rows
    <3>1. TypeInv' /\ owner'.at = "written"
      <4>1. owner = [at |-> owner.at, key |-> owner.key, value |-> owner.value, old |-> owner.old]
        BY <2>1, OwnerFields
      <4>2. owner'.at = "written"
        BY <1>1, <4>1 DEF OwnerWritesFile
      <4>3. QED
        BY <1>1, <4>2, OwnerWritesTyped
    <3>2. /\ owner'.key \in Texts /\ owner'.value \in Texts /\ owner'.old \in Texts
      BY <3>1 DEF TypeInv, TypeOK, Owners, Idle
    <3>3. QED
      BY <3>1, <3>2, RowTyped DEF OwnerRow, Files
  <2>3. Owed("owner") = <<>> /\ Owed("owner")' = <<OwnerRow'>>
    BY <2>1, <2>2, OwedBy
  <2>4. Owed("owner")' = Append(Owed("owner"), OwnerRow')
    BY <2>2, <2>3, OneRow
  <2>5. UNCHANGED <<session, log, reports, forgotten>>
    BY <1>1 DEF OwnerWritesFile, logs
  <2>6. Owed("session")' = Owed("session")
    BY <2>5, OwedBy
  <2>7. Owes("owner")
    BY <2>2, <2>4, <2>5, <2>6 DEF Owes, OthersOwe, Procs
  <2>8. QED
    BY <2>7 DEF LogStep, Procs
<1>2. CASE OwnerLogs
  <2>1. owner.at = "written" /\ owner'.at = "reporting"
    BY <1>2 DEF OwnerLogs
  <2>2. Owed("owner") = <<OwnerRow>> /\ Owed("owner")' = <<>>
    BY <2>1, OwedBy
  <2>3. /\ UNCHANGED <<session, reports, forgotten>>
        /\ log' = [log EXCEPT !["owner"] = Append(log["owner"], OwnerRow)]
    BY <1>2 DEF OwnerLogs, history
  <2>4. Owed("session")' = Owed("session")
    BY <2>3, OwedBy
  <2>5. /\ Owed("owner") # <<>> /\ Head(Owed("owner")) = OwnerRow
        /\ Owed("owner")' = Tail(Owed("owner"))
    <3>1. OwnerRow \in Rows
      BY <2>1, OwnerFields, RowTyped DEF OwnerRow, Files
    <3>2. QED
      BY <2>2, <3>1, OneRow
  <2>6. Records("owner")
    BY <2>3, <2>4, <2>5 DEF Records, OthersOwe, Procs
  <2>7. QED
    BY <2>6 DEF LogStep, Procs
<1>3. CASE OwnerReports
  <2>1. owner.at = "reporting" /\ owner'.at = "idle"
    BY <1>3 DEF OwnerReports, Idle
  <2>2. Owed("owner") = <<>> /\ Keeps
    BY <1>3, <2>1, OwedBy DEF OwnerReports, Keeps, Procs, history
  <2>3. Report("append", "AUDIT-LOG", "text") \in Reports
    BY BundleAssumption DEF Report, Reports
  <2>4. QED
    BY <1>3, <2>2, <2>3 DEF OwnerReports, Tells, LogStep, Procs
<1>4. QED
  BY <1>1, <1>2, <1>3

(* The dead owe nothing; what they owed is forgotten.                       *)
LEMMA KilledLogs ==
  ASSUME TypeInv, NEW p \in Procs, Killed(p)
  PROVE  LogStep
<1>1. CASE p = "session"
  <2>1. session'.at = "idle" /\ owner' = owner
    BY <1>1 DEF Killed, Idle
  <2>2. QED
    BY <1>1, <2>1, OwedBy DEF Killed, LogStep, Forgets, OthersOwe, Procs, logs
<1>2. CASE p = "owner"
  <2>1. owner'.at = "idle" /\ session' = session
    BY <1>2 DEF Killed, Idle
  <2>2. QED
    BY <1>2, <2>1, OwedBy DEF Killed, LogStep, Forgets, OthersOwe, Procs, logs
<1>3. QED
  BY <1>1, <1>2 DEF Procs

(* No step does anything else to the logs.                                  *)
LEMMA LogNext ==
  ASSUME TypeInv, [Next]_vars
  PROVE  LogStep
<1>1. CASE UNCHANGED vars
  BY <1>1, OwedBy DEF vars, LogStep, Keeps, Procs
<1>2. CASE \E p \in Procs : OpenFile(p)
  BY <1>2, OwedBy DEF OpenFile, LogStep, Keeps, Procs, logs, history
<1>3. CASE Next
  BY <1>2, <1>3, CallLogs, StartLogs, FinishLogs, LinesLogs, OwnerKeepsLogs, OwnerLogsStep,
     KilledLogs DEF Next
<1>4. QED
  BY <1>1, <1>3

(* Every change has its row, once, in the order in which the author made    *)
(* them, a call is reported only after its rows, and only the dead leave a  *)
(* row out: the logs implement ChangeJournal.                               *)
THEOREM JournalRefined == Spec => JournalRefinement
<1>1. Init => Journal!JournalInit
  BY OwedBy DEF Init, Journal!JournalInit, Idle, Procs
<1>2. TypeInv /\ [Next]_vars => [Journal!JournalNext]_(Journal!journalVars)
  <2> SUFFICES ASSUME TypeInv, [Next]_vars
               PROVE  [Journal!JournalNext]_(Journal!journalVars)
    OBVIOUS
  <2> DEFINE owed == [p \in Procs |-> Owed(p)]
             done == [p \in Procs |-> Len(reports[p])]
  <2>1. /\ \A p \in Procs : Owed(p) \in Seq(Rows)
        /\ reports \in [Procs -> Seq(Reports)]
    BY OwedTyped DEF TypeInv, TypeOK
  <2>2. CASE Keeps /\ reports' = reports
    BY <2>2 DEF Keeps, Journal!journalVars
  <2>3. ASSUME NEW p \in Procs, Tells(p) PROVE Journal!ReportDone(p)
    <3>1. PICK line \in Reports : reports' = [reports EXCEPT ![p] = Append(reports[p], line)]
      BY <2>3 DEF Tells
    <3>2. done' = [done EXCEPT ![p] = @ + 1]
      <4>1. reports'[p] = Append(reports[p], line) /\ reports[p] \in Seq(Reports)
        BY <2>1, <3>1
      <4>2. Len(reports'[p]) = Len(reports[p]) + 1
        BY <4>1
      <4>3. \A q \in Procs \ {p} : reports'[q] = reports[q]
        BY <2>1, <3>1
      <4>4. QED
        BY <4>2, <4>3
    <3>3. owed' = owed /\ log' = log /\ owed[p] = <<>>
      BY <2>3 DEF Tells, Keeps
    <3>4. QED
      BY <3>2, <3>3 DEF Journal!ReportDone
  <2>4. ASSUME NEW p \in Procs, Owes(p) PROVE Journal!Change(p)
    <3>1. PICK r \in Rows : Owed(p)' = Append(Owed(p), r)
      BY <2>4 DEF Owes
    <3>2. owed' = [owed EXCEPT ![p] = Append(@, r)]
      BY <2>4, <3>1 DEF Owes, OthersOwe
    <3>3. owed'[p] = Append(owed[p], r) /\ owed[p] \in Seq(Rows)
      BY <2>1, <3>2
    <3>4. Len(owed'[p]) = Len(owed[p]) + 1 /\ owed'[p][Len(owed'[p])] = r
      BY <3>3
    <3>5. done' = done /\ log' = log
      BY <2>4 DEF Owes
    <3>6. QED
      BY <3>2, <3>4, <3>5 DEF Journal!Change, Journal!Last
  <2>5. ASSUME NEW p \in Procs, Records(p) PROVE Journal!Record(p)
    <3>1. owed' = [owed EXCEPT ![p] = Tail(@)]
      BY <2>5 DEF Records, OthersOwe
    <3>2. log' = [log EXCEPT ![p] = Append(@, Head(owed[p]))] /\ done' = done
      BY <2>5 DEF Records
    <3>3. owed[p] # <<>>
      BY <2>5 DEF Records
    <3>4. QED
      BY <3>1, <3>2, <3>3 DEF Journal!Record
  <2>6. ASSUME NEW p \in Procs, Forgets(p)
        PROVE  Journal!Die(p) \/ UNCHANGED Journal!journalVars
    <3>1. owed' = [owed EXCEPT ![p] = <<>>] /\ log' = log /\ done' = done
      BY <2>6 DEF Forgets, OthersOwe
    <3>2. CASE owed[p] = <<>>
      <4>1. owed' = owed
        BY <3>1, <3>2
      <4>2. QED
        BY <3>1, <4>1 DEF Journal!journalVars
    <3>3. CASE owed[p] # <<>>
      BY <3>1, <3>3 DEF Journal!Die
    <3>4. QED
      BY <3>2, <3>3
  <2>7. QED
    BY <2>2, <2>3, <2>4, <2>5, <2>6, LogNext DEF LogStep, Journal!JournalNext
<1>3. QED
  BY <1>1, <1>2, TypeInvariant, PTL DEF Spec, JournalRefinement, Journal!JournalSpec

-----------------------------------------------------------------------------
(* THE LOG COVERS THE DISK                                                 *)

AllRows == forgotten \cup UNION {ToSet(log[p]) \cup ToSet(Owed(p)) : p \in Procs}

OnRecord(f, k, v) == \E r \in AllRows : r.file = f /\ r.key = k /\ r.new = v

(* The change the call is making has the old value its mutator returned.    *)
OldIsRead ==
    LET c == change["session"] IN
    c.at # "none" => /\ c.old = OldValue(c.content, c.key)
                     /\ c.none = ReturnsNone(c.file, c.content, c.key)

(* What was written to a field is on record when it is news.                *)
CoverInv ==
    /\ OldIsRead
    /\ \A f \in DOMAIN disk \ (torn \cup {"MANIFEST"}) : \A k \in DOMAIN intended[f] :
          intended[f][k] # InitDisk[f][k] => OnRecord(f, k, intended[f][k])

(* The rows of a longer and of a shorter sequence.                          *)
LEMMA RowSets ==
  ASSUME NEW s \in Seq(Rows), NEW r \in Rows
  PROVE  /\ ToSet(Append(s, r)) = ToSet(s) \cup {r}
         /\ s # <<>> => ToSet(s) = {Head(s)} \cup ToSet(Tail(s))
<1>1. ToSet(Append(s, r)) = ToSet(s) \cup {r}
  <2>1. /\ DOMAIN Append(s, r) = 1 .. Len(s) + 1 /\ DOMAIN s = 1 .. Len(s) /\ Len(s) \in Nat
        /\ \A i \in 1 .. Len(s) : Append(s, r)[i] = s[i]
        /\ Append(s, r)[Len(s) + 1] = r
    OBVIOUS
  <2>2. QED
    BY <2>1 DEF ToSet
<1>2. ASSUME s # <<>> PROVE ToSet(s) = {Head(s)} \cup ToSet(Tail(s))
  <2>1. /\ DOMAIN s = 1 .. Len(s) /\ Len(s) \in Nat /\ Len(s) >= 1 /\ Head(s) = s[1]
        /\ Tail(s) \in Seq(Rows) /\ Len(Tail(s)) = Len(s) - 1
        /\ \A i \in 1 .. Len(s) - 1 : Tail(s)[i] = s[i + 1]
    BY <1>2
  <2>2. DOMAIN Tail(s) = 1 .. Len(s) - 1
    BY <2>1
  <2>3. ASSUME NEW i \in 1 .. Len(s) PROVE s[i] \in {Head(s)} \cup ToSet(Tail(s))
    <3>1. CASE i = 1
      BY <2>1, <3>1
    <3>2. CASE i # 1
      <4>1. i - 1 \in 1 .. Len(s) - 1 /\ Tail(s)[i - 1] = s[i]
        BY <2>1, <3>2
      <4>2. QED
        BY <2>2, <4>1 DEF ToSet
    <3>3. QED
      BY <3>1, <3>2
  <2>4. ASSUME NEW i \in 1 .. Len(s) - 1 PROVE Tail(s)[i] \in ToSet(s)
    BY <2>1 DEF ToSet
  <2>5. QED
    BY <2>1, <2>2, <2>3, <2>4 DEF ToSet
<1>3. QED
  BY <1>1, <1>2

(* No row is ever lost sight of.                                           *)
LEMMA RowsGrow ==
  ASSUME TypeInv, [Next]_vars
  PROVE  AllRows \subseteq AllRows'
<1>1. /\ \A p \in Procs : Owed(p) \in Seq(Rows) /\ log[p] \in Seq(Rows)
      /\ log \in [Procs -> Seq(Rows)]
  BY OwedTyped DEF TypeInv, TypeOK
<1>2. LogStep
  BY LogNext
<1>3. CASE Keeps
  BY <1>3 DEF Keeps, AllRows
<1>4. ASSUME NEW p \in Procs, Owes(p) PROVE AllRows \subseteq AllRows'
  <2>1. PICK r \in Rows : Owed(p)' = Append(Owed(p), r)
    BY <1>4 DEF Owes
  <2>2. \A q \in Procs : ToSet(Owed(q)) \subseteq ToSet(Owed(q)')
    <3>1. ToSet(Append(Owed(p), r)) = ToSet(Owed(p)) \cup {r}
      BY <1>1, RowSets
    <3>2. \A q \in Procs \ {p} : Owed(q)' = Owed(q)
      BY <1>4 DEF Owes, OthersOwe
    <3>3. QED
      BY <2>1, <3>1, <3>2
  <2>3. QED
    BY <1>4, <2>2 DEF Owes, AllRows
<1>5. ASSUME NEW p \in Procs, Records(p) PROVE AllRows \subseteq AllRows'
  <2>1. PICK r : r = Head(Owed(p))
    OBVIOUS
  <2>2. r \in Rows /\ Owed(p) # <<>> /\ Owed(p)' = Tail(Owed(p))
    BY <1>1, <1>5, <2>1 DEF Records
  <2>3. ToSet(Owed(p)) = {r} \cup ToSet(Owed(p)')
    BY <1>1, <2>1, <2>2, RowSets
  <2>4. log'[p] = Append(log[p], r) /\ \A q \in Procs \ {p} : log'[q] = log[q]
    BY <1>1, <1>5, <2>1 DEF Records
  <2>5. ToSet(log'[p]) = ToSet(log[p]) \cup {r}
    BY <1>1, <2>2, <2>4, RowSets
  <2>6. \A q \in Procs : ToSet(log[q]) \cup ToSet(Owed(q)) \subseteq ToSet(log'[q]) \cup ToSet(Owed(q)')
    BY <1>5, <2>3, <2>4, <2>5 DEF Records, OthersOwe
  <2>7. QED
    BY <1>5, <2>6 DEF Records, AllRows
<1>6. ASSUME NEW p \in Procs, Forgets(p) PROVE AllRows \subseteq AllRows'
  <2>1. ToSet(Owed(p)) \subseteq forgotten' /\ forgotten \subseteq forgotten' /\ log' = log
    BY <1>6 DEF Forgets
  <2>2. \A q \in Procs : ToSet(Owed(q)) \subseteq forgotten' \cup ToSet(Owed(q)')
    BY <1>6, <2>1 DEF Forgets, OthersOwe
  <2>3. QED
    BY <2>1, <2>2 DEF AllRows
<1>7. QED
  BY <1>2, <1>3, <1>4, <1>5, <1>6 DEF LogStep, Tells

(* A step that changes no value on the way to the disk.                     *)
LEMMA ValuesStay ==
  ASSUME TypeInv, CoverInv, [Next]_vars, intended' = intended, torn \subseteq torn', OldIsRead'
  PROVE  CoverInv'
<1>1. AllRows \subseteq AllRows'
  BY RowsGrow
<1>2. DOMAIN disk' = DOMAIN disk
  BY TypeNext DEF TypeInv, TypeOK
<1>3. QED
  BY <1>1, <1>2 DEF CoverInv, OnRecord

(* A write of p puts the value it wrote on record, if the value is new.     *)
LEMMA WriteCovers ==
  ASSUME TypeInv, WholeInv, CoverInv, [Next]_vars, NEW p \in Procs, WriteFile(p), torn' = torn,
         OldIsRead', NEW c, c = change[p],
         c.file # "MANIFEST" /\ c.key \in DOMAIN c.content
            => c.value = c.content[c.key] \/ OnRecord(c.file, c.key, c.value)'
  PROVE  CoverInv'
<1> SUFFICES ASSUME NEW f \in DOMAIN disk' \ (torn' \cup {"MANIFEST"}),
                    NEW k \in DOMAIN intended'[f],
                    NEW v, v = intended'[f][k], v # InitDisk[f][k]
             PROVE  OnRecord(f, k, v)'
  BY DEF CoverInv, OnRecord
<1>1. /\ f \in DOMAIN InitDisk /\ f \in DOMAIN disk /\ f \notin torn /\ f # "MANIFEST"
      /\ k \in DOMAIN InitDisk[f] /\ k \in DOMAIN intended[f]
  BY WriteTyped DEF TypeInv, TypeOK
<1>2. v = intended[f][k] => OnRecord(f, k, v)'
  <2>1. v = intended[f][k] => OnRecord(f, k, v)
    BY <1>1 DEF CoverInv
  <2>2. AllRows \subseteq AllRows'
    BY RowsGrow
  <2>3. QED
    BY <2>1, <2>2 DEF OnRecord
<1>3. intended' = IF c.key \in DOMAIN intended[c.file]
                  THEN [intended EXCEPT ![c.file][c.key] = c.value] ELSE intended
  BY DEF WriteFile
<1>4. CASE f = c.file /\ k = c.key
  <2>1. c.content = intended[f]
    BY <1>1, <1>4 DEF WholeInv, Whole, Changes, WriteFile
  <2>2. v = c.value
    BY <1>1, <1>3, <1>4 DEF TypeInv, TypeOK
  <2>3. \/ c.value = c.content[c.key]
        \/ OnRecord(c.file, c.key, c.value)'
    BY <1>1, <1>4, <2>1
  <2>4. QED
    BY <1>2, <1>4, <2>1, <2>2, <2>3
<1>5. CASE ~(f = c.file /\ k = c.key)
  <2>1. v = intended[f][k]
    BY <1>1, <1>3, <1>5 DEF TypeInv, TypeOK
  <2>2. QED
    BY <1>2, <2>1
<1>6. QED
  BY <1>4, <1>5

(* The call puts every change on record that its mutator noticed.           *)
LEMMA FinishCovers ==
  ASSUME TypeInv, WholeInv, CoverInv, FinishWrite
  PROVE  CoverInv'
<1>1. PICK c : c = change["session"]
  OBVIOUS
<1>2. "session" \in Procs /\ WriteFile("session") /\ torn' = torn /\ [Next]_vars
  BY DEF Procs, FinishWrite, Next
<1>3. OldIsRead'
  BY <1>2, WriteTyped DEF OldIsRead, NoChange, TypeInv, TypeOK
<1>4. ASSUME c.file # "MANIFEST", c.key \in DOMAIN c.content, c.value # c.content[c.key]
      PROVE  OnRecord(c.file, c.key, c.value)'
  <2>1. c.old = c.content[c.key] /\ c.none = FALSE
    BY <1>1, <1>2, <1>4 DEF CoverInv, OldIsRead, OldValue, ReturnsNone, WriteFile
  <2>2. Changed(c)
    BY <1>4, <2>1 DEF Changed
  <2>3. PICK r : r = Row(c.file, c.key, c.old, c.value)
    OBVIOUS
  <2>4. r \in Rows
    <3>1. ChangeOK(c) /\ c.at # "none"
      BY <1>1, <1>2, WriteTyped DEF TypeInv, TypeOK
    <3>2. QED
      BY <2>3, <3>1, ChangeFields, RowTyped
  <2>5. Owed("session")' = Append(Owed("session"), r)
    BY <1>1, <1>4, <2>2, <2>3, FinishLogs
  <2>6. Owed("session") \in Seq(Rows)
    BY <1>2, OwedTyped
  <2>7. r \in ToSet(Owed("session")')
    <3>1. r \in ToSet(Append(Owed("session"), r))
      BY <2>4, <2>6, RowSets
    <3>2. QED
      BY <2>5, <3>1
  <2>8. r \in AllRows'
    BY <1>2, <2>7 DEF AllRows
  <2>9. QED
    BY <2>3, <2>8 DEF OnRecord, Row
<1>5. QED
  BY <1>1, <1>2, <1>3, <1>4, WriteCovers

(* The owner's command owes its row from the write on.                      *)
LEMMA OwnerCovers ==
  ASSUME TypeInv, WholeInv, CoverInv, OwnerWritesFile
  PROVE  CoverInv'
<1>1. PICK c : c = change["owner"]
  OBVIOUS
<1>2. "owner" \in Procs /\ WriteFile("owner") /\ torn' = torn /\ [Next]_vars
  BY DEF Procs, OwnerWritesFile, Next
<1>3. change'["session"] = change["session"]
  BY <1>2, WriteTyped DEF TypeInv, TypeOK, Procs
<1>4. OldIsRead'
  BY <1>3 DEF CoverInv, OldIsRead, OldValue, ReturnsNone
<1>5. /\ owner.at = "found" /\ c.file = "DISPATCH" /\ c.key = owner.key
      /\ c.value = owner.value
  BY <1>1, <1>2, WriteTyped DEF TypeInv, Tied, Busy
<1>6. owner' = [at |-> "written", key |-> owner.key, value |-> owner.value, old |-> owner.old]
  <2>1. owner = [at |-> owner.at, key |-> owner.key, value |-> owner.value, old |-> owner.old]
    BY <1>5, OwnerFields
  <2>2. QED
    BY <2>1 DEF OwnerWritesFile
<1>7. Owed("owner")' = <<OwnerRow'>> /\ OwnerRow' = Row("DISPATCH", c.key, owner.old, c.value)
  BY <1>5, <1>6, OwedBy DEF OwnerRow
<1>8. OwnerRow' \in AllRows'
  <2>1. OwnerRow' \in ToSet(<<OwnerRow'>>)
    BY DEF ToSet
  <2>2. QED
    BY <1>2, <1>7, <2>1 DEF AllRows
<1>9. OnRecord(c.file, c.key, c.value)'
  BY <1>5, <1>7, <1>8 DEF OnRecord, Row
<1>10. QED
  BY <1>1, <1>2, <1>4, <1>9, WriteCovers

(* Every step keeps the log covering what was written.                      *)
LEMMA CoverNext ==
  ASSUME TypeInv, WholeInv, CoverInv, [Next]_vars
  PROVE  CoverInv'
<1>1. CASE UNCHANGED <<change, intended>> /\ torn \subseteq torn'
  BY <1>1, ValuesStay DEF CoverInv, OldIsRead, OldValue, ReturnsNone
<1>2. CASE StartWrite
  <2>1. intended' = intended /\ torn \subseteq torn'
    BY <1>2 DEF StartWrite, ReadFile
  <2>2. CASE change' = change
    BY <1>1, <2>1, <2>2
  <2>3. CASE change' # change
    <3>1. PICK w : w = Bundles[session.bundle].writes[session.next]
      OBVIOUS
    <3>2. PICK c : c = [at |-> "read", file |-> w.file, key |-> w.key,
                        value |-> Resolved(w.expr, session.args),
                        none |-> ReturnsNone(w.file, disk[w.file], w.key),
                        old |-> OldValue(disk[w.file], w.key),
                        content |-> ContentRead("session", w.file)]
      OBVIOUS
    <3>3. change'["session"] = c
      BY <1>2, <2>3, <3>1, <3>2 DEF StartWrite, ReadFile, TypeInv, TypeOK, Procs
    <3>4. OldIsRead'
      <4>1. /\ c.file = w.file /\ c.key = w.key /\ c.content = disk[w.file]
            /\ c.old = OldValue(disk[w.file], w.key)
            /\ c.none = ReturnsNone(w.file, disk[w.file], w.key)
        BY <3>2 DEF ContentRead
      <4>2. /\ c.old = OldValue(c.content, c.key)
            /\ c.none = ReturnsNone(c.file, c.content, c.key)
        BY <4>1
      <4>3. QED
        BY <3>3, <4>2 DEF OldIsRead, OldValue, ReturnsNone
    <3>5. QED
      BY <2>1, <3>4, ValuesStay
  <2>4. QED
    BY <2>2, <2>3
<1>3. CASE OwnerReads
  <2>1. intended' = intended /\ torn \subseteq torn'
    BY <1>3 DEF OwnerReads, ReadFile
  <2>2. change'["session"] = change["session"]
    BY <1>3 DEF OwnerReads, ReadFile, TypeInv, TypeOK, Procs
  <2>3. OldIsRead'
    BY <2>2 DEF CoverInv, OldIsRead, OldValue, ReturnsNone
  <2>4. QED
    BY <2>1, <2>3, ValuesStay
<1>4. CASE FinishWrite
  BY <1>4, FinishCovers
<1>5. CASE OwnerWritesFile
  BY <1>5, OwnerCovers
<1>6. CASE \E p \in Procs : OpenFile(p)
  <2>1. PICK p \in Procs : OpenFile(p)
    BY <1>6
  <2>2. PICK c : c = change["session"]
    OBVIOUS
  <2>3. \/ change'["session"] = c
        \/ change'["session"] = [c EXCEPT !.at = "opened"] /\ c.at = "read"
    BY <2>1, <2>2 DEF OpenFile, TypeInv, TypeOK, Procs
  <2>4. ChangeOK(c)
    BY <2>2 DEF TypeInv, TypeOK, Procs
  <2>5. OldIsRead'
    <3>1. CASE change'["session"] = c
      BY <2>2, <3>1 DEF CoverInv, OldIsRead, OldValue, ReturnsNone
    <3>2. CASE change'["session"] = [c EXCEPT !.at = "opened"] /\ c.at = "read"
      <4>1. PICK o : o = [c EXCEPT !.at = "opened"]
        OBVIOUS
      <4>2. c \in ChangesOf(c.file)
        BY <2>4, <3>2, ChangeFields
      <4>3. /\ o.old = c.old /\ o.none = c.none /\ o.content = c.content
            /\ o.key = c.key /\ o.file = c.file
        BY <4>1, <4>2 DEF ChangesOf
      <4>4. QED
        BY <2>2, <3>2, <4>1, <4>3 DEF CoverInv, OldIsRead, OldValue, ReturnsNone
    <3>3. QED
      BY <2>3, <3>1, <3>2
  <2>6. QED
    BY <2>1, <2>5, ValuesStay DEF OpenFile, history
<1>7. CASE \E p \in Procs : Killed(p)
  <2>1. PICK p \in Procs : Killed(p)
    BY <1>7
  <2>2. change'["session"] = change["session"] \/ change'["session"] = NoChange
    BY <2>1 DEF Killed, TypeInv, TypeOK, Procs
  <2>3. OldIsRead'
    <3>1. CASE change'["session"] = change["session"]
      BY <3>1 DEF CoverInv, OldIsRead, OldValue, ReturnsNone
    <3>2. CASE change'["session"] = NoChange
      BY <3>2 DEF OldIsRead, NoChange
    <3>3. QED
      BY <2>2, <3>1, <3>2
  <2>4. intended' = intended /\ torn \subseteq torn'
    BY <2>1 DEF Killed
  <2>5. QED
    BY <2>3, <2>4, ValuesStay
<1>8. CASE \/ \E c \in Calls : Call(c)
           \/ AppendEdge \/ AppendRow \/ AppendReport \/ Return
           \/ \E o \in OwnerWrites : Look(o)
           \/ OwnerLogs \/ OwnerReports
  BY <1>1, <1>8
  DEF Call, AppendEdge, AppendRow, AppendReport, Return, Look, OwnerLogs, OwnerReports, history
<1>9. CASE UNCHANGED vars
  BY <1>1, <1>9 DEF vars
<1>10. QED
  BY <1>2, <1>3, <1>4, <1>5, <1>6, <1>7, <1>8, <1>9 DEF Next

(* No change is made behind the log: a value that a state file did not have *)
(* at first is in a row, or the row is owed, or its author died owing it.   *)
THEOREM NothingUnlogged == Spec => []LogCoversDisk
<1>1. Init => WholeInv /\ CoverInv
  BY DEF Init, WholeInv, Whole, Changes, Opened, NoChange, CoverInv, OldIsRead, Procs
<1>2. TypeInv /\ WholeInv /\ CoverInv /\ [Next]_vars => WholeInv' /\ CoverInv'
  BY WholeNext, CoverNext
<1>3. TypeInv /\ WholeInv /\ CoverInv => LogCoversDisk
  <2> SUFFICES ASSUME TypeInv, WholeInv, CoverInv,
                      NEW f \in DOMAIN disk \ (torn \cup {"MANIFEST"}), NEW k \in DOMAIN disk[f],
                      disk[f][k] # InitDisk[f][k]
               PROVE  OnRecord(f, k, disk[f][k])
    BY DEF LogCoversDisk, OnRecord, AllRows
  <2>1. disk[f] = intended[f] \/ disk[f] = Empty
    BY DEF WholeInv, Whole
  <2>2. disk[f] = intended[f]
    BY <2>1 DEF Empty
  <2>3. QED
    BY <2>2 DEF CoverInv
<1>4. QED
  BY <1>1, <1>2, <1>3, TypeInvariant, PTL DEF Spec

-----------------------------------------------------------------------------
(* NO PLACEHOLDERS                                                         *)

AllValidated == \A i \in DOMAIN called :
    Declared(called[i].bundle) => Validates(Bundles[called[i].bundle])

CleanRows    == {r \in Rows : r.new # Unresolved}
CleanReports == {r \in Reports : r.kind = "append" => r.what # Unresolved}

(* A call that writes was made, and has the arguments its bundle declares.  *)
Called(s) ==
    s.at = "writes" => /\ Bundles[s.bundle].args \subseteq DOMAIN s.args
                       /\ \E i \in DOMAIN called : called[i].bundle = s.bundle

CleanDisk == \A f \in DOMAIN disk : \A k \in DOMAIN disk[f] : disk[f][k] # Unresolved
CleanChanges == \A p \in Procs : change[p].at # "none" =>
    /\ change[p].value # Unresolved
    /\ \A k \in DOMAIN change[p].content : change[p].content[k] # Unresolved
CleanSession(s) == /\ s.at # "idle" => s.rows \in Seq(CleanRows)
                   /\ s.at = "lines" => s.due \in Seq(CleanReports)
CleanOwner == owner.at \in {"found", "written"} => owner.value # Unresolved
CleanLogs == /\ log \in [Procs -> Seq(CleanRows)]
             /\ reports \in [Procs -> Seq(CleanReports)]
Clean == CleanDisk /\ CleanChanges /\ CleanSession(session) /\ CleanOwner /\ CleanLogs

ResolvedInv == Called(session) /\ (AllValidated => Clean)

(* The bundle of a call that writes is one that passes.                     *)
LEMMA BundleValidates ==
  ASSUME AllValidated, NEW s \in Sessions, s.at = "writes", Called(s)
  PROVE  /\ Validates(Bundles[s.bundle]) /\ BundleShape(Bundles[s.bundle])
         /\ Bundles[s.bundle].args \subseteq DOMAIN s.args
<1>1. s.bundle \in DOMAIN Bundles
  BY DEF Sessions, Idle
<1>2. PICK i \in DOMAIN called : called[i].bundle = s.bundle
  BY DEF Called
<1>3. QED
  BY <1>1, <1>2, BundleAssumption DEF AllValidated, Declared, Called

(* The lines of the appends of such a bundle refer to arguments given.      *)
LEMMA ReportsClean ==
  ASSUME NEW b, Validates(b), BundleShape(b), NEW args, b.args \subseteq DOMAIN args
  PROVE  ReportsOf(b, args) \in Seq(CleanReports)
<1>1. /\ b.appends \in Seq(Templates) /\ b.notify \in Seq(Templates)
      /\ \A i \in DOMAIN b.appends : b.appends[i].refs \subseteq b.args
  BY DEF Validates, BundleShape, ToSet
<1>2. \A i \in DOMAIN b.appends : Filled("append", b.appends[i], args) \in CleanReports
  <2> SUFFICES ASSUME NEW i \in DOMAIN b.appends
               PROVE  Filled("append", b.appends[i], args) \in CleanReports
    OBVIOUS
  <2>1. b.appends[i] \in Templates /\ b.appends[i].refs \subseteq DOMAIN args
    BY <1>1
  <2>2. QED
    BY <2>1 DEF Templates, Filled, Report, Reports, CleanReports, Unresolved
<1>3. \A i \in DOMAIN b.notify : Filled("notice", b.notify[i], args) \in CleanReports
  <2> SUFFICES ASSUME NEW i \in DOMAIN b.notify
               PROVE  Filled("notice", b.notify[i], args) \in CleanReports
    OBVIOUS
  <2>1. b.notify[i] \in Templates
    BY <1>1
  <2>2. QED
    BY <2>1 DEF Templates, Filled, Report, Reports, CleanReports
<1>4. [i \in DOMAIN b.appends |-> Filled("append", b.appends[i], args)] \in Seq(CleanReports)
  BY <1>1, <1>2
<1>5. [i \in DOMAIN b.notify |-> Filled("notice", b.notify[i], args)] \in Seq(CleanReports)
  BY <1>1, <1>3
<1>6. QED
  BY <1>4, <1>5 DEF ReportsOf

(* Going on from a write of such a bundle.                                  *)
LEMMA OnwardClean ==
  ASSUME NEW s \in Sessions, s.at = "writes", s.next \in 1 .. Len(Bundles[s.bundle].writes),
         NEW rows \in Seq(CleanRows), NEW touched \in SUBSET Files, NEW on,
         on = Onward(s, rows, touched),
         Validates(Bundles[s.bundle]), BundleShape(Bundles[s.bundle]),
         Bundles[s.bundle].args \subseteq DOMAIN s.args
  PROVE  CleanSession(on)
<1>1. ReportsOf(Bundles[s.bundle], s.args) \in Seq(CleanReports)
  BY ReportsClean
<1>2. QED
  BY <1>1 DEF Onward, ToLines, CleanSession

(* More calls do not make the earlier ones valid.                           *)
LEMMA ValidatedBefore ==
  ASSUME TypeInv, [Next]_vars, AllValidated'
  PROVE  AllValidated
<1>1. CASE called' = called
  BY <1>1 DEF AllValidated, Declared
<1>2. CASE \E c \in Calls : Call(c)
  <2>1. PICK c \in Calls : called' = Append(called, c)
    BY <1>2 DEF Call
  <2>2. called \in Seq(Calls)
    BY DEF TypeInv, TypeOK
  <2>3. \A i \in DOMAIN called : i \in DOMAIN called' /\ called'[i] = called[i]
    BY <2>1, <2>2
  <2>4. QED
    BY <2>3 DEF AllValidated, Declared
<1>3. QED
  BY <1>1, <1>2 DEF Next, vars, StartWrite, FinishWrite, AppendEdge, AppendRow, AppendReport,
     Return, Look, OwnerReads, OwnerWritesFile, OwnerLogs, OwnerReports, OpenFile, Killed

(* A call has been made, and has its arguments, until it returns.           *)
LEMMA CalledNext ==
  ASSUME TypeInv, Called(session), [Next]_vars
  PROVE  Called(session)'
<1>1. CASE called' = called /\ session' = session
  BY <1>1 DEF Called
<1>2. CASE called' = called /\ session'.at # "writes"
  BY <1>2 DEF Called
<1>3. CASE \E c \in Calls : Call(c)
  <2>1. PICK c \in Calls : Call(c)
    BY <1>3
  <2>2. called \in Seq(Calls) /\ called' = Append(called, c) /\ session.at = "idle"
    BY <2>1 DEF Call, TypeInv, TypeOK
  <2>3. PICK n : n = Len(called) + 1
    OBVIOUS
  <2>4. n \in DOMAIN called' /\ called'[n] = c
    BY <2>2, <2>3
  <2>5. session'.at = "writes" => /\ session'.bundle = c.bundle /\ session'.args = c.args
                                  /\ Admitted(Bundles[c.bundle], c.args)
    BY <2>1, <2>2 DEF Call, ToLines
  <2>6. QED
    BY <2>4, <2>5 DEF Called, Admitted
<1>4. CASE \E rows \in Seq(Rows), touched \in SUBSET Files :
              /\ session.at = "writes" /\ called' = called
              /\ session' = Onward(session, rows, touched)
  <2>1. session \in Sessions /\ session.next \in 1 .. Len(Bundles[session.bundle].writes)
    BY <1>4 DEF TypeInv, TypeOK
  <2>2. session'.at = "writes" => session'.bundle = session.bundle /\ session'.args = session.args
    BY <1>4, <2>1, OnwardTyped
  <2>3. QED
    BY <1>4, <2>2 DEF Called
<1>5. CASE StartWrite
  <2>1. session.at = "writes" /\ called' = called
    BY <1>5 DEF StartWrite
  <2>2. session.rows \in Seq(Rows) /\ session.touched \in SUBSET Files
    BY <2>1, WritingFields DEF TypeInv, TypeOK
  <2>3. session' = session \/ session' = Onward(session, session.rows, session.touched)
    BY <1>5 DEF StartWrite
  <2>4. QED
    BY <1>1, <1>4, <2>1, <2>2, <2>3
<1>6. CASE FinishWrite
  <2>1. PICK c : c = change["session"]
    OBVIOUS
  <2>2. session.at = "writes" /\ called' = called
    BY <1>6, WriteTyped DEF FinishWrite, TypeInv, Tied, Busy, Procs
  <2>3. session.rows \in Seq(Rows) /\ session.touched \in SUBSET Files
    BY <2>2, WritingFields DEF TypeInv, TypeOK
  <2>4. ChangeOK(c) /\ c.at # "none"
    BY <1>6, <2>1, WriteTyped DEF FinishWrite, TypeInv, TypeOK, Procs
  <2>5. Row(c.file, c.key, c.old, c.value) \in Rows /\ c.file \in Files
    BY <2>4, ChangeFields, RowTyped
  <2>6. PICK rows \in Seq(Rows), touched \in SUBSET Files :
           session' = Onward(session, rows, touched)
    <3>1. PICK rows : rows = IF Changed(c) /\ c.file # "MANIFEST"
                             THEN Append(session.rows, Row(c.file, c.key, c.old, c.value))
                             ELSE session.rows
      OBVIOUS
    <3>2. PICK touched : touched = IF Changed(c) THEN session.touched \cup {c.file}
                                   ELSE session.touched
      OBVIOUS
    <3>3. rows \in Seq(Rows) /\ touched \in SUBSET Files
      BY <2>3, <2>5, <3>1, <3>2
    <3>4. session' = Onward(session, rows, touched)
      BY <1>6, <2>1, <3>1, <3>2 DEF FinishWrite
    <3>5. QED
      BY <3>3, <3>4
  <2>7. QED
    BY <1>4, <2>2, <2>6
<1>7. CASE AppendEdge \/ AppendRow \/ AppendReport \/ Return
  <2>1. session.at = "lines" /\ session \in Sessions /\ called' = called
    BY <1>7 DEF AppendEdge, AppendRow, AppendReport, Return, TypeInv, TypeOK
  <2>2. session = [at |-> "lines", edges |-> session.edges, rows |-> session.rows,
                   due |-> session.due]
    BY <2>1, LoggingFields
  <2>3. session'.at # "writes"
    BY <1>7, <2>2 DEF AppendEdge, AppendRow, AppendReport, Return, Idle
  <2>4. QED
    BY <1>2, <2>1, <2>3
<1>8. CASE \E p \in Procs : Killed(p)
  BY <1>1, <1>2, <1>8 DEF Killed, Idle
<1>9. CASE \/ \E o \in OwnerWrites : Look(o)
           \/ OwnerReads \/ OwnerWritesFile \/ OwnerLogs \/ OwnerReports
           \/ \E p \in Procs : OpenFile(p)
           \/ UNCHANGED vars
  BY <1>1, <1>9 DEF Look, OwnerReads, OwnerWritesFile, OwnerLogs, OwnerReports, OpenFile, vars
<1>10. QED
  BY <1>3, <1>5, <1>6, <1>7, <1>8, <1>9 DEF Next

(* A row of a clean value is clean.                                        *)
LEMMA RowClean ==
  ASSUME NEW f \in Files, NEW k \in Texts, NEW old \in Texts, NEW v \in Texts, v # Unresolved
  PROVE  Row(f, k, old, v) \in CleanRows
  BY RowTyped DEF CleanRows, Row

(* A call that begins has no row yet.                                       *)
LEMMA CallClean ==
  ASSUME TypeInv, Clean, AllValidated', NEW c \in Calls, Call(c)
  PROVE  Clean'
<1>1. CleanSession(session')
  <2>1. PICK s : s = [at |-> "writes", bundle |-> c.bundle, args |-> c.args, next |-> 1,
                      rows |-> <<>>, touched |-> {}]
    OBVIOUS
  <2>2. \/ session' = session
        \/ /\ Declared(c.bundle) /\ Admitted(Bundles[c.bundle], c.args)
           /\ session' = ToLines(s, <<>>, {}) \/ session' = s
    BY <2>1 DEF Call
  <2>3. CASE session' = session
    BY <2>3 DEF Clean
  <2>4. CASE session' = s
    BY <2>1, <2>4 DEF CleanSession
  <2>5. CASE /\ Declared(c.bundle) /\ Admitted(Bundles[c.bundle], c.args)
             /\ session' = ToLines(s, <<>>, {})
    <3>1. PICK n : n = Len(called) + 1
      OBVIOUS
    <3>2. n \in DOMAIN called' /\ called'[n] = c
      BY <3>1 DEF Call, TypeInv, TypeOK
    <3>3. /\ Validates(Bundles[c.bundle]) /\ BundleShape(Bundles[c.bundle])
          /\ Bundles[c.bundle].args \subseteq DOMAIN c.args
      BY <2>5, <3>2, BundleAssumption DEF AllValidated, Declared, Admitted
    <3>4. ReportsOf(Bundles[c.bundle], c.args) \in Seq(CleanReports)
      BY <3>3, ReportsClean
    <3>5. QED
      BY <2>1, <2>5, <3>4 DEF ToLines, CleanSession
  <2>6. QED
    BY <2>2, <2>3, <2>4, <2>5
<1>2. QED
  BY <1>1 DEF Call, Clean, CleanDisk, CleanChanges, CleanOwner, CleanLogs, logs

(* A file is read while nobody's value is a placeholder.                    *)
LEMMA ReadClean ==
  ASSUME TypeInv, Clean, NEW p \in Procs, NEW f \in DOMAIN disk, NEW k, NEW v, NEW old,
         ReadFile(p, f, k, v, old), v # Unresolved
  PROVE  CleanChanges'
<1>1. PICK c : c = [at |-> "read", file |-> f, key |-> k, value |-> v,
                    none |-> ReturnsNone(f, disk[f], k), old |-> old,
                    content |-> ContentRead(p, f)]
  OBVIOUS
<1>2. change' = [change EXCEPT ![p] = c] /\ DOMAIN change = Procs
  BY <1>1 DEF ReadFile, TypeInv, TypeOK
<1>3. c.value # Unresolved /\ c.content = disk[f]
  BY <1>1 DEF ContentRead
<1>4. \A x \in DOMAIN c.content : c.content[x] # Unresolved
  BY <1>3 DEF Clean, CleanDisk
<1>5. QED
  BY <1>2, <1>3, <1>4 DEF Clean, CleanChanges

(* The next field of a bundle that passes.                                  *)
LEMMA StartClean ==
  ASSUME TypeInv, Clean, AllValidated, Called(session), StartWrite
  PROVE  Clean'
<1>1. PICK w : w = Bundles[session.bundle].writes[session.next]
  OBVIOUS
<1>2. /\ session.at = "writes" /\ session \in Sessions
      /\ session.next \in 1 .. Len(Bundles[session.bundle].writes)
  BY DEF StartWrite, TypeInv, TypeOK
<1>3. /\ Validates(Bundles[session.bundle]) /\ BundleShape(Bundles[session.bundle])
      /\ Bundles[session.bundle].args \subseteq DOMAIN session.args
  BY <1>2, BundleValidates
<1>4. w \in ToSet(Bundles[session.bundle].writes) /\ session.touched \in SUBSET Files
  BY <1>1, <1>2, WritingFields
<1>5. w.expr.kind = "arg" => w.expr.text \in DOMAIN session.args
  BY <1>3, <1>4 DEF Validates
<1>6. Resolved(w.expr, session.args) # Unresolved
  BY <1>1, <1>2, <1>5, ResolvedTyped
<1>7. session.rows \in Seq(CleanRows)
  BY <1>2 DEF Clean, CleanSession
<1>8. CASE w.file \in DOMAIN disk /\ ~GivesUp(w.file, disk[w.file], w.key)
  <2>1. PICK v : v = Resolved(w.expr, session.args)
    OBVIOUS
  <2>2. PICK old : old = OldValue(disk[w.file], w.key)
    OBVIOUS
  <2>3. ReadFile("session", w.file, w.key, v, old) /\ session' = session
    BY <1>1, <1>8, <2>1, <2>2 DEF StartWrite
  <2>4. CleanChanges'
    BY <1>6, <1>8, <2>1, <2>3, ReadClean DEF Procs
  <2>5. QED
    BY <2>3, <2>4 DEF StartWrite, Clean, CleanDisk, CleanSession, CleanOwner, CleanLogs, logs
<1>9. CASE ~(w.file \in DOMAIN disk /\ ~GivesUp(w.file, disk[w.file], w.key))
  <2>1. session' = Onward(session, session.rows, session.touched) /\ change' = change
    BY <1>1, <1>9 DEF StartWrite
  <2>2. CleanSession(session')
    BY <1>2, <1>3, <1>4, <1>7, <2>1, OnwardClean
  <2>3. QED
    BY <2>1, <2>2 DEF StartWrite, Clean, CleanDisk, CleanChanges, CleanOwner, CleanLogs, logs
<1>10. QED
  BY <1>8, <1>9

(* Opening a file.                                                         *)
LEMMA OpenClean ==
  ASSUME TypeInv, Clean, NEW p \in Procs, OpenFile(p)
  PROVE  Clean'
<1>1. PICK c : c = change[p]
  OBVIOUS
<1>2. PICK o : o = [c EXCEPT !.at = "opened"]
  OBVIOUS
<1>3. c.at = "read" /\ c \in ChangesOf(c.file) /\ DOMAIN change = Procs
  BY <1>1, ChangeFields DEF OpenFile, TypeInv, TypeOK
<1>4. o.value = c.value /\ o.content = c.content
  BY <1>2, <1>3 DEF ChangesOf
<1>5. change' = [change EXCEPT ![p] = o] /\ disk' = [disk EXCEPT ![c.file] = Empty]
  BY <1>1, <1>2 DEF OpenFile
<1>6. CleanChanges'
  BY <1>1, <1>3, <1>4, <1>5 DEF Clean, CleanChanges
<1>7. CleanDisk'
  BY <1>5 DEF Clean, CleanDisk, Empty, TypeInv, TypeOK
<1>8. QED
  BY <1>6, <1>7 DEF OpenFile, Clean, CleanSession, CleanOwner, CleanLogs, logs

(* Writing a file of clean values back with a clean one.                    *)
LEMMA WriteClean ==
  ASSUME TypeInv, Clean, NEW p \in Procs, WriteFile(p)
  PROVE  CleanDisk' /\ CleanChanges' /\ change[p].value # Unresolved
<1>1. PICK c : c = change[p]
  OBVIOUS
<1>2. /\ change' = [change EXCEPT ![p] = NoChange] /\ c.at = "opened"
      /\ disk' = [disk EXCEPT ![c.file] = After(c.content, c.key, c.value)]
      /\ DOMAIN change = Procs /\ DOMAIN disk' = DOMAIN disk
  BY <1>1, WriteTyped DEF WriteFile, TypeInv, TypeOK
<1>3. c.value # Unresolved /\ \A k \in DOMAIN c.content : c.content[k] # Unresolved
  BY <1>1, <1>2 DEF Clean, CleanChanges
<1>4. PICK new : new = After(c.content, c.key, c.value)
  OBVIOUS
<1>5. \A k \in DOMAIN new : new[k] # Unresolved
  BY <1>3, <1>4 DEF After
<1>6. CleanDisk'
  BY <1>2, <1>4, <1>5 DEF Clean, CleanDisk
<1>7. CleanChanges'
  BY <1>2 DEF Clean, CleanChanges, NoChange
<1>8. QED
  BY <1>1, <1>3, <1>6, <1>7

(* The call finishes a write.                                              *)
LEMMA FinishClean ==
  ASSUME TypeInv, Clean, AllValidated, Called(session), FinishWrite
  PROVE  Clean'
<1>1. PICK c : c = change["session"]
  OBVIOUS
<1>2. "session" \in Procs /\ WriteFile("session") /\ session.at = "writes"
  BY WriteTyped DEF FinishWrite, TypeInv, Tied, Busy, Procs
<1>3. /\ session \in Sessions /\ session.touched \in SUBSET Files
      /\ session.next \in 1 .. Len(Bundles[session.bundle].writes)
      /\ session.rows \in Seq(CleanRows)
  BY <1>2, WritingFields DEF TypeInv, TypeOK, Clean, CleanSession
<1>4. Row(c.file, c.key, c.old, c.value) \in CleanRows /\ c.file \in Files
  <2>1. ChangeOK(c) /\ c.at # "none"
    BY <1>1, <1>2, WriteTyped DEF TypeInv, TypeOK
  <2>2. c.value # Unresolved
    BY <1>1, <1>2, WriteClean
  <2>3. QED
    BY <2>1, <2>2, ChangeFields, RowClean
<1>5. PICK rows : rows = IF Changed(c) /\ c.file # "MANIFEST"
                         THEN Append(session.rows, Row(c.file, c.key, c.old, c.value))
                         ELSE session.rows
  OBVIOUS
<1>6. PICK touched : touched = IF Changed(c) THEN session.touched \cup {c.file}
                               ELSE session.touched
  OBVIOUS
<1>7. rows \in Seq(CleanRows) /\ touched \in SUBSET Files
  BY <1>3, <1>4, <1>5, <1>6
<1>8. session' = Onward(session, rows, touched)
  BY <1>1, <1>5, <1>6 DEF FinishWrite
<1>9. CleanSession(session')
  BY <1>2, <1>3, <1>7, <1>8, BundleValidates, OnwardClean
<1>10. CleanDisk' /\ CleanChanges'
  BY <1>2, WriteClean
<1>11. QED
  BY <1>9, <1>10 DEF FinishWrite, Clean, CleanOwner, CleanLogs, logs

(* The lines are added.                                                    *)
LEMMA LinesClean ==
  ASSUME TypeInv, Clean, AppendEdge \/ AppendRow \/ AppendReport \/ Return
  PROVE  Clean'
<1>1. /\ session.at = "lines"
      /\ session.rows \in Seq(CleanRows) /\ session.due \in Seq(CleanReports)
      /\ session = [at |-> "lines", edges |-> session.edges, rows |-> session.rows,
                    due |-> session.due]
      /\ log \in [Procs -> Seq(CleanRows)] /\ reports \in [Procs -> Seq(CleanReports)]
      /\ "session" \in Procs /\ UNCHANGED <<disk, change, owner>>
  BY LoggingFields
  DEF AppendEdge, AppendRow, AppendReport, Return, TypeInv, TypeOK, Clean, CleanSession,
      CleanLogs, Procs
<1>2. CASE AppendEdge
  <2>1. session'.at = "lines" /\ session'.rows = session.rows /\ session'.due = session.due
    BY <1>1, <1>2 DEF AppendEdge
  <2>2. QED
    BY <1>1, <1>2, <2>1
    DEF AppendEdge, Clean, CleanDisk, CleanChanges, CleanSession, CleanOwner, CleanLogs
<1>3. CASE AppendRow
  <2>1. session.rows # <<>>
    BY <1>3 DEF AppendRow, Due
  <2>2. session'.at = "lines" /\ session'.rows = Tail(session.rows) /\ session'.due = session.due
    BY <1>1, <1>3 DEF AppendRow
  <2>3. Tail(session.rows) \in Seq(CleanRows) /\ Head(session.rows) \in CleanRows
    BY <1>1, <2>1
  <2>4. log' \in [Procs -> Seq(CleanRows)]
    <3>1. log' = [log EXCEPT !["session"] = Append(log["session"], Head(session.rows))]
      BY <1>3 DEF AppendRow
    <3>2. Append(log["session"], Head(session.rows)) \in Seq(CleanRows)
      BY <1>1, <2>3
    <3>3. QED
      BY <1>1, <3>1, <3>2
  <2>5. QED
    BY <1>1, <1>3, <2>2, <2>3, <2>4
    DEF AppendRow, Clean, CleanDisk, CleanChanges, CleanSession, CleanOwner, CleanLogs
<1>4. CASE AppendReport
  <2>1. session.due # <<>>
    BY <1>4 DEF AppendReport, Due
  <2>2. session'.at = "lines" /\ session'.rows = session.rows /\ session'.due = Tail(session.due)
    BY <1>1, <1>4 DEF AppendReport
  <2>3. Tail(session.due) \in Seq(CleanReports) /\ Head(session.due) \in CleanReports
    BY <1>1, <2>1
  <2>4. reports' \in [Procs -> Seq(CleanReports)]
    <3>1. PICK line : line = Head(session.due)
      OBVIOUS
    <3>2. PICK new : new = Appended(reports["session"], line)
      OBVIOUS
    <3>3. reports' = [reports EXCEPT !["session"] = new]
      BY <1>4, <3>1, <3>2 DEF AppendReport
    <3>4. new \in Seq(CleanReports)
      BY <1>1, <2>3, <3>1, <3>2 DEF Appended
    <3>5. QED
      BY <1>1, <3>3, <3>4
  <2>5. QED
    BY <1>1, <1>4, <2>2, <2>3, <2>4
    DEF AppendReport, Clean, CleanDisk, CleanChanges, CleanSession, CleanOwner, CleanLogs
<1>5. CASE Return
  BY <1>1, <1>5
  DEF Return, Idle, logs, Clean, CleanDisk, CleanChanges, CleanSession, CleanOwner, CleanLogs
<1>6. QED
  BY <1>2, <1>3, <1>4, <1>5

(* The owner types no placeholder.                                         *)
LEMMA OwnerClean ==
  ASSUME TypeInv, Clean,
         \/ \E o \in OwnerWrites : Look(o)
         \/ OwnerReads \/ OwnerWritesFile \/ OwnerLogs \/ OwnerReports
  PROVE  Clean'
<1>1. CASE \E o \in OwnerWrites : Look(o)
  <2>1. PICK o \in OwnerWrites : Look(o)
    BY <1>1
  <2>2. o.value # Unresolved
    BY TextAssumption DEF Text
  <2>3. CleanOwner'
    BY <2>1, <2>2 DEF Look, Clean, CleanOwner
  <2>4. QED
    BY <2>1, <2>3 DEF Look, Clean, CleanDisk, CleanChanges, CleanSession, CleanLogs, logs
<1>2. CASE OwnerReads
  <2>1. owner.at = "found" /\ owner.value # Unresolved /\ "DISPATCH" \in DOMAIN disk
    BY <1>2 DEF OwnerReads, Clean, CleanOwner, TypeInv, TypeOK, Tied
  <2>2. CASE GivesUp("DISPATCH", disk["DISPATCH"], owner.key)
    BY <1>2, <2>2
    DEF OwnerReads, Idle, Clean, CleanDisk, CleanChanges, CleanSession, CleanOwner, CleanLogs, logs
  <2>3. CASE ~GivesUp("DISPATCH", disk["DISPATCH"], owner.key)
    <3>1. ReadFile("owner", "DISPATCH", owner.key, owner.value, owner.old) /\ owner' = owner
      BY <1>2, <2>3 DEF OwnerReads
    <3>2. CleanChanges'
      BY <2>1, <3>1, ReadClean DEF Procs
    <3>3. QED
      BY <1>2, <3>1, <3>2
      DEF OwnerReads, Clean, CleanDisk, CleanSession, CleanOwner, CleanLogs, logs
  <2>4. QED
    BY <2>2, <2>3
<1>3. CASE OwnerWritesFile
  <2>1. WriteFile("owner") /\ "owner" \in Procs /\ owner.at = "found"
    BY <1>3, WriteTyped DEF OwnerWritesFile, TypeInv, Tied, Busy, Procs
  <2>2. CleanDisk' /\ CleanChanges' /\ owner.value # Unresolved
    BY <2>1, WriteClean DEF Clean, CleanOwner
  <2>3. owner'.value = owner.value
    <3>1. owner = [at |-> owner.at, key |-> owner.key, value |-> owner.value, old |-> owner.old]
      BY <2>1, OwnerFields
    <3>2. QED
      BY <1>3, <3>1 DEF OwnerWritesFile
  <2>4. QED
    BY <1>3, <2>2, <2>3 DEF OwnerWritesFile, Clean, CleanSession, CleanOwner, CleanLogs, logs
<1>4. CASE OwnerLogs
  <2>1. owner.at = "written" /\ owner'.at = "reporting"
    BY <1>4 DEF OwnerLogs
  <2>2. OwnerRow \in CleanRows
    BY <2>1, OwnerFields, RowClean DEF OwnerRow, Files, Clean, CleanOwner
  <2>3. log' = [log EXCEPT !["owner"] = Append(log["owner"], OwnerRow)] /\ "owner" \in Procs
    BY <1>4 DEF OwnerLogs, Procs
  <2>4. log \in [Procs -> Seq(CleanRows)] /\ reports \in [Procs -> Seq(CleanReports)]
    BY DEF Clean, CleanLogs
  <2>5. Append(log["owner"], OwnerRow) \in Seq(CleanRows)
    BY <2>2, <2>3, <2>4
  <2>6. CleanLogs'
    BY <1>4, <2>3, <2>4, <2>5 DEF OwnerLogs, CleanLogs
  <2>7. QED
    BY <1>4, <2>1, <2>6 DEF OwnerLogs, Clean, CleanDisk, CleanChanges, CleanSession, CleanOwner
<1>5. CASE OwnerReports
  <2>1. PICK line : line = Report("append", "AUDIT-LOG", "text")
    OBVIOUS
  <2>2. line \in CleanReports
    BY <2>1, BundleAssumption DEF Report, Reports, CleanReports, Unresolved
  <2>3. reports' = [reports EXCEPT !["owner"] = Append(reports["owner"], line)]
        /\ "owner" \in Procs
    BY <1>5, <2>1 DEF OwnerReports, Procs
  <2>4. log \in [Procs -> Seq(CleanRows)] /\ reports \in [Procs -> Seq(CleanReports)]
    BY DEF Clean, CleanLogs
  <2>5. Append(reports["owner"], line) \in Seq(CleanReports)
    BY <2>2, <2>3, <2>4
  <2>6. CleanLogs'
    BY <1>5, <2>3, <2>4, <2>5 DEF OwnerReports, CleanLogs
  <2>7. QED
    BY <1>5, <2>6
    DEF OwnerReports, Idle, Clean, CleanDisk, CleanChanges, CleanSession, CleanOwner
<1>6. QED
  BY <1>1, <1>2, <1>3, <1>4, <1>5

(* The dead write nothing.                                                 *)
LEMMA KilledClean ==
  ASSUME TypeInv, Clean, NEW p \in Procs, Killed(p)
  PROVE  Clean'
<1>1. CleanChanges'
  BY DEF Killed, TypeInv, TypeOK, Clean, CleanChanges, NoChange
<1>2. CleanSession(session') /\ CleanOwner'
  BY DEF Killed, Idle, Clean, CleanSession, CleanOwner
<1>3. QED
  BY <1>1, <1>2 DEF Killed, Clean, CleanDisk, CleanLogs, logs

(* No step lets a placeholder through.                                      *)
LEMMA ResolvedNext ==
  ASSUME TypeInv, ResolvedInv, [Next]_vars
  PROVE  ResolvedInv'
<1>1. Called(session)'
  BY CalledNext DEF ResolvedInv
<1>2. ASSUME AllValidated' PROVE Clean'
  <2>1. AllValidated /\ Clean /\ Called(session)
    BY <1>2, ValidatedBefore DEF ResolvedInv
  <2>2. CASE UNCHANGED vars
    BY <2>1, <2>2
    DEF vars, Clean, CleanDisk, CleanChanges, CleanSession, CleanOwner, CleanLogs
  <2>3. CASE Next
    BY <1>2, <2>1, <2>3, CallClean, StartClean, OpenClean, FinishClean, LinesClean, OwnerClean,
       KilledClean DEF Next
  <2>4. QED
    BY <2>2, <2>3
<1>3. QED
  BY <1>1, <1>2 DEF ResolvedInv

(* validate-bundles is enough: while only bundles that pass it are called,  *)
(* no placeholder reaches a state file, a row or an appended line.          *)
THEOREM NoPlaceholders == Spec => []ValidatedResolved
<1>1. Init => ResolvedInv
  <2> SUFFICES ASSUME Init PROVE ResolvedInv
    OBVIOUS
  <2>1. CleanDisk
    BY TextAssumption DEF Init, CleanDisk, Text
  <2>2. CleanLogs
    BY DEF Init, CleanLogs
  <2>3. QED
    BY <2>1, <2>2
    DEF Init, ResolvedInv, Called, Clean, CleanChanges, CleanSession, CleanOwner, Idle, NoChange
<1>2. TypeInv /\ ResolvedInv /\ [Next]_vars => ResolvedInv'
  BY ResolvedNext
<1>3. ResolvedInv => ValidatedResolved
  <2>1. ASSUME ResolvedInv, AllValidated
        PROVE  \A f \in DOMAIN disk : \A k \in DOMAIN disk[f] : disk[f][k] # Unresolved
    BY <2>1 DEF ResolvedInv, Clean, CleanDisk
  <2>2. ASSUME ResolvedInv, AllValidated, NEW p \in Procs
        PROVE  /\ \A r \in ToSet(log[p]) : r \in CleanRows
               /\ \A l \in ToSet(reports[p]) : l \in CleanReports
    BY <2>2 DEF ResolvedInv, Clean, CleanLogs, ToSet
  <2>3. ASSUME ResolvedInv, AllValidated, NEW p \in Procs
        PROVE  /\ \A r \in ToSet(log[p]) : r.new # Unresolved
               /\ \A l \in ToSet(reports[p]) : l.kind = "append" => l.what # Unresolved
    BY <2>2, <2>3 DEF CleanRows, CleanReports
  <2>4. QED
    BY <2>1, <2>3 DEF ValidatedResolved, AllValidated
<1>4. QED
  BY <1>1, <1>2, <1>3, TypeInvariant, PTL DEF Spec
=============================================================================
