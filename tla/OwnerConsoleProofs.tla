-------------------------- MODULE OwnerConsoleProofs --------------------------
(***************************************************************************)
(* What TLC checks of OwnerConsole on two pages and two slugs, for any      *)
(* number of them, of frames and of scripts that are killed.                *)
(***************************************************************************)
EXTENDS OwnerConsole, FiniteSetTheorems, SequenceTheorems, TLAPS

-----------------------------------------------------------------------------
(* WHERE A COMMAND MAY BE                                                   *)

Tables == [Slugs -> Row]

(* The steps that the command of a job goes through, "exit" the last.       *)
Staged(j) ==
    /\ j.cmd \in {"none", "report", "archive", "resign", "pause", "unpause",
                  "approve", "decline", "done"}
    /\ j.cmd = "none" => j = Idle
    /\ j.cmd = "report" => j.step \in {"running", "exit"}
    /\ j.cmd = "archive" => j.step \in {"load", "store", "exit"}
    /\ j.cmd = "resign" => j.step \in {"sign", "exit"}
    /\ j.cmd \in {"pause", "unpause"} => j.step \in {"check", "load", "store", "log", "exit"}
    /\ j.cmd = "approve" => j.step \in {"check", "copy", "find", "load", "insert", "store",
                                        "rollback", "remove", "log", "exit"}
    /\ j.cmd = "decline" => j.step \in {"check", "confirm", "remove", "log", "exit"}
    /\ j.cmd = "done" => j.step \in {"check", "confirm", "loadnotices", "storenotices",
                                     "resolve", "hold", "load", "store", "log", "exit"}

(* The fields of a job.                                                     *)
Fields(j) ==
    /\ j = [cmd |-> j.cmd, slug |-> j.slug, step |-> j.step, line |-> j.line,
            read |-> j.read, code |-> j.code]
    /\ j.cmd \in ReadWrite => j.slug \in Slugs

(* What a script has read and is about to write back.                       *)
Carries(j) ==
    /\ j.step = "store" => j.read \in Tables
    /\ j.step = "storenotices" => j.read \in Seq(Notice) /\ Len(j.read) <= MaxNotices

(* A write that is yet to be done by a child of a killed script.            *)
LateWrite(o) ==
    /\ Fields(o) /\ Carries(o)
    /\ o.cmd \in {"pause", "unpause", "approve", "done"}
    /\ o.step = "store" \/ (o.step = "storenotices" /\ o.cmd = "done")

(* The slugs whose row no parser reads.  None ever gets readable or ceases  *)
(* to be.                                                                  *)
Malformed(rs) == {s \in Slugs : rs[s].status = "malformed"}

(* The slugs that have a row.                                               *)
Present(rs) == {s \in Slugs : rs[s].status # "none"}

(* What a job has done so far, with the table rs, the effects d, the audit  *)
(* rows a, the LONGRUNNERs ps and the dropped rows dr.                      *)
Honest(j, rs, d, a, ps, dr) ==
    /\ j.step = "log" => <<j.cmd, j.slug>> \in d
    /\ j.cmd = "approve" /\ j.step = "remove" => <<j.cmd, j.slug>> \in d
    /\ j.cmd \in {"pause", "unpause", "approve"} /\ j.step = "exit" /\ j.code = 0
       => <<j.cmd, j.slug>> \in a
    /\ j.step = "store" => Malformed(j.read) = Malformed(rs) /\ j.slug \notin Malformed(rs)
    /\ j.cmd = "approve" /\ j.step \in {"find", "load", "insert", "store", "remove"}
       => j.slug \in ps \cup Malformed(rs) \cup dr
    /\ j.cmd = "approve" /\ j.step \in {"insert", "remove"} => j.slug \notin Malformed(rs)
    /\ j.cmd = "approve" /\ j.step = "load" => j.slug \in Present(rs) \cup dr
    /\ j.step = "rollback" => j.slug \in Malformed(rs) \cup dr

JobGood(j, rs, d, a, ps, dr) ==
    Fields(j) /\ Staged(j) /\ Carries(j) /\ Honest(j, rs, d, a, ps, dr)

(* The late writes of killed scripts store a table of the same kind.        *)
WriteGood(o, rs) ==
    /\ LateWrite(o)
    /\ o.step = "store" => Malformed(o.read) = Malformed(rs) /\ o.slug \notin Malformed(rs)

-----------------------------------------------------------------------------
(* THE INVARIANT                                                            *)

LoopGood ==
    /\ loop \in Pages \cup {NoPage}
    /\ loop # NoPage => job[loop].cmd \in InLoop /\ job[loop].step # "exit"

FilesGood ==
    /\ rows \in Tables
    /\ drafts \subseteq Slugs /\ projects \subseteq Slugs
    /\ notices \in Seq(Notice) /\ Len(notices) <= MaxNotices

(* A row that cannot be read has its draft until the owner declines it.     *)
PapersGood ==
    /\ Slugs \subseteq drafts \cup projects \cup Declined \cup dropped
    /\ Malformed(rows) \subseteq drafts \cup Declined

LinesGood ==
    /\ conn \in [Pages -> [at : {"off", "asked", "on"}, rw : BOOLEAN]]
    /\ inbox \in [Pages -> Seq(Frame)]

JobsGood ==
    /\ job = [p \in Pages |-> job[p]]
    /\ \A p \in Pages : JobGood(job[p], rows, did, audit, projects, dropped)
    /\ \A o \in orphans : WriteGood(o, rows)

ConsoleInv ==
    /\ LoopGood /\ FilesGood /\ PapersGood /\ LinesGood /\ JobsGood
    /\ RowsTellTruth

-----------------------------------------------------------------------------
(* LEMMAS                                                                   *)

(* The step that comes after the one at place i of a script.                *)
LEMMA AfterPlace ==
  ASSUME NEW script, NEW i \in DOMAIN script,
         \A k \in DOMAIN script : script[k] = script[i] => k = i
  PROVE  After(script, script[i]) = IF i = Len(script) THEN "exit" ELSE script[i + 1]
<1>1. (CHOOSE k \in DOMAIN script : script[k] = script[i]) = i
  OBVIOUS
<1>2. QED
  BY <1>1 DEF After

(* The order of the steps of nightclaw-admin.sh, as Script lists them.      *)
LEMMA FollowingIs ==
  /\ \A cmd \in {"pause", "unpause"} :
        /\ Following(cmd, "check") = "load"
        /\ Following(cmd, "store") = "log"
        /\ Following(cmd, "log") = "exit"
  /\ Following("approve", "check") = "copy"
  /\ Following("approve", "copy") = "find"
  /\ Following("approve", "find") = "load"
  /\ Following("approve", "store") = "remove"
  /\ Following("approve", "remove") = "log"
  /\ Following("approve", "log") = "exit"
  /\ Following("decline", "check") = "confirm"
  /\ Following("decline", "confirm") = "remove"
  /\ Following("decline", "remove") = "log"
  /\ Following("decline", "log") = "exit"
  /\ Following("done", "check") = "confirm"
  /\ Following("done", "confirm") = "loadnotices"
  /\ Following("done", "storenotices") = "resolve"
  /\ Following("done", "resolve") = "hold"
  /\ Following("done", "hold") = "load"
  /\ Following("done", "store") = "log"
  /\ Following("done", "log") = "exit"
<1>1. ASSUME NEW cmd \in {"pause", "unpause"}
      PROVE /\ Following(cmd, "check") = "load"
            /\ Following(cmd, "store") = "log"
            /\ Following(cmd, "log") = "exit"
  <2> DEFINE script == <<"check", "load", "store", "log">>
  <2>1. Script[cmd] = script
    BY DEF Script
  <2>2. Len(script) = 4 /\ DOMAIN script = 1 .. 4
    OBVIOUS
  <2>5. /\ script[1] = "check" /\ script[2] = "load" /\ script[3] = "store" /\ script[4] = "log"
    OBVIOUS
  <2> HIDE DEF script
  <2>6. \A i, k \in 1 .. 4 : script[k] = script[i] => k = i
    BY <2>5
  <2>3. \A i \in 1 .. 4 : After(script, script[i]) = IF i = 4 THEN "exit" ELSE script[i + 1]
    BY <2>2, <2>6, AfterPlace
  <2>4. QED
    BY <2>1, <2>3, <2>5 DEF Following
<1>2. /\ Following("approve", "check") = "copy"
      /\ Following("approve", "copy") = "find"
      /\ Following("approve", "find") = "load"
      /\ Following("approve", "store") = "remove"
      /\ Following("approve", "remove") = "log"
      /\ Following("approve", "log") = "exit"
  <2> DEFINE script == <<"check", "copy", "find", "load", "store", "remove", "log">>
  <2>1. Script["approve"] = script
    BY DEF Script
  <2>2. Len(script) = 7 /\ DOMAIN script = 1 .. 7
    OBVIOUS
  <2>5. /\ script[1] = "check" /\ script[2] = "copy" /\ script[3] = "find"
        /\ script[4] = "load" /\ script[5] = "store" /\ script[6] = "remove"
        /\ script[7] = "log"
    OBVIOUS
  <2> HIDE DEF script
  <2>6. \A i, k \in 1 .. 7 : script[k] = script[i] => k = i
    BY <2>5
  <2>3. \A i \in 1 .. 7 : After(script, script[i]) = IF i = 7 THEN "exit" ELSE script[i + 1]
    BY <2>2, <2>6, AfterPlace
  <2>4. QED
    BY <2>1, <2>3, <2>5 DEF Following
<1>3. /\ Following("decline", "check") = "confirm"
      /\ Following("decline", "confirm") = "remove"
      /\ Following("decline", "remove") = "log"
      /\ Following("decline", "log") = "exit"
  <2> DEFINE script == <<"check", "confirm", "remove", "log">>
  <2>1. Script["decline"] = script
    BY DEF Script
  <2>2. Len(script) = 4 /\ DOMAIN script = 1 .. 4
    OBVIOUS
  <2>5. /\ script[1] = "check" /\ script[2] = "confirm" /\ script[3] = "remove"
        /\ script[4] = "log"
    OBVIOUS
  <2> HIDE DEF script
  <2>6. \A i, k \in 1 .. 4 : script[k] = script[i] => k = i
    BY <2>5
  <2>3. \A i \in 1 .. 4 : After(script, script[i]) = IF i = 4 THEN "exit" ELSE script[i + 1]
    BY <2>2, <2>6, AfterPlace
  <2>4. QED
    BY <2>1, <2>3, <2>5 DEF Following
<1>4. /\ Following("done", "check") = "confirm"
      /\ Following("done", "confirm") = "loadnotices"
      /\ Following("done", "storenotices") = "resolve"
      /\ Following("done", "resolve") = "hold"
      /\ Following("done", "hold") = "load"
      /\ Following("done", "store") = "log"
      /\ Following("done", "log") = "exit"
  <2> DEFINE script == <<"check", "confirm", "loadnotices", "storenotices", "resolve",
                         "hold", "load", "store", "log">>
  <2>1. Script["done"] = script
    BY DEF Script
  <2>2. Len(script) = 9 /\ DOMAIN script = 1 .. 9
    OBVIOUS
  <2>5. /\ script[1] = "check" /\ script[2] = "confirm" /\ script[3] = "loadnotices"
        /\ script[4] = "storenotices" /\ script[5] = "resolve" /\ script[6] = "hold"
        /\ script[7] = "load" /\ script[8] = "store" /\ script[9] = "log"
    OBVIOUS
  <2> HIDE DEF script
  <2>6. \A i, k \in 1 .. 9 : script[k] = script[i] => k = i
    BY <2>5
  <2>3. \A i \in 1 .. 9 : After(script, script[i]) = IF i = 9 THEN "exit" ELSE script[i + 1]
    BY <2>2, <2>6, AfterPlace
  <2>4. QED
    BY <2>1, <2>3, <2>5 DEF Following
<1>5. QED
  BY <1>1, <1>2, <1>3, <1>4

(* The job j at another step, with what it has read and the code of its end. *)
Moved(j, step, read, code) ==
    [cmd |-> j.cmd, slug |-> j.slug, step |-> step, line |-> j.line,
     read |-> read, code |-> code]

(* A job's record, changed field by field.                                  *)
LEMMA MovedFields ==
  ASSUME NEW j, NEW step, NEW read, Fields(j)
  PROVE  /\ [j EXCEPT !.step = step, !.read = read] = Moved(j, step, read, j.code)
         /\ [j EXCEPT !.step = step] = Moved(j, step, j.read, j.code)
<1>1. PICK cmd, slug, at, line, has, ended :
         j = [cmd |-> cmd, slug |-> slug, step |-> at, line |-> line,
              read |-> has, code |-> ended]
  BY DEF Fields
<1>2. [j EXCEPT !.step = step] = Moved(j, step, j.read, j.code)
  BY <1>1 DEF Moved
<1>3. PICK k : k = [j EXCEPT !.step = step]
  OBVIOUS
<1>4. k = [cmd |-> cmd, slug |-> slug, step |-> step, line |-> line, read |-> has, code |-> ended]
  BY <1>1, <1>3
<1>5. [j EXCEPT !.step = step, !.read = read] = [k EXCEPT !.read = read]
  BY <1>3
<1>6. [k EXCEPT !.read = read] = Moved(j, step, read, j.code)
  BY <1>1, <1>4 DEF Moved
<1>7. QED
  BY <1>2, <1>5, <1>6

(* A job's record with a step and the code of its end.                      *)
LEMMA FailedFields ==
  ASSUME NEW j, NEW step, NEW code, Fields(j)
  PROVE  [j EXCEPT !.step = step, !.code = code] = Moved(j, step, j.read, code)
<1>1. PICK cmd, slug, at, line, has, ended :
         j = [cmd |-> cmd, slug |-> slug, step |-> at, line |-> line,
              read |-> has, code |-> ended]
  BY DEF Fields
<1>2. PICK k : k = [j EXCEPT !.step = step]
  OBVIOUS
<1>3. k = [cmd |-> cmd, slug |-> slug, step |-> step, line |-> line, read |-> has, code |-> ended]
  BY <1>1, <1>2
<1>4. [j EXCEPT !.step = step, !.code = code] = [k EXCEPT !.code = code]
  BY <1>2
<1>5. [k EXCEPT !.code = code] = Moved(j, step, j.read, code)
  BY <1>1, <1>3 DEF Moved
<1>6. QED
  BY <1>4, <1>5

(* The fields of a job that has moved.                                      *)
LEMMA MovedIs ==
  ASSUME NEW j, NEW step, NEW read, NEW code
  PROVE  /\ Moved(j, step, read, code).cmd = j.cmd
         /\ Moved(j, step, read, code).slug = j.slug
         /\ Moved(j, step, read, code).step = step
         /\ Moved(j, step, read, code).read = read
         /\ Moved(j, step, read, code).code = code
         /\ (j.cmd \in ReadWrite => j.slug \in Slugs) => Fields(Moved(j, step, read, code))
  BY DEF Moved, Fields

(* The steps Go and Fail of a script as the record that they leave.         *)
LEMMA GoMoves ==
  ASSUME JobsGood, NEW p \in Pages, Go(p)
  PROVE  job' = [job EXCEPT ![p] =
                    Moved(job[p], Following(job[p].cmd, job[p].step), <<>>, job[p].code)]
<1> DEFINE step == Following(job[p].cmd, job[p].step)
<1>1. [job EXCEPT ![p].step = step, ![p].read = <<>>]
         = [job EXCEPT ![p] = [job[p] EXCEPT !.step = step, !.read = <<>>]]
  BY DEF JobsGood
<1> HIDE DEF step
<1>2. [job[p] EXCEPT !.step = step, !.read = <<>>] = Moved(job[p], step, <<>>, job[p].code)
  BY MovedFields DEF JobsGood, JobGood
<1>3. QED
  BY <1>1, <1>2 DEF Go, step

(* A script that fails.                                                     *)
LEMMA FailMoves ==
  ASSUME JobsGood, NEW p \in Pages, NEW code, Fail(p, code)
  PROVE  job' = [job EXCEPT ![p] = Moved(job[p], "exit", job[p].read, code)]
<1>1. [job EXCEPT ![p].step = "exit", ![p].code = code]
         = [job EXCEPT ![p] = [job[p] EXCEPT !.step = "exit", !.code = code]]
  BY DEF JobsGood
<1>2. [job[p] EXCEPT !.step = "exit", !.code = code] = Moved(job[p], "exit", job[p].read, code)
  BY FailedFields DEF JobsGood, JobGood
<1>3. QED
  BY <1>1, <1>2 DEF Fail

(* The other steps set the step, or the step and what was read.             *)
LEMMA StepMoves ==
  ASSUME JobsGood, NEW p \in Pages, NEW step
  PROVE  /\ [job EXCEPT ![p].step = step]
               = [job EXCEPT ![p] = Moved(job[p], step, job[p].read, job[p].code)]
         /\ \A read : [job EXCEPT ![p].step = step, ![p].read = read]
               = [job EXCEPT ![p] = Moved(job[p], step, read, job[p].code)]
<1>1. [job EXCEPT ![p].step = step] = [job EXCEPT ![p] = [job[p] EXCEPT !.step = step]]
  BY DEF JobsGood
<1>2. [job[p] EXCEPT !.step = step] = Moved(job[p], step, job[p].read, job[p].code)
  BY MovedFields DEF JobsGood, JobGood
<1>3. ASSUME NEW read
      PROVE  [job EXCEPT ![p].step = step, ![p].read = read]
               = [job EXCEPT ![p] = Moved(job[p], step, read, job[p].code)]
  <2>1. [job EXCEPT ![p].step = step, ![p].read = read]
           = [job EXCEPT ![p] = [job[p] EXCEPT !.step = step, !.read = read]]
    BY DEF JobsGood
  <2>2. [job[p] EXCEPT !.step = step, !.read = read] = Moved(job[p], step, read, job[p].code)
    BY MovedFields DEF JobsGood, JobGood
  <2>3. QED
    BY <2>1, <2>2
<1>4. QED
  BY <1>1, <1>2, <1>3

(* What every command may rely on while others write: effects, audit rows   *)
(* and dropped rows stay so, rows that cannot be read stay so, a row that   *)
(* goes is dropped, and the LONGRUNNER of a project whose row can be read   *)
(* and was never dropped is not taken back.                                *)
Steady ==
    /\ did \subseteq did' /\ audit \subseteq audit' /\ dropped \subseteq dropped'
    /\ Malformed(rows') = Malformed(rows)
    /\ Present(rows) \subseteq Present(rows') \cup dropped'
    /\ projects \subseteq projects' \cup Malformed(rows) \cup dropped

(* What a command has done stays done, whoever else is at work.             *)
LEMMA GoodStays ==
  ASSUME NEW j, NEW rs, NEW d, NEW a, NEW ps, NEW dr, NEW rs2, NEW d2, NEW a2, NEW ps2, NEW dr2,
         d \subseteq d2, a \subseteq a2, dr \subseteq dr2, Malformed(rs2) = Malformed(rs),
         Present(rs) \subseteq Present(rs2) \cup dr2,
         ps \subseteq ps2 \cup Malformed(rs) \cup dr, JobGood(j, rs, d, a, ps, dr)
  PROVE  JobGood(j, rs2, d2, a2, ps2, dr2)
  BY DEF JobGood, Honest

(* One command goes on, and the others are as good as they were.            *)
LEMMA OneMoves ==
  ASSUME JobsGood, Steady, NEW p \in Pages, NEW j, job' = [job EXCEPT ![p] = j],
         JobGood(j, rows', did', audit', projects', dropped'),
         \A o \in orphans' : o \in orphans \/ WriteGood(o, rows')
  PROVE  JobsGood'
<1>1. job' = [q \in Pages |-> IF q = p THEN j ELSE job[q]]
  BY DEF JobsGood
<1>2. ASSUME NEW q \in Pages PROVE JobGood(job'[q], rows', did', audit', projects', dropped')
  <2>1. CASE q = p
    BY <1>1, <2>1
  <2>2. CASE q # p
    BY <1>1, <2>2, GoodStays DEF JobsGood, Steady
  <2>3. QED
    BY <2>1, <2>2
<1>3. ASSUME NEW o \in orphans' PROVE WriteGood(o, rows')
  BY <1>3 DEF JobsGood, Steady, WriteGood
<1>4. job' = [q \in Pages |-> job'[q]]
  BY <1>1
<1>5. QED
  BY <1>2, <1>3, <1>4 DEF JobsGood

(* No command goes on.                                                      *)
LEMMA NoneMoves ==
  ASSUME JobsGood, Steady, UNCHANGED job, orphans' \subseteq orphans
  PROVE  JobsGood'
<1>1. ASSUME NEW q \in Pages PROVE JobGood(job'[q], rows', did', audit', projects', dropped')
  BY GoodStays DEF JobsGood, Steady
<1>2. ASSUME NEW o \in orphans' PROVE WriteGood(o, rows')
  BY <1>2 DEF JobsGood, Steady, WriteGood
<1>3. QED
  BY <1>1, <1>2 DEF JobsGood

(* A command outside the loop does not disturb it.                          *)
LEMMA LoopKept ==
  ASSUME LoopGood, JobsGood, NEW p \in Pages, job[p].cmd \notin InLoop, NEW j,
         job' = [job EXCEPT ![p] = j], UNCHANGED loop
  PROVE  LoopGood'
  BY DEF LoopGood, JobsGood

(* A step that only moves one command, and writes no file.                  *)
LEMMA OnlyMoves ==
  ASSUME ConsoleInv, NEW p \in Pages, NEW j, job' = [job EXCEPT ![p] = j],
         JobGood(j, rows, did, audit, projects, dropped), LoopGood', LinesGood',
         \A o \in orphans' : o \in orphans \/ WriteGood(o, rows),
         UNCHANGED <<files, audit, history>>
  PROVE  ConsoleInv'
<1>1. Steady
  BY DEF Steady, files, table, papers, history
<1>2. JobsGood'
  BY <1>1, OneMoves DEF ConsoleInv, files, table, papers, history
<1>3. FilesGood' /\ PapersGood' /\ RowsTellTruth'
  BY DEF ConsoleInv, FilesGood, PapersGood, Declined, RowsTellTruth, files, table, papers, history
<1>4. QED
  BY <1>2, <1>3 DEF ConsoleInv

(* A step of a page's connection alone.                                     *)
LEMMA OnlyLines ==
  ASSUME ConsoleInv, LinesGood', UNCHANGED <<job, loop, orphans, files, audit, history>>
  PROVE  ConsoleInv'
<1>1. Steady
  BY DEF Steady, files, table, papers, history
<1>2. JobsGood'
  BY <1>1, NoneMoves DEF ConsoleInv
<1>3. FilesGood' /\ PapersGood' /\ LoopGood' /\ RowsTellTruth'
  BY DEF ConsoleInv, FilesGood, PapersGood, Declined, LoopGood, RowsTellTruth,
         files, table, papers, history
<1>4. QED
  BY <1>2, <1>3 DEF ConsoleInv

(* A job's record with a step and a slug, as Check leaves it.               *)
LEMMA CheckedFields ==
  ASSUME NEW j, NEW step, NEW slug, Fields(j)
  PROVE  [j EXCEPT !.step = step, !.slug = slug]
            = [cmd |-> j.cmd, slug |-> slug, step |-> step, line |-> j.line,
               read |-> j.read, code |-> j.code]
<1>1. PICK cmd, s, at, line, has, ended :
         j = [cmd |-> cmd, slug |-> s, step |-> at, line |-> line,
              read |-> has, code |-> ended]
  BY DEF Fields
<1>2. PICK k : k = [j EXCEPT !.step = step]
  OBVIOUS
<1>3. k = [cmd |-> cmd, slug |-> s, step |-> step, line |-> line, read |-> has, code |-> ended]
  BY <1>1, <1>2
<1>4. [j EXCEPT !.step = step, !.slug = slug] = [k EXCEPT !.slug = slug]
  BY <1>2
<1>5. [k EXCEPT !.slug = slug] = [cmd |-> cmd, slug |-> slug, step |-> step, line |-> line,
                                  read |-> has, code |-> ended]
  BY <1>1, <1>3
<1>6. QED
  BY <1>1, <1>4, <1>5

-----------------------------------------------------------------------------
(* THE STEPS OF NIGHTCLAW-ADMIN.SH                                          *)

(* Script lines that write no file: the guards, the questions, the reads.   *)
LEMMA CheckKeeps ==
  ASSUME ConsoleInv, NEW p \in Pages, Check(p)
  PROVE  ConsoleInv'
<1>1. /\ JobsGood /\ LoopGood /\ LinesGood /\ FilesGood
      /\ JobGood(job[p], rows, did, audit, projects, dropped)
      /\ job[p].cmd \in ByScript /\ job[p].cmd \notin InLoop
      /\ UNCHANGED <<lines, loop, orphans, files, audit, history>>
  BY DEF ConsoleInv, JobsGood, JobGood, Staged, Idle, Check, ByScript, InLoop
<1>2. LinesGood'
  BY <1>1 DEF LinesGood, lines
<1>3. CASE ~Passes(job[p])
  <2> DEFINE j == Moved(job[p], "exit", job[p].read, 1)
  <2>1. job' = [job EXCEPT ![p] = j]
    BY <1>1, <1>3, FailMoves DEF Check
  <2>2. j.cmd = job[p].cmd /\ j.step = "exit" /\ j.code = 1 /\ Fields(j)
    <3>1. job[p].cmd \in ReadWrite => job[p].slug \in Slugs
      BY <1>1 DEF JobGood, Fields
    <3>2. QED
      BY <3>1, MovedIs
  <2> HIDE DEF j
  <2>3. JobGood(j, rows, did, audit, projects, dropped)
    BY <1>1, <2>2 DEF JobGood, Staged, Carries, Honest, ByScript
  <2>4. LoopGood'
    BY <1>1, <2>1, LoopKept
  <2>5. QED
    BY <1>1, <1>2, <2>1, <2>3, <2>4, OnlyMoves
<1>4. CASE Passes(job[p])
  <2> DEFINE step == Following(job[p].cmd, "check")
             slug == IF job[p].cmd = "done" THEN notices[job[p].line].slug ELSE job[p].slug
             j == [cmd |-> job[p].cmd, slug |-> slug, step |-> step, line |-> job[p].line,
                   read |-> job[p].read, code |-> job[p].code]
  <2>1. [job EXCEPT ![p].step = step, ![p].slug = slug]
           = [job EXCEPT ![p] = [job[p] EXCEPT !.step = step, !.slug = slug]]
    BY <1>1 DEF JobsGood
  <2>2. [job[p] EXCEPT !.step = step, !.slug = slug] = j
    BY <1>1, CheckedFields DEF JobGood
  <2>3. job' = [job EXCEPT ![p] = j]
    <3>1. job' = [job EXCEPT ![p].step = step, ![p].slug = slug]
      BY <1>1, <1>4 DEF Check, JobsGood
    <3>2. QED
      BY <2>1, <2>2, <3>1
  <2>4. slug \in Slugs
    <3>1. job[p].slug \in Slugs
      BY <1>1 DEF JobGood, Fields, ReadWrite
    <3>2. ASSUME job[p].cmd = "done" PROVE notices[job[p].line].slug \in Slugs
      <4>1. job[p].line \in DOMAIN notices
        BY <1>4, <3>2 DEF Passes
      <4>2. notices[job[p].line] \in Notice
        BY <1>1, <4>1 DEF FilesGood
      <4>3. QED
        BY <4>2 DEF Notice
    <3>3. QED
      BY <3>1, <3>2
  <2>5. /\ step = CASE job[p].cmd \in {"pause", "unpause"} -> "load"
                    [] job[p].cmd = "approve" -> "copy"
                    [] OTHER -> "confirm"
    BY <1>1, FollowingIs DEF ByScript
  <2>6. j.cmd = job[p].cmd /\ j.slug = slug /\ j.step = step /\ Fields(j)
    BY <2>4 DEF Fields
  <2> HIDE DEF j
  <2>7. JobGood(j, rows, did, audit, projects, dropped)
    BY <1>1, <2>5, <2>6 DEF JobGood, Staged, Carries, Honest, ByScript
  <2>8. LoopGood'
    BY <1>1, <2>3, LoopKept
  <2>9. QED
    BY <1>1, <1>2, <2>3, <2>7, <2>8, OnlyMoves
<1>5. QED
  BY <1>3, <1>4

(* A script that goes on without a change of the files.                     *)
LEMMA QuietMove ==
  ASSUME ConsoleInv, NEW p \in Pages, job[p].cmd \notin InLoop,
         NEW step, NEW read, NEW code, NEW j, j = Moved(job[p], step, read, code),
         job' = [job EXCEPT ![p] = j],
         Staged(j), Carries(j), Honest(j, rows, did, audit, projects, dropped),
         \A o \in orphans' : o \in orphans \/ WriteGood(o, rows),
         UNCHANGED <<lines, loop, files, audit, history>>
  PROVE  ConsoleInv'
<1>1. JobsGood /\ LoopGood /\ Fields(job[p])
  BY DEF ConsoleInv, JobsGood, JobGood
<1>2. Fields(j)
  BY <1>1, MovedIs DEF Fields
<1>3. JobGood(j, rows, did, audit, projects, dropped)
  BY <1>2 DEF JobGood
<1>4. LoopGood'
  BY <1>1, LoopKept
<1>5. LinesGood'
  BY DEF ConsoleInv, LinesGood, lines
<1>6. QED
  BY <1>3, <1>4, <1>5, OnlyMoves

(* j is the job old at another step.                                        *)
Goes(j, old, step, read, code) ==
    /\ j.cmd = old.cmd /\ j.slug = old.slug /\ j.step = step
    /\ j.read = read /\ j.code = code
    /\ Staged(old) /\ Carries(old)
    /\ old.cmd \in ReadWrite => old.slug \in Slugs

(* The fields of the job that Moved makes.                                  *)
LEMMA MovedPage ==
  ASSUME ConsoleInv, NEW p \in Pages, NEW step, NEW read, NEW code,
         NEW j, j = Moved(job[p], step, read, code)
  PROVE  /\ Fields(j)
         /\ Goes(j, job[p], step, read, code)
         /\ Honest(job[p], rows, did, audit, projects, dropped)
<1>1. JobGood(job[p], rows, did, audit, projects, dropped)
  BY DEF ConsoleInv, JobsGood
<1>2. job[p].cmd \in ReadWrite => job[p].slug \in Slugs
  BY <1>1 DEF JobGood, Fields
<1>3. QED
  BY <1>1, <1>2, MovedIs DEF JobGood, Goes

(* The question at the terminal (cmd_decline, cmd_done).                    *)
LEMMA ConfirmKeeps ==
  ASSUME ConsoleInv, NEW p \in Pages, NEW says \in {"yes", "no", "eof"}, Confirm(p, says)
  PROVE  ConsoleInv'
<1>1. JobsGood /\ Staged(job[p]) /\ job[p].step = "confirm"
  BY DEF ConsoleInv, JobsGood, JobGood, Confirm
<1>2. job[p].cmd \in {"decline", "done"} /\ job[p].cmd \notin InLoop
  BY <1>1 DEF Staged, Idle, InLoop
<1>3. CASE says = "yes"
  <2>1. PICK step : step = Following(job[p].cmd, "confirm")
    OBVIOUS
  <2>2. PICK j : j = Moved(job[p], step, <<>>, job[p].code)
    OBVIOUS
  <2>3. job' = [job EXCEPT ![p] = j]
    BY <1>1, <1>3, <2>1, <2>2, GoMoves DEF Confirm
  <2>4. step = IF job[p].cmd = "decline" THEN "remove" ELSE "loadnotices"
    BY <1>2, <2>1, FollowingIs
  <2>5. Staged(j) /\ Carries(j) /\ Honest(j, rows, did, audit, projects, dropped)
    <3>1. /\ Goes(j, job[p], step, <<>>, job[p].code)
          /\ Honest(job[p], rows, did, audit, projects, dropped)
      BY <2>2, MovedPage
    <3>2. QED
      BY <1>2, <2>4, <3>1 DEF Goes, Staged, Carries, Honest
  <2>6. QED
    BY <1>2, <2>2, <2>3, <2>5, QuietMove DEF Confirm
<1>4. CASE says # "yes"
  <2>1. PICK code \in {0, 1} : Fail(p, code)
    BY <1>4 DEF Confirm
  <2>2. PICK j : j = Moved(job[p], "exit", job[p].read, code)
    OBVIOUS
  <2>3. job' = [job EXCEPT ![p] = j]
    BY <1>1, <2>1, <2>2, FailMoves
  <2>4. Staged(j) /\ Carries(j) /\ Honest(j, rows, did, audit, projects, dropped)
    <3>1. /\ Goes(j, job[p], "exit", job[p].read, code)
          /\ Honest(job[p], rows, did, audit, projects, dropped)
      BY <2>2, MovedPage
    <3>2. QED
      BY <1>2, <3>1 DEF Goes, Staged, Carries, Honest
  <2>5. QED
    BY <1>2, <2>2, <2>3, <2>4, QuietMove DEF Confirm
<1>5. QED
  BY <1>3, <1>4

(* update_project_field reads the table, unless the row is not there or     *)
(* cannot be read.                                                         *)
LEMMA LoadKeeps ==
  ASSUME ConsoleInv, NEW p \in Pages, Load(p)
  PROVE  ConsoleInv'
<1>1. JobsGood /\ Staged(job[p]) /\ job[p].step = "load" /\ FilesGood
  BY DEF ConsoleInv, JobsGood, JobGood, Load
<1>2. job[p].cmd \in {"pause", "unpause", "approve", "done"} /\ job[p].cmd \notin InLoop
  BY <1>1 DEF Staged, Idle, InLoop, ByScript, Load
<1>3. job[p].slug \in Slugs
  BY <1>1, <1>2 DEF JobsGood, JobGood, Fields, ReadWrite, ByScript
<1> DEFINE there == rows[job[p].slug].status
<1>4. CASE there \notin {"none", "malformed"}
  <2>1. PICK j : j = Moved(job[p], "store", rows, job[p].code)
    OBVIOUS
  <2>2. job' = [job EXCEPT ![p].step = "store", ![p].read = rows]
    BY <1>4 DEF Load
  <2>3. job' = [job EXCEPT ![p] = j]
    BY ZenonT(30), <1>1, <2>1, <2>2, StepMoves
  <2>4. job[p].slug \notin Malformed(rows)
    BY <1>4 DEF Malformed
  <2>5. Staged(j) /\ Carries(j) /\ Honest(j, rows, did, audit, projects, dropped)
    <3>1. /\ Goes(j, job[p], "store", rows, job[p].code)
          /\ Honest(job[p], rows, did, audit, projects, dropped)
      BY <2>1, MovedPage
    <3>2. QED
      BY <1>1, <1>2, <2>4, <3>1 DEF Goes, Staged, Carries, Honest, FilesGood
  <2>6. QED
    BY <1>2, <2>1, <2>3, <2>5, QuietMove DEF Load
<1>5. CASE there \in {"none", "malformed"} /\ job[p].cmd = "approve"
  <2>1. PICK j : j = Moved(job[p], "rollback", job[p].read, job[p].code)
    OBVIOUS
  <2>2. job' = [job EXCEPT ![p].step = "rollback"]
    BY <1>5 DEF Load
  <2>3. job' = [job EXCEPT ![p] = j]
    BY <1>1, <2>1, <2>2, StepMoves
  <2>4. Staged(j) /\ Carries(j) /\ Honest(j, rows, did, audit, projects, dropped)
    <3>1. /\ Goes(j, job[p], "rollback", job[p].read, job[p].code)
          /\ Honest(job[p], rows, did, audit, projects, dropped)
      BY <2>1, MovedPage
    <3>2. job[p].slug \in Malformed(rows) \cup dropped
      BY <1>1, <1>3, <1>5, <3>1 DEF Honest, Malformed, Present
    <3>3. QED
      BY <1>5, <3>1, <3>2 DEF Goes, Staged, Carries, Honest
  <2>5. QED
    BY <1>2, <2>1, <2>3, <2>4, QuietMove DEF Load
<1>6. CASE there \in {"none", "malformed"} /\ job[p].cmd # "approve"
  <2>1. PICK j : j = Moved(job[p], "exit", job[p].read, 1)
    OBVIOUS
  <2>2. job' = [job EXCEPT ![p] = j]
    BY <1>1, <1>6, <2>1, FailMoves DEF Load
  <2>3. Staged(j) /\ Carries(j) /\ Honest(j, rows, did, audit, projects, dropped)
    <3>1. /\ Goes(j, job[p], "exit", job[p].read, 1)
          /\ Honest(job[p], rows, did, audit, projects, dropped)
      BY <2>1, MovedPage
    <3>2. QED
      BY <1>2, <3>1 DEF Goes, Staged, Carries, Honest
  <2>4. QED
    BY <1>2, <2>1, <2>2, <2>3, QuietMove DEF Load
<1>7. QED
  BY <1>4, <1>5, <1>6

(* cmd_approve greps for the row: it updates the one it finds.              *)
LEMMA FindKeeps ==
  ASSUME ConsoleInv, NEW p \in Pages, Find(p)
  PROVE  ConsoleInv'
<1>1. JobsGood /\ Staged(job[p]) /\ job[p].step = "find"
  BY DEF ConsoleInv, JobsGood, JobGood, Find
<1>2. job[p].cmd = "approve" /\ job[p].cmd \notin InLoop
  BY <1>1 DEF Staged, Idle, InLoop
<1>3. job[p].slug \in Slugs
  BY <1>1, <1>2 DEF JobsGood, JobGood, Fields, ReadWrite, ByScript
<1>4. PICK read, step :
        /\ step = IF rows[job[p].slug].status = "none" THEN "insert" ELSE "load"
        /\ job' = [job EXCEPT ![p] = Moved(job[p], step, read, job[p].code)]
  <2>1. CASE rows[job[p].slug].status = "none"
    <3>1. job' = [job EXCEPT ![p].step = "insert"]
      BY <2>1 DEF Find
    <3>2. job' = [job EXCEPT ![p] = Moved(job[p], "insert", job[p].read, job[p].code)]
      BY <1>1, <3>1, StepMoves
    <3>3. QED
      BY <2>1, <3>2
  <2>2. CASE rows[job[p].slug].status # "none"
    <3>1. job' = [job EXCEPT ![p] =
                     Moved(job[p], Following(job[p].cmd, job[p].step), <<>>, job[p].code)]
      BY <1>1, <2>2, GoMoves DEF Find
    <3>2. Following(job[p].cmd, job[p].step) = "load"
      BY <1>1, <1>2, FollowingIs
    <3>3. QED
      BY <2>2, <3>1, <3>2
  <2>3. QED
    BY <2>1, <2>2
<1>5. PICK j : j = Moved(job[p], step, read, job[p].code)
  OBVIOUS
<1>6. Staged(j) /\ Carries(j) /\ Honest(j, rows, did, audit, projects, dropped)
  <2>1. /\ Goes(j, job[p], step, read, job[p].code)
        /\ Honest(job[p], rows, did, audit, projects, dropped)
    BY <1>5, MovedPage
  <2>2. /\ step = "insert" => job[p].slug \notin Malformed(rows)
        /\ step = "load" => job[p].slug \in Present(rows)
        /\ step \in {"insert", "load"}
    BY <1>3, <1>4 DEF Malformed, Present
  <2>3. Staged(j) /\ Carries(j)
    BY <1>2, <2>1, <2>2 DEF Goes, Staged, Carries
  <2>4. QED
    BY <1>1, <1>2, <2>1, <2>2, <2>3 DEF Goes, Honest
<1>7. QED
  BY <1>2, <1>4, <1>5, <1>6, QuietMove DEF Find

(* The insertion of cmd_approve reads the table.                            *)
LEMMA InsertKeeps ==
  ASSUME ConsoleInv, NEW p \in Pages, Insert(p)
  PROVE  ConsoleInv'
<1>1. JobsGood /\ Staged(job[p]) /\ job[p].step = "insert" /\ FilesGood
  BY DEF ConsoleInv, JobsGood, JobGood, Insert
<1>2. job[p].cmd = "approve" /\ job[p].cmd \notin InLoop
  BY <1>1 DEF Staged, Idle, InLoop
<1>3. PICK j : j = Moved(job[p], "store", rows, job[p].code)
  OBVIOUS
<1>4. job' = [job EXCEPT ![p] = j]
  BY ZenonT(30), <1>1, <1>3, StepMoves DEF Insert
<1>5. Staged(j) /\ Carries(j) /\ Honest(j, rows, did, audit, projects, dropped)
  <2>1. /\ Goes(j, job[p], "store", rows, job[p].code)
        /\ Honest(job[p], rows, did, audit, projects, dropped)
    BY <1>3, MovedPage
  <2>2. QED
    BY <1>1, <1>2, <2>1 DEF Goes, Staged, Carries, Honest, FilesGood
<1>6. QED
  BY <1>2, <1>3, <1>4, <1>5, QuietMove DEF Insert

(* sed -i reads the notifications.                                          *)
LEMMA LoadNoticesKeeps ==
  ASSUME ConsoleInv, NEW p \in Pages, LoadNotices(p)
  PROVE  ConsoleInv'
<1>1. JobsGood /\ Staged(job[p]) /\ job[p].step = "loadnotices" /\ FilesGood
  BY DEF ConsoleInv, JobsGood, JobGood, LoadNotices
<1>2. job[p].cmd = "done" /\ job[p].cmd \notin InLoop
  BY <1>1 DEF Staged, Idle, InLoop
<1>3. PICK j : j = Moved(job[p], "storenotices", notices, job[p].code)
  OBVIOUS
<1>4. job' = [job EXCEPT ![p] = j]
  BY ZenonT(30), <1>1, <1>3, StepMoves DEF LoadNotices
<1>5. Staged(j) /\ Carries(j) /\ Honest(j, rows, did, audit, projects, dropped)
  <2>1. /\ Goes(j, job[p], "storenotices", notices, job[p].code)
        /\ Honest(job[p], rows, did, audit, projects, dropped)
    BY <1>3, MovedPage
  <2>2. QED
    BY <1>1, <1>2, <2>1 DEF Goes, Staged, Carries, Honest, FilesGood
<1>6. QED
  BY <1>2, <1>3, <1>4, <1>5, QuietMove DEF LoadNotices

(* cmd_done goes on with a project on hold alone.                           *)
LEMMA HoldKeeps ==
  ASSUME ConsoleInv, NEW p \in Pages, Hold(p)
  PROVE  ConsoleInv'
<1>1. JobsGood /\ Staged(job[p]) /\ job[p].step = "hold"
  BY DEF ConsoleInv, JobsGood, JobGood, Hold
<1>2. job[p].cmd = "done" /\ job[p].cmd \notin InLoop
  BY <1>1 DEF Staged, Idle, InLoop
<1>3. PICK step \in {"load", "exit"} : \E read :
         job' = [job EXCEPT ![p] = Moved(job[p], step, read, job[p].code)]
  <2>1. CASE rows[job[p].slug].status = "hold"
    <3>1. job' = [job EXCEPT ![p] =
                     Moved(job[p], Following(job[p].cmd, job[p].step), <<>>, job[p].code)]
      BY <1>1, <2>1, GoMoves DEF Hold
    <3>2. Following(job[p].cmd, job[p].step) = "load"
      BY <1>1, <1>2, FollowingIs
    <3>3. QED
      BY <3>1, <3>2
  <2>2. CASE rows[job[p].slug].status # "hold"
    <3>1. job' = [job EXCEPT ![p].step = "exit"]
      BY <2>2 DEF Hold
    <3>2. QED
      BY <1>1, <3>1, StepMoves
  <2>3. QED
    BY <2>1, <2>2
<1>4. PICK read : job' = [job EXCEPT ![p] = Moved(job[p], step, read, job[p].code)]
  BY <1>3
<1>5. PICK j : j = Moved(job[p], step, read, job[p].code)
  OBVIOUS
<1>6. Staged(j) /\ Carries(j) /\ Honest(j, rows, did, audit, projects, dropped)
  <2>1. /\ Goes(j, job[p], step, read, job[p].code)
        /\ Honest(job[p], rows, did, audit, projects, dropped)
    BY <1>5, MovedPage
  <2>2. QED
    BY <1>2, <2>1 DEF Goes, Staged, Carries, Honest
<1>7. QED
  BY <1>2, <1>4, <1>5, <1>6, QuietMove DEF Hold

(* Twenty seconds are over: the child of bash may still write.              *)
LEMMA TimeoutKeeps ==
  ASSUME ConsoleInv, NEW p \in Pages, Timeout(p)
  PROVE  ConsoleInv'
<1>1. JobsGood /\ job[p].cmd \in ByScript /\ job[p].cmd \notin InLoop
  BY DEF ConsoleInv, Timeout, InLoop, ByScript
<1>2. PICK j : j = Moved(job[p], "exit", job[p].read, 124)
  OBVIOUS
<1>3. job' = [job EXCEPT ![p] = j]
  BY <1>1, <1>2, FailMoves DEF Timeout
<1>4. Staged(j) /\ Carries(j) /\ Honest(j, rows, did, audit, projects, dropped)
  <2>1. /\ Goes(j, job[p], "exit", job[p].read, 124)
        /\ Honest(job[p], rows, did, audit, projects, dropped)
    BY <1>2, MovedPage
  <2>2. QED
    BY <1>1, <2>1 DEF Goes, Staged, Carries, Honest, ByScript
<1>5. ASSUME job[p].step \in {"store", "storenotices"} PROVE WriteGood(job[p], rows)
  <2>1. JobGood(job[p], rows, did, audit, projects, dropped)
    BY <1>1 DEF JobsGood
  <2>2. QED
    BY <1>1, <1>5, <2>1 DEF JobGood, Staged, Honest, WriteGood, LateWrite, ByScript
<1>6. \A o \in orphans' : o \in orphans \/ WriteGood(o, rows)
  BY <1>5 DEF Timeout
<1>7. QED
  BY <1>1, <1>2, <1>3, <1>4, <1>6, QuietMove DEF Timeout

(* A script that goes on and has changed the files.                         *)
LEMMA WritingMove ==
  ASSUME ConsoleInv, NEW p \in Pages, job[p].cmd \notin InLoop,
         NEW step, NEW read, NEW code, NEW j, j = Moved(job[p], step, read, code),
         job' = [job EXCEPT ![p] = j],
         Staged(j), Carries(j), Honest(j, rows', did', audit', projects', dropped'),
         orphans' \subseteq orphans, UNCHANGED <<lines, loop>>,
         Steady, FilesGood', PapersGood', RowsTellTruth'
  PROVE  ConsoleInv'
<1>1. JobsGood /\ LoopGood /\ Fields(job[p])
  BY DEF ConsoleInv, JobsGood, JobGood
<1>2. JobGood(j, rows', did', audit', projects', dropped')
  BY <1>1, MovedIs DEF JobGood, Fields
<1>3. LoopGood'
  BY <1>1, LoopKept
<1>4. LinesGood'
  BY DEF ConsoleInv, LinesGood, lines
<1>5. JobsGood'
  BY <1>1, <1>2, OneMoves
<1>6. QED
  BY <1>3, <1>4, <1>5 DEF ConsoleInv

(* update_project_field, cmd_approve and archive_project write back the     *)
(* table that they read, with one row of it changed.                       *)
LEMMA StoredTable ==
  ASSUME NEW rs \in Tables, NEW slug \in Slugs, slug \notin Malformed(rs),
         NEW cmd \in {"pause", "unpause", "approve", "archive", "done"},
         NEW new, new = [rs EXCEPT ![slug] = Updated(rs[slug], cmd)]
  PROVE  new \in Tables /\ Malformed(new) = Malformed(rs)
<1>1. PICK row : row = Updated(rs[slug], cmd)
  OBVIOUS
<1>2. rs[slug] \in Row /\ rs[slug].status # "malformed"
  BY DEF Tables, Malformed
<1>3. row \in Row /\ row.status # "malformed"
  BY <1>1, <1>2 DEF Updated, Row
<1>4. new = [rs EXCEPT ![slug] = row]
  BY <1>1
<1>5. new \in Tables /\ \A s \in Slugs : new[s] = IF s = slug THEN row ELSE rs[s]
  BY <1>3, <1>4 DEF Tables
<1>6. Malformed(new) = Malformed(rs)
  BY <1>2, <1>3, <1>5 DEF Malformed
<1>7. QED
  BY <1>5, <1>6

(* cmd_approve copies the draft.                                            *)
LEMMA CopyKeeps ==
  ASSUME ConsoleInv, NEW p \in Pages, Copy(p)
  PROVE  ConsoleInv'
<1>1. JobsGood /\ Staged(job[p]) /\ job[p].step = "copy"
  BY DEF ConsoleInv, JobsGood, JobGood, Copy
<1>2. job[p].cmd = "approve" /\ job[p].cmd \notin InLoop
  BY <1>1 DEF Staged, Idle, InLoop
<1>3. job[p].slug \in Slugs
  BY <1>1, <1>2 DEF JobsGood, JobGood, Fields, ReadWrite, ByScript
<1>4. CASE job[p].slug \in drafts
  <2>1. PICK j : j = Moved(job[p], "find", <<>>, job[p].code)
    OBVIOUS
  <2>2. Following(job[p].cmd, job[p].step) = "find"
    BY <1>1, <1>2, FollowingIs
  <2>3. job' = [job EXCEPT ![p] = j]
    BY <1>1, <1>4, <2>1, <2>2, GoMoves DEF Copy
  <2>4. /\ projects' = projects \cup {job[p].slug}
        /\ UNCHANGED <<rows, drafts, notices, did, audit, oks, dropped>>
    BY <1>4 DEF Copy, history
  <2>5. Staged(j) /\ Carries(j) /\ Honest(j, rows', did', audit', projects', dropped')
    <3>1. Goes(j, job[p], "find", <<>>, job[p].code)
      BY <2>1, MovedPage
    <3>2. QED
      BY <1>2, <2>4, <3>1 DEF Goes, Staged, Carries, Honest
  <2>6. Steady
    BY <2>4 DEF Steady
  <2>7. FilesGood' /\ PapersGood' /\ RowsTellTruth'
    BY <1>3, <2>4 DEF ConsoleInv, FilesGood, PapersGood, Declined, RowsTellTruth
  <2>8. QED
    BY <1>2, <2>1, <2>3, <2>5, <2>6, <2>7, WritingMove DEF Copy
<1>5. CASE job[p].slug \notin drafts
  <2>1. PICK j : j = Moved(job[p], "exit", job[p].read, 1)
    OBVIOUS
  <2>2. job' = [job EXCEPT ![p] = j]
    BY <1>1, <1>5, <2>1, FailMoves DEF Copy
  <2>3. Staged(j) /\ Carries(j) /\ Honest(j, rows, did, audit, projects, dropped)
    <3>1. Goes(j, job[p], "exit", job[p].read, 1)
      BY <2>1, MovedPage
    <3>2. QED
      BY <1>2, <3>1 DEF Goes, Staged, Carries, Honest
  <2>4. UNCHANGED <<lines, loop, orphans, files, audit, history>>
    BY <1>5 DEF Copy, files, table, papers
  <2>5. QED
    BY <1>2, <2>1, <2>2, <2>3, <2>4, QuietMove
<1>6. QED
  BY <1>4, <1>5

(* cmd_approve takes its copy back when the row cannot be written: the      *)
(* draft is still there, or the owner has declined it.                     *)
LEMMA RollbackKeeps ==
  ASSUME ConsoleInv, NEW p \in Pages, Rollback(p)
  PROVE  ConsoleInv'
<1>1. JobsGood /\ JobGood(job[p], rows, did, audit, projects, dropped) /\ job[p].step = "rollback"
  BY DEF ConsoleInv, JobsGood, Rollback
<1>2. job[p].cmd = "approve" /\ job[p].cmd \notin InLoop
  BY <1>1 DEF JobGood, Staged, Idle, InLoop
<1>3. job[p].slug \in Malformed(rows) \cup dropped
  BY <1>1 DEF JobGood, Honest
<1>4. PICK j : j = Moved(job[p], "exit", job[p].read, 1)
  OBVIOUS
<1>5. job' = [job EXCEPT ![p] = j]
  BY <1>1, <1>4, FailMoves DEF Rollback
<1>6. /\ projects' = projects \ {job[p].slug}
      /\ UNCHANGED <<rows, drafts, notices, did, audit, oks, dropped>>
  BY DEF Rollback, history
<1>7. Staged(j) /\ Carries(j) /\ Honest(j, rows', did', audit', projects', dropped')
  <2>1. Goes(j, job[p], "exit", job[p].read, 1)
    BY <1>4, MovedPage
  <2>2. QED
    BY <1>2, <2>1 DEF Goes, Staged, Carries, Honest
<1>8. Steady
  BY <1>3, <1>6 DEF Steady
<1>9. FilesGood' /\ PapersGood' /\ RowsTellTruth'
  BY <1>3, <1>6 DEF ConsoleInv, FilesGood, PapersGood, Declined, RowsTellTruth
<1>10. QED
  BY <1>2, <1>4, <1>5, <1>7, <1>8, <1>9, WritingMove DEF Rollback

(* The row is written.                                                      *)
LEMMA StoreKeeps ==
  ASSUME ConsoleInv, NEW p \in Pages, Store(p)
  PROVE  ConsoleInv'
<1>1. /\ JobsGood /\ JobGood(job[p], rows, did, audit, projects, dropped) /\ job[p].step = "store"
      /\ job[p].cmd \in ByScript
  BY DEF ConsoleInv, JobsGood, Store
<1>2. job[p].cmd \in {"pause", "unpause", "approve", "done"} /\ job[p].cmd \notin InLoop
  BY <1>1 DEF JobGood, Staged, InLoop, ByScript
<1>3. job[p].slug \in Slugs
  BY <1>1, <1>2 DEF JobGood, Fields, ReadWrite, ByScript
<1>4. PICK step : step = IF job[p].cmd = "approve" THEN "remove" ELSE "log"
  OBVIOUS
<1>5. PICK j : j = Moved(job[p], step, <<>>, job[p].code)
  OBVIOUS
<1>6. Following(job[p].cmd, job[p].step) = step
  BY <1>1, <1>2, <1>4, FollowingIs
<1>7. job' = [job EXCEPT ![p] = j]
  BY <1>1, <1>5, <1>6, GoMoves DEF Store
<1>8. /\ did' = did \cup {<<job[p].cmd, job[p].slug>>}
      /\ dropped' = dropped \cup Lost(rows')
      /\ UNCHANGED <<drafts, projects, notices, audit, oks>>
  BY DEF Store, papers
<1>9. rows' \in Tables /\ Malformed(rows') = Malformed(rows) /\ job[p].slug \notin Malformed(rows)
  <2>1. /\ job[p].read \in Tables /\ Malformed(job[p].read) = Malformed(rows)
        /\ job[p].slug \notin Malformed(rows)
    BY <1>1 DEF JobGood, Carries, Honest
  <2>2. rows' = [job[p].read EXCEPT ![job[p].slug]
                    = Updated(job[p].read[job[p].slug], job[p].cmd)]
    BY DEF Store
  <2>3. QED
    BY <1>2, <1>3, <2>1, <2>2, StoredTable
<1>10. Staged(j) /\ Carries(j) /\ Honest(j, rows', did', audit', projects', dropped')
  <2>1. /\ Goes(j, job[p], step, <<>>, job[p].code)
        /\ Honest(job[p], rows, did, audit, projects, dropped)
    BY <1>5, MovedPage
  <2>2. Staged(j) /\ Carries(j)
    BY <1>2, <1>4, <2>1 DEF Goes, Staged, Carries
  <2>3. Honest(j, rows', did', audit', projects', dropped')
    BY <1>1, <1>2, <1>4, <1>8, <1>9, <2>1 DEF Goes, Honest
  <2>4. QED
    BY <2>2, <2>3
<1>11. Steady
  BY <1>8, <1>9 DEF Steady, Lost, Present
<1>12. FilesGood' /\ PapersGood' /\ RowsTellTruth'
  BY <1>8, <1>9 DEF ConsoleInv, FilesGood, PapersGood, Declined, RowsTellTruth
<1>13. QED
  BY <1>2, <1>5, <1>7, <1>10, <1>11, <1>12, WritingMove DEF Store

(* A draft is deleted: there is the project's LONGRUNNER, or it is declined. *)
LEMMA RemoveDraftKeeps ==
  ASSUME ConsoleInv, NEW p \in Pages, RemoveDraft(p)
  PROVE  ConsoleInv'
<1>1. JobsGood /\ JobGood(job[p], rows, did, audit, projects, dropped) /\ job[p].step = "remove"
  BY DEF ConsoleInv, JobsGood, RemoveDraft
<1>2. job[p].cmd \in {"approve", "decline"} /\ job[p].cmd \notin InLoop
  BY <1>1 DEF JobGood, Staged, Idle, InLoop
<1>3. job[p].slug \in Slugs
  BY <1>1, <1>2 DEF JobGood, Fields, ReadWrite, ByScript
<1>4. CASE job[p].cmd = "decline" /\ job[p].slug \notin drafts
  <2>1. PICK j : j = Moved(job[p], "exit", job[p].read, 1)
    OBVIOUS
  <2>2. job' = [job EXCEPT ![p] = j]
    BY <1>1, <1>4, <2>1, FailMoves DEF RemoveDraft
  <2>3. Staged(j) /\ Carries(j) /\ Honest(j, rows, did, audit, projects, dropped)
    <3>1. Goes(j, job[p], "exit", job[p].read, 1)
      BY <2>1, MovedPage
    <3>2. QED
      BY <1>2, <3>1 DEF Goes, Staged, Carries, Honest
  <2>4. UNCHANGED <<lines, loop, orphans, files, audit, history>>
    BY <1>4 DEF RemoveDraft, files, table, papers, history
  <2>5. QED
    BY <1>2, <2>1, <2>2, <2>3, <2>4, QuietMove
<1>5. CASE ~(job[p].cmd = "decline" /\ job[p].slug \notin drafts)
  <2>1. PICK j : j = Moved(job[p], "log", <<>>, job[p].code)
    OBVIOUS
  <2>2. Following(job[p].cmd, job[p].step) = "log"
    BY <1>1, <1>2, FollowingIs
  <2>3. job' = [job EXCEPT ![p] = j]
    BY <1>1, <1>5, <2>1, <2>2, GoMoves DEF RemoveDraft
  <2>4. /\ drafts' = drafts \ {job[p].slug}
        /\ did' = IF job[p].cmd = "decline" THEN did \cup {<<"decline", job[p].slug>>} ELSE did
        /\ UNCHANGED <<rows, projects, notices, audit, oks, dropped>>
    BY <1>5 DEF RemoveDraft
  <2>5. /\ <<job[p].cmd, job[p].slug>> \in did'
        /\ job[p].cmd = "approve" => job[p].slug \in (projects \cup dropped) \ Malformed(rows)
    BY <1>1, <1>2, <2>4 DEF JobGood, Honest
  <2>6. Staged(j) /\ Carries(j) /\ Honest(j, rows', did', audit', projects', dropped')
    <3>1. Goes(j, job[p], "log", <<>>, job[p].code)
      BY <2>1, MovedPage
    <3>2. QED
      BY <1>2, <2>5, <3>1 DEF Goes, Staged, Carries, Honest
  <2>7. Steady
    BY <2>4 DEF Steady
  <2>8. FilesGood' /\ RowsTellTruth'
    BY <2>4 DEF ConsoleInv, FilesGood, RowsTellTruth
  <2>9. PapersGood'
    <3>1. CASE job[p].cmd = "approve"
      BY <2>4, <2>5, <3>1 DEF ConsoleInv, PapersGood, Declined
    <3>2. CASE job[p].cmd = "decline"
      BY <1>3, <2>4, <3>2 DEF ConsoleInv, PapersGood, Declined
    <3>3. QED
      BY <1>2, <3>1, <3>2
  <2>10. QED
    BY <1>2, <2>1, <2>3, <2>6, <2>7, <2>8, <2>9, WritingMove DEF RemoveDraft
<1>6. QED
  BY <1>4, <1>5

(* audit_log writes its row: of what has been done, or ADMIN_RESOLVE.       *)
LEMMA LogKeeps ==
  ASSUME ConsoleInv, NEW p \in Pages, Log(p)
  PROVE  ConsoleInv'
<1>1. /\ JobsGood /\ JobGood(job[p], rows, did, audit, projects, dropped)
      /\ job[p].step \in {"resolve", "log"}
  BY DEF ConsoleInv, JobsGood, Log
<1>2. /\ job[p].cmd \in {"pause", "unpause", "approve", "decline", "done"}
      /\ job[p].cmd \notin InLoop
      /\ job[p].step = "resolve" => job[p].cmd = "done"
  BY <1>1 DEF JobGood, Staged, Idle, InLoop
<1>3. PICK step : step = IF job[p].step = "resolve" THEN "hold" ELSE "exit"
  OBVIOUS
<1>4. PICK j : j = Moved(job[p], step, <<>>, job[p].code)
  OBVIOUS
<1>5. Following(job[p].cmd, job[p].step) = step
  BY <1>1, <1>2, <1>3, FollowingIs
<1>6. job' = [job EXCEPT ![p] = j]
  BY <1>1, <1>4, <1>5, GoMoves DEF Log
<1>7. PICK what : /\ what = IF job[p].step = "resolve" THEN "marked" ELSE job[p].cmd
                  /\ audit' = audit \cup {<<what, job[p].slug>>}
  BY DEF Log
<1>8. UNCHANGED <<rows, drafts, projects, notices, did, oks, dropped>>
  BY DEF Log, files, table, papers, history
<1>9. what # "marked" => what = job[p].cmd /\ <<what, job[p].slug>> \in did
  BY <1>1, <1>7 DEF JobGood, Honest
<1>10. Staged(j) /\ Carries(j) /\ Honest(j, rows', did', audit', projects', dropped')
  <2>1. Goes(j, job[p], step, <<>>, job[p].code)
    BY <1>4, MovedPage
  <2>2. job[p].cmd # "done" => what = job[p].cmd
    BY <1>2, <1>7
  <2>3. QED
    BY <1>2, <1>3, <1>7, <1>8, <2>1, <2>2 DEF Goes, Staged, Carries, Honest
<1>11. Steady
  BY <1>7, <1>8 DEF Steady
<1>12. FilesGood' /\ PapersGood' /\ RowsTellTruth'
  <2>1. FilesGood' /\ PapersGood'
    BY <1>8 DEF ConsoleInv, FilesGood, PapersGood, Declined
  <2>2. RowsTellTruth'
    BY <1>7, <1>8, <1>9 DEF ConsoleInv, RowsTellTruth
  <2>3. QED
    BY <2>1, <2>2
<1>13. QED
  BY <1>2, <1>4, <1>6, <1>10, <1>11, <1>12, WritingMove DEF Log

(* sed -i marks a line, or none.                                            *)
LEMMA MarkedNotices ==
  ASSUME NEW ns \in Seq(Notice), NEW i
  PROVE  Marked(ns, i) \in Seq(Notice) /\ Len(Marked(ns, i)) = Len(ns)
<1>1. CASE i \in DOMAIN ns
  <2>1. ns[i] \in Notice
    BY <1>1
  <2>2. [ns[i] EXCEPT !.done = TRUE] \in Notice
    BY <2>1 DEF Notice
  <2>3. [ns EXCEPT ![i] = [ns[i] EXCEPT !.done = TRUE]] \in Seq(Notice)
    BY <1>1, <2>2
  <2>4. QED
    BY <1>1, <2>3 DEF Marked
<1>2. CASE i \notin DOMAIN ns
  BY <1>2 DEF Marked
<1>3. QED
  BY <1>1, <1>2

(* cmd_done writes the notifications back.                                  *)
LEMMA StoreNoticesKeeps ==
  ASSUME ConsoleInv, NEW p \in Pages, StoreNotices(p)
  PROVE  ConsoleInv'
<1>1. JobsGood /\ JobGood(job[p], rows, did, audit, projects, dropped) /\ job[p].step = "storenotices"
  BY DEF ConsoleInv, JobsGood, StoreNotices
<1>2. job[p].cmd = "done" /\ job[p].cmd \notin InLoop
  BY <1>1 DEF JobGood, Staged, Idle, InLoop
<1>3. PICK j : j = Moved(job[p], "resolve", <<>>, job[p].code)
  OBVIOUS
<1>4. Following(job[p].cmd, job[p].step) = "resolve"
  BY <1>1, <1>2, FollowingIs
<1>5. job' = [job EXCEPT ![p] = j]
  BY <1>1, <1>3, <1>4, GoMoves DEF StoreNotices
<1>6. /\ notices' = Marked(job[p].read, job[p].line)
      /\ did \subseteq did'
      /\ UNCHANGED <<rows, drafts, projects, audit, oks, dropped>>
  BY DEF StoreNotices, Mark, table, papers
<1>7. notices' \in Seq(Notice) /\ Len(notices') <= MaxNotices
  BY <1>1, <1>6, MarkedNotices DEF JobGood, Carries
<1>8. Staged(j) /\ Carries(j) /\ Honest(j, rows', did', audit', projects', dropped')
  <2>1. Goes(j, job[p], "resolve", <<>>, job[p].code)
    BY <1>3, MovedPage
  <2>2. QED
    BY <1>2, <2>1 DEF Goes, Staged, Carries, Honest
<1>9. Steady
  BY <1>6 DEF Steady
<1>10. FilesGood' /\ PapersGood' /\ RowsTellTruth'
  BY <1>6, <1>7 DEF ConsoleInv, FilesGood, PapersGood, Declined, RowsTellTruth
<1>11. QED
  BY <1>2, <1>3, <1>5, <1>8, <1>9, <1>10, WritingMove DEF StoreNotices

-----------------------------------------------------------------------------
(* LATE WRITES AND SESSIONS                                                 *)

(* A step of others than the commands of the pages.                         *)
LEMMA OthersMove ==
  ASSUME ConsoleInv, UNCHANGED <<lines, job, loop>>, orphans' \subseteq orphans,
         Steady, FilesGood', PapersGood', RowsTellTruth'
  PROVE  ConsoleInv'
<1>1. JobsGood'
  BY NoneMoves DEF ConsoleInv
<1>2. LoopGood' /\ LinesGood'
  BY DEF ConsoleInv, LoopGood, LinesGood, lines
<1>3. QED
  BY <1>1, <1>2 DEF ConsoleInv

(* The child of a killed script writes.                                     *)
LEMMA LateStoreKeeps ==
  ASSUME ConsoleInv, NEW o \in orphans, LateStore(o)
  PROVE  ConsoleInv'
<1>1. WriteGood(o, rows)
  BY DEF ConsoleInv, JobsGood
<1>2. CASE o.step = "store"
  <2>1. /\ rows' = [o.read EXCEPT ![o.slug] = Updated(o.read[o.slug], o.cmd)]
        /\ did' = did \cup {<<o.cmd, o.slug>>}
        /\ dropped' = dropped \cup Lost(rows')
        /\ UNCHANGED <<drafts, projects, notices, audit, oks>>
    BY <1>2 DEF LateStore, papers
  <2>2. /\ o.read \in Tables /\ Malformed(o.read) = Malformed(rows)
        /\ o.slug \in Slugs /\ o.slug \notin Malformed(rows)
        /\ o.cmd \in {"pause", "unpause", "approve", "archive", "done"}
    BY <1>1, <1>2 DEF WriteGood, LateWrite, Carries, Fields, ReadWrite, ByScript
  <2>3. rows' \in Tables /\ Malformed(rows') = Malformed(rows)
    BY <2>1, <2>2, StoredTable
  <2>4. Steady
    BY <2>1, <2>3 DEF Steady, Lost, Present
  <2>5. FilesGood' /\ PapersGood' /\ RowsTellTruth'
    BY <2>1, <2>3 DEF ConsoleInv, FilesGood, PapersGood, Declined, RowsTellTruth
  <2>6. QED
    BY <2>4, <2>5, OthersMove DEF LateStore
<1>3. CASE o.step # "store"
  <2>1. /\ notices' = Marked(o.read, o.line)
        /\ did \subseteq did'
        /\ UNCHANGED <<rows, drafts, projects, audit, oks, dropped>>
    BY <1>3 DEF LateStore, Mark, papers
  <2>2. notices' \in Seq(Notice) /\ Len(notices') <= MaxNotices
    BY <1>1, <1>3, <2>1, MarkedNotices DEF WriteGood, LateWrite, Carries
  <2>3. Steady
    BY <2>1 DEF Steady
  <2>4. FilesGood' /\ PapersGood' /\ RowsTellTruth'
    BY <2>1, <2>2 DEF ConsoleInv, FilesGood, PapersGood, Declined, RowsTellTruth
  <2>5. QED
    BY <2>3, <2>4, OthersMove DEF LateStore
<1>4. QED
  BY <1>2, <1>3

(* A worker puts a project on hold.                                         *)
LEMMA SessionHoldsKeeps ==
  ASSUME ConsoleInv, NEW s \in Slugs, SessionHolds(s)
  PROVE  ConsoleInv'
<1> DEFINE entry == [slug |-> s, kind |-> "phase", done |-> FALSE]
           row   == [status |-> "hold", approved |-> FALSE]
<1>1. rows \in Tables /\ notices \in Seq(Notice) /\ MaxNotices \in Nat
  BY ConsoleAssumption DEF ConsoleInv, FilesGood
<1>2. /\ rows[s].status = "active" /\ Len(notices) < MaxNotices
      /\ rows' = [rows EXCEPT ![s] = row] /\ notices' = Append(notices, entry)
      /\ UNCHANGED <<drafts, projects, audit, did, oks, dropped>>
  BY DEF SessionHolds, papers, history
<1>3. entry \in Notice /\ row \in Row
  BY DEF Notice, Row
<1>4. notices' \in Seq(Notice) /\ Len(notices') <= MaxNotices
  BY <1>1, <1>2, <1>3
<1>5. rows' \in Tables /\ Malformed(rows') = Malformed(rows) /\ Present(rows) \subseteq Present(rows')
  BY <1>1, <1>2, <1>3 DEF Tables, Malformed, Present
<1>6. Steady
  BY <1>2, <1>5 DEF Steady
<1>7. FilesGood' /\ PapersGood' /\ RowsTellTruth'
  BY <1>2, <1>4, <1>5 DEF ConsoleInv, FilesGood, PapersGood, Declined, RowsTellTruth
<1>8. QED
  BY <1>6, <1>7, OthersMove DEF SessionHolds

(* The manager prunes an entry.                                             *)
LEMMA SessionPrunesKeeps ==
  ASSUME ConsoleInv, NEW i, SessionPrunes(i)
  PROVE  ConsoleInv'
<1>1. notices \in Seq(Notice) /\ MaxNotices \in Nat /\ Len(notices) <= MaxNotices
  BY ConsoleAssumption DEF ConsoleInv, FilesGood
<1>2. /\ i \in 1 .. Len(notices) /\ notices' = RemoveAt(notices, i)
      /\ UNCHANGED <<rows, drafts, projects, audit, did, oks, dropped>>
  BY <1>1 DEF SessionPrunes, table, papers, history
<1>3. PICK a, b : a = SubSeq(notices, 1, i - 1) /\ b = SubSeq(notices, i + 1, Len(notices))
  OBVIOUS
<1>4. a \in Seq(Notice) /\ b \in Seq(Notice) /\ Len(a) = i - 1 /\ Len(b) = Len(notices) - i
  BY <1>1, <1>2, <1>3
<1>5. notices' \in Seq(Notice) /\ Len(notices') <= MaxNotices
  <2>1. notices' = a \o b
    BY <1>2, <1>3 DEF RemoveAt
  <2>2. QED
    BY <1>1, <1>2, <1>4, <2>1
<1>6. Steady
  BY <1>2 DEF Steady
<1>7. FilesGood' /\ PapersGood' /\ RowsTellTruth'
  BY <1>2, <1>5 DEF ConsoleInv, FilesGood, PapersGood, Declined, RowsTellTruth
<1>8. QED
  BY <1>6, <1>7, OthersMove DEF SessionPrunes

-----------------------------------------------------------------------------
(* THE LOOP                                                                 *)

(* A frame is taken from the inbox of a page, or put into it.               *)
LEMMA InboxKept ==
  ASSUME LinesGood, NEW p \in Pages
  PROVE  /\ Take(p) /\ conn' = conn => LinesGood'
         /\ Take(p) => Head(inbox[p]) \in Frame
<1>1. ASSUME Take(p) PROVE Head(inbox[p]) \in Frame /\ Tail(inbox[p]) \in Seq(Frame)
  BY <1>1 DEF LinesGood, Take
<1>2. QED
  BY <1>1 DEF LinesGood, Take

(* A job that starts has done nothing.                                      *)
LEMMA StartKeeps ==
  ASSUME ConsoleInv, NEW p \in Pages, Take(p), conn' = conn, UNCHANGED oks,
         NEW j, job' = [job EXCEPT ![p] = j],
         Fields(j), Staged(j), j.step \in {"running", "check", "load", "sign"},
         j.cmd = "approve" => j.step = "check",
         \/ loop' = loop
         \/ loop' = p /\ j.cmd \in InLoop
  PROVE  ConsoleInv'
<1>1. LinesGood'
  BY InboxKept DEF ConsoleInv
<1>2. JobGood(j, rows, did, audit, projects, dropped)
  BY DEF JobGood, Carries, Honest
<1>3. loop = NoPage
  BY DEF Take
<1>4. LoopGood'
  BY <1>3, ConsoleAssumption DEF LoopGood, ConsoleInv, JobsGood
<1>5. UNCHANGED <<files, audit, history, orphans>>
  BY DEF Take, history
<1>6. QED
  BY <1>1, <1>2, <1>4, <1>5, OnlyMoves

(* The frame starts a process, a script or a command in the loop.           *)
LEMMA StartsKeep ==
  ASSUME ConsoleInv, NEW p \in Pages,
         StartReport(p) \/ StartScript(p) \/ StartInLoop(p)
  PROVE  ConsoleInv'
<1>1. Take(p) /\ conn' = conn /\ UNCHANGED oks
  BY DEF StartReport, StartScript, StartInLoop
<1>2. Head(inbox[p]) \in Frame
  BY <1>1, InboxKept DEF ConsoleInv
<1>3. PICK f : f = Head(inbox[p])
  OBVIOUS
<1>4. f.slug \in Slugs
  BY <1>2, <1>3 DEF Frame
<1>5. CASE StartReport(p)
  <2>1. PICK j : j = [Idle EXCEPT !.cmd = "report", !.step = "running"]
    OBVIOUS
  <2>2. j = [cmd |-> "report", slug |-> NoSlug, step |-> "running", line |-> 0,
             read |-> <<>>, code |-> 0]
    BY <2>1 DEF Idle
  <2>3. job' = [job EXCEPT ![p] = j] /\ loop' = loop
    BY <1>5, <2>1 DEF StartReport
  <2>4. Fields(j) /\ Staged(j) /\ j.step = "running" /\ j.cmd = "report"
    BY <2>2 DEF Fields, Staged, ReadWrite, InLoop, ByScript
  <2>5. QED
    BY <1>1, <2>3, <2>4, StartKeeps
<1>6. CASE StartScript(p)
  <2>1. PICK line : line = IF f.cmd = "done" THEN Min(Waiting(f.slug)) ELSE 0
    OBVIOUS
  <2>2. PICK j : j = [Idle EXCEPT !.cmd = f.cmd, !.slug = f.slug, !.step = "check", !.line = line]
    OBVIOUS
  <2>3. j = [cmd |-> f.cmd, slug |-> f.slug, step |-> "check", line |-> line,
             read |-> <<>>, code |-> 0]
    BY <2>2 DEF Idle
  <2>4. f.cmd \in ByScript /\ job' = [job EXCEPT ![p] = j] /\ loop' = loop
    BY <1>3, <1>6, <2>1, <2>2 DEF StartScript
  <2>5. Fields(j) /\ Staged(j) /\ j.step = "check"
    BY <1>4, <2>3, <2>4 DEF Fields, Staged, ByScript
  <2>6. QED
    BY <1>1, <2>4, <2>5, StartKeeps
<1>7. CASE StartInLoop(p)
  <2>1. PICK step : step = IF f.cmd = "archive" THEN "load" ELSE "sign"
    OBVIOUS
  <2>2. PICK j : j = [Idle EXCEPT !.cmd = f.cmd, !.slug = f.slug, !.step = step]
    OBVIOUS
  <2>3. j = [cmd |-> f.cmd, slug |-> f.slug, step |-> step, line |-> 0, read |-> <<>>, code |-> 0]
    BY <2>2 DEF Idle
  <2>4. f.cmd \in InLoop /\ job' = [job EXCEPT ![p] = j] /\ loop' = p
    BY <1>3, <1>7, <2>1, <2>2 DEF StartInLoop
  <2>5. Fields(j) /\ Staged(j) /\ j.step \in {"load", "sign"} /\ j.cmd = f.cmd
    BY <1>4, <2>1, <2>3, <2>4 DEF Fields, Staged, InLoop
  <2>6. QED
    BY <1>1, <2>4, <2>5, StartKeeps DEF InLoop
<1>8. QED
  BY <1>5, <1>6, <1>7

(* The page is told how its command ended: ok of what the audit log has.    *)
LEMMA AnswerKeeps ==
  ASSUME ConsoleInv, NEW p \in Pages, Answer(p)
  PROVE  ConsoleInv'
<1>1. /\ JobsGood /\ LoopGood /\ FilesGood /\ PapersGood /\ LinesGood /\ RowsTellTruth
      /\ JobGood(job[p], rows, did, audit, projects, dropped)
  BY DEF ConsoleInv, JobsGood
<1>2. /\ job[p].step = "exit" /\ job' = [job EXCEPT ![p] = Idle] /\ loop' = NoPage
      /\ oks' = IF job[p].code = 0 THEN oks \cup {<<job[p].cmd, job[p].slug>>} ELSE oks
      /\ UNCHANGED <<rows, drafts, projects, notices, audit, did, dropped, orphans, conn, inbox>>
  BY DEF Answer, files, table, papers, lines
<1>3. JobGood(Idle, rows, did, audit, projects, dropped)
  BY DEF JobGood, Fields, Staged, Carries, Honest, Idle, ReadWrite, InLoop, ByScript
<1>4. Steady
  BY <1>2 DEF Steady
<1>5. JobsGood'
  BY <1>1, <1>2, <1>3, <1>4, OneMoves
<1>6. RowsTellTruth'
  BY <1>1, <1>2 DEF RowsTellTruth, JobGood, Honest
<1>7. LoopGood' /\ FilesGood' /\ PapersGood' /\ LinesGood'
  BY <1>1, <1>2 DEF LoopGood, FilesGood, PapersGood, Declined, LinesGood
<1>8. QED
  BY <1>5, <1>6, <1>7 DEF ConsoleInv

(* archive_project finds the row, or not.                                   *)
LEMMA ArchiveLoadKeeps ==
  ASSUME ConsoleInv, NEW p \in Pages, ArchiveLoad(p)
  PROVE  ConsoleInv'
<1>1. /\ JobsGood /\ FilesGood /\ LoopGood /\ LinesGood
      /\ JobGood(job[p], rows, did, audit, projects, dropped)
      /\ job[p].cmd = "archive" /\ job[p].step = "load"
  BY DEF ConsoleInv, JobsGood, ArchiveLoad
<1>2. job[p].slug \in Slugs
  BY <1>1 DEF JobGood, Fields, ReadWrite, InLoop
<1>3. LinesGood' /\ UNCHANGED <<orphans, files, audit, history>>
  BY <1>1 DEF LinesGood, lines, ArchiveLoad
<1>4. CASE rows[job[p].slug].status \in {"active", "paused"}
  <2>1. PICK j : j = Moved(job[p], "store", rows, job[p].code)
    OBVIOUS
  <2>2. job' = [job EXCEPT ![p].step = "store", ![p].read = rows] /\ loop' = loop
    BY <1>4 DEF ArchiveLoad
  <2>3. job' = [job EXCEPT ![p] = j]
    BY ZenonT(30), <1>1, <2>1, <2>2, StepMoves
  <2>4. Goes(j, job[p], "store", rows, job[p].code) /\ Fields(j)
    BY <2>1, MovedPage
  <2>5. job[p].slug \notin Malformed(rows)
    BY <1>4 DEF Malformed
  <2>6. JobGood(j, rows, did, audit, projects, dropped)
    BY <1>1, <2>4, <2>5 DEF Goes, JobGood, Staged, Carries, Honest, FilesGood
  <2>7. LoopGood'
    BY <1>1, <2>2, <2>3, <2>4 DEF LoopGood, JobsGood, Goes
  <2>8. QED
    BY <1>3, <2>3, <2>6, <2>7, OnlyMoves
<1>5. CASE rows[job[p].slug].status \notin {"active", "paused"}
  <2>1. PICK j : j = Moved(job[p], "exit", job[p].read, 1)
    OBVIOUS
  <2>2. job' = [job EXCEPT ![p] = j]
    <3>1. job' = [job EXCEPT ![p].step = "exit", ![p].code = 1]
      BY <1>5 DEF ArchiveLoad
    <3>2. Fail(p, 1)
      BY <3>1 DEF Fail
    <3>3. QED
      BY <1>1, <2>1, <3>2, FailMoves
  <2>3. Goes(j, job[p], "exit", job[p].read, 1) /\ Fields(j)
    BY <2>1, MovedPage
  <2>4. JobGood(j, rows, did, audit, projects, dropped)
    BY <1>1, <2>3 DEF Goes, JobGood, Staged, Carries, Honest
  <2>5. LoopGood'
    BY <1>5 DEF LoopGood, ArchiveLoad
  <2>6. QED
    BY <1>3, <2>2, <2>4, <2>5, OnlyMoves
<1>6. QED
  BY <1>4, <1>5

(* archive_project writes the table.                                        *)
LEMMA ArchiveStoreKeeps ==
  ASSUME ConsoleInv, NEW p \in Pages, ArchiveStore(p)
  PROVE  ConsoleInv'
<1>1. /\ JobsGood /\ JobGood(job[p], rows, did, audit, projects, dropped)
      /\ job[p].cmd = "archive" /\ job[p].step = "store"
  BY DEF ConsoleInv, JobsGood, ArchiveStore
<1>2. job[p].slug \in Slugs
  BY <1>1 DEF JobGood, Fields, ReadWrite, InLoop
<1>3. PICK j : j = Moved(job[p], "exit", <<>>, job[p].code)
  OBVIOUS
<1>4. /\ job' = [job EXCEPT ![p].step = "exit", ![p].read = <<>>]
      /\ did' = did \cup {<<"archive", job[p].slug>>}
      /\ rows' = [job[p].read EXCEPT ![job[p].slug]
                     = Updated(job[p].read[job[p].slug], "archive")]
      /\ loop' = NoPage
      /\ dropped' = dropped \cup Lost(rows')
      /\ UNCHANGED <<conn, inbox, orphans, drafts, projects, notices, audit, oks>>
  BY DEF ArchiveStore, papers, lines
<1>5. job' = [job EXCEPT ![p] = j]
  BY ZenonT(30), <1>1, <1>3, <1>4, StepMoves
<1>6. Goes(j, job[p], "exit", <<>>, job[p].code) /\ Fields(j)
  BY <1>3, MovedPage
<1>7. /\ job[p].read \in Tables /\ Malformed(job[p].read) = Malformed(rows)
      /\ job[p].slug \notin Malformed(rows)
  BY <1>1 DEF JobGood, Carries, Honest
<1>8. rows' \in Tables /\ Malformed(rows') = Malformed(rows)
  BY <1>2, <1>4, <1>7, StoredTable
<1>9. Steady
  BY <1>4, <1>8 DEF Steady, Lost, Present
<1>10. JobGood(j, rows', did', audit', projects', dropped')
  BY <1>1, <1>6 DEF Goes, JobGood, Staged, Carries, Honest
<1>11. JobsGood'
  BY <1>1, <1>4, <1>5, <1>9, <1>10, OneMoves
<1>12. FilesGood' /\ PapersGood' /\ RowsTellTruth' /\ LoopGood' /\ LinesGood'
  BY <1>4, <1>8 DEF ConsoleInv, FilesGood, PapersGood, Declined, RowsTellTruth, LoopGood, LinesGood
<1>13. QED
  BY <1>11, <1>12 DEF ConsoleInv

(* resign.sh ends, or a process that reports.                               *)
LEMMA EndsKeep ==
  ASSUME ConsoleInv, NEW p \in Pages, NEW code \in {0, 1},
         SignEnds(p, code) \/ ReportEnds(p, code)
  PROVE  ConsoleInv'
<1>1. /\ JobsGood /\ LoopGood /\ LinesGood
      /\ JobGood(job[p], rows, did, audit, projects, dropped)
      /\ job[p].step \in {"sign", "running"}
  BY DEF ConsoleInv, JobsGood, SignEnds, ReportEnds
<1>2. job[p].cmd \in {"resign", "report"}
  BY <1>1 DEF JobGood, Staged, Idle
<1>3. PICK j : j = Moved(job[p], "exit", job[p].read, code)
  OBVIOUS
<1>4. job' = [job EXCEPT ![p] = j]
  <2>1. Fail(p, code)
    BY DEF SignEnds, ReportEnds, Fail
  <2>2. QED
    BY <1>1, <1>3, <2>1, FailMoves
<1>5. Goes(j, job[p], "exit", job[p].read, code) /\ Fields(j)
  BY <1>3, MovedPage
<1>6. JobGood(j, rows, did, audit, projects, dropped)
  BY <1>2, <1>5 DEF Goes, JobGood, Staged, Carries, Honest
<1>7. LinesGood' /\ UNCHANGED <<orphans, files, audit, history>>
  BY <1>1 DEF LinesGood, lines, SignEnds, ReportEnds
<1>8. LoopGood'
  <2>1. CASE SignEnds(p, code)
    BY <2>1 DEF SignEnds, LoopGood
  <2>2. CASE ReportEnds(p, code)
    <3>1. job[p].cmd = "report"
      BY <1>1, <2>2 DEF ReportEnds, JobGood, Staged, Idle
    <3>2. QED
      BY <1>1, <1>4, <2>2, <3>1, LoopKept DEF ReportEnds, InLoop
  <2>3. QED
    BY <2>1, <2>2
<1>9. QED
  BY <1>4, <1>6, <1>7, <1>8, OnlyMoves

-----------------------------------------------------------------------------
(* THE CONNECTIONS                                                          *)

(* Pages come, send and go; frames are turned down; time passes.            *)
LEMMA LinesKeep ==
  ASSUME ConsoleInv, NEW p \in Pages,
         \/ Open(p) \/ GiveUp(p) \/ Refuse(p) \/ Close(p)
         \/ \E token \in {"none", "right", "wrong"} : Greet(p, token)
         \/ \E f \in Frame : Send(p, f)
         \/ ServeFromFiles(p) \/ TurnDown(p) \/ Break(p)
  PROVE  ConsoleInv'
<1>1. LinesGood
  BY DEF ConsoleInv
<1>2. CASE Open(p) \/ GiveUp(p) \/ Refuse(p) \/ Close(p) \/ Break(p)
  <2>1. LinesGood'
    <3>1. CASE Open(p)
      <4>1. [conn[p] EXCEPT !.at = "asked"] \in [at : {"off", "asked", "on"}, rw : BOOLEAN]
        BY <1>1 DEF LinesGood
      <4>2. conn' = [conn EXCEPT ![p] = [conn[p] EXCEPT !.at = "asked"]] /\ inbox' = inbox
        BY <1>1, <3>1 DEF LinesGood, Open
      <4>3. QED
        BY <1>1, <4>1, <4>2 DEF LinesGood
    <3>2. CASE ~Open(p)
      <4>1. Off \in [at : {"off", "asked", "on"}, rw : BOOLEAN]
        BY DEF Off
      <4>2. /\ conn' = [conn EXCEPT ![p] = Off]
            /\ inbox' = inbox \/ inbox' = [inbox EXCEPT ![p] = <<>>]
        BY <1>2, <3>2 DEF GiveUp, Refuse, Close, Break
      <4>3. conn' \in [Pages -> [at : {"off", "asked", "on"}, rw : BOOLEAN]]
        BY <1>1, <4>1, <4>2 DEF LinesGood
      <4>4. <<>> \in Seq(Frame)
        OBVIOUS
      <4>5. inbox' \in [Pages -> Seq(Frame)]
        BY <1>1, <4>2, <4>4 DEF LinesGood
      <4>6. QED
        BY <4>3, <4>5 DEF LinesGood
    <3>3. QED
      BY <3>1, <3>2
  <2>2. QED
    BY <1>2, <2>1, OnlyLines DEF Open, GiveUp, Refuse, Close, Break
<1>3. ASSUME NEW token \in {"none", "right", "wrong"}, Greet(p, token) PROVE ConsoleInv'
  <2>1. LinesGood'
    BY <1>1, <1>3 DEF LinesGood, Greet, MayWrite
  <2>2. QED
    BY <1>3, <2>1, OnlyLines DEF Greet
<1>4. ASSUME NEW f \in Frame, Send(p, f) PROVE ConsoleInv'
  <2>1. LinesGood'
    BY <1>1, <1>4 DEF LinesGood, Send
  <2>2. QED
    BY <1>4, <2>1, OnlyLines DEF Send
<1>5. CASE ServeFromFiles(p) \/ TurnDown(p)
  <2>1. Take(p) /\ conn' = conn /\ UNCHANGED <<job, loop, oks>>
    BY <1>5 DEF ServeFromFiles, TurnDown
  <2>2. LinesGood'
    BY <1>1, <2>1, InboxKept
  <2>3. QED
    BY <2>1, <2>2, OnlyLines DEF Take, history
<1>6. QED
  BY <1>2, <1>3, <1>4, <1>5

(* Midnight and all other time.                                             *)
LEMMA TickKeeps ==
  ASSUME ConsoleInv, Tick
  PROVE  ConsoleInv'
<1>1. LinesGood'
  BY DEF ConsoleInv, LinesGood, Tick, lines
<1>2. QED
  BY <1>1, OnlyLines DEF Tick

-----------------------------------------------------------------------------
(* THEOREMS                                                                 *)

(* Every behaviour of bridge, scripts, children of killed scripts and       *)
(* sessions keeps the invariant.                                           *)
THEOREM ConsoleInvariant == Spec => []ConsoleInv
<1>1. Init => ConsoleInv
  <2> SUFFICES ASSUME Init PROVE ConsoleInv
    OBVIOUS
  <2>1. LoopGood /\ LinesGood
    BY DEF Init, LoopGood, LinesGood, Off
  <2>2. rows \in Tables /\ \A s \in Slugs : s \in drafts <=> rows[s].status # "active"
    BY DEF Init, Tables, Row
  <2>3. notices \in Seq(Notice) /\ Len(notices) <= MaxNotices
    <3>1. CASE notices = <<>>
      BY <3>1, ConsoleAssumption
    <3>2. CASE \E s \in projects : notices = <<[slug |-> s, kind |-> "other", done |-> FALSE]>>
      <4>1. PICK s \in projects : notices = <<[slug |-> s, kind |-> "other", done |-> FALSE]>>
        BY <3>2
      <4>2. [slug |-> s, kind |-> "other", done |-> FALSE] \in Notice
        BY <4>1 DEF Init, Notice
      <4>3. QED
        BY <4>1, <4>2, ConsoleAssumption
    <3>3. QED
      BY <3>1, <3>2 DEF Init
  <2>4. FilesGood
    BY <2>2, <2>3 DEF Init, FilesGood
  <2>5. PapersGood
    BY <2>2 DEF Init, PapersGood, Declined, Malformed
  <2>6. JobGood(Idle, rows, did, audit, projects, dropped)
    BY DEF JobGood, Fields, Staged, Carries, Honest, Idle, ReadWrite, InLoop, ByScript
  <2>7. JobsGood
    BY <2>6 DEF Init, JobsGood
  <2>8. RowsTellTruth
    BY DEF Init, RowsTellTruth
  <2>9. QED
    BY <2>1, <2>4, <2>5, <2>7, <2>8 DEF ConsoleInv
<1>2. ConsoleInv /\ [Next]_vars => ConsoleInv'
  <2> SUFFICES ASSUME ConsoleInv, [Next]_vars PROVE ConsoleInv'
    OBVIOUS
  <2>1. CASE UNCHANGED vars
    <3>1. LinesGood' /\ UNCHANGED <<job, loop, orphans, files, audit, history>>
      BY <2>1 DEF ConsoleInv, LinesGood, vars, lines
    <3>2. QED
      BY <3>1, OnlyLines
  <2>2. ASSUME NEW p \in Pages,
               \/ Open(p) \/ GiveUp(p) \/ Refuse(p) \/ Close(p)
               \/ \E token \in {"none", "right", "wrong"} : Greet(p, token)
               \/ \E f \in Frame : Send(p, f)
        PROVE  ConsoleInv'
    BY <2>2, LinesKeep
  <2>3. ASSUME NEW p \in Pages, \E says \in {"yes", "no", "eof"} : Confirm(p, says)
        PROVE  ConsoleInv'
    BY <2>3, ConfirmKeeps
  <2>4. ASSUME NEW p \in Pages, Loop(p) PROVE ConsoleInv'
    BY <2>4, LinesKeep, StartsKeep, AnswerKeeps, ArchiveLoadKeeps, ArchiveStoreKeeps, EndsKeep
       DEF Loop
  <2>5. ASSUME NEW p \in Pages, AdminScript(p) PROVE ConsoleInv'
    BY <2>5, CheckKeeps, CopyKeeps, FindKeeps, LoadKeeps, InsertKeeps, RollbackKeeps, StoreKeeps,
       RemoveDraftKeeps, LogKeeps, LoadNoticesKeeps, StoreNoticesKeeps, HoldKeeps, TimeoutKeeps DEF AdminScript
  <2>6. CASE \E o \in orphans : LateStore(o)
    BY <2>6, LateStoreKeeps
  <2>7. CASE \E s \in Slugs : SessionHolds(s)
    BY <2>7, SessionHoldsKeeps
  <2>8. CASE \E i \in 1 .. MaxNotices : SessionPrunes(i)
    BY <2>8, SessionPrunesKeeps
  <2>9. CASE Tick
    BY <2>9, TickKeeps
  <2>10. QED
    BY <2>1, <2>2, <2>3, <2>4, <2>5, <2>6, <2>7, <2>8, <2>9 DEF Next
<1>3. QED
  BY <1>1, <1>2, PTL DEF Spec

(* A SUCCESS row of nightclaw-admin (audit_log), other than ADMIN_RESOLVE,  *)
(* tells of a change that was written, and a page is told ok of a pause, an *)
(* unpause or an approval only when the row is there (run_admin_command),   *)
(* for any number of pages and of scripts that are killed.                 *)
THEOREM SuccessIsTrue == Spec => []RowsTellTruth
<1>1. ConsoleInv => RowsTellTruth
  BY DEF ConsoleInv
<1>2. QED
  BY <1>1, ConsoleInvariant, PTL

(* cmd_approve loses no project whose row no other writer has dropped:      *)
(* there is its draft or its LONGRUNNER, or the owner has declined it,      *)
(* through every interleaving of approvals, declines and kills.            *)
THEOREM DraftsAreKept == Spec => []DraftKept
<1>1. ConsoleInv => DraftKept
  BY DEF ConsoleInv, PapersGood, Declined, DraftKept
<1>2. QED
  BY <1>1, ConsoleInvariant, PTL

-----------------------------------------------------------------------------
(* WRONG TOKENS                                                             *)

Stamps == Seq(0 .. MaxClock)

(* The failures that the bridge keeps are the last of those that there      *)
(* were; of these, the one that is MaxTries before the end lies outside the *)
(* window already.                                                         *)
Kept == IF Len(tried) > 2 * MaxTries THEN 2 * MaxTries ELSE Len(tried)

TriesInv ==
    /\ now \in 0 .. MaxClock /\ tried \in Stamps /\ fails \in Stamps
    /\ Len(fails) = Kept
    /\ \A i \in 1 .. Kept : fails[i] = tried[Len(tried) - Kept + i]
    /\ \A i \in 1 .. Len(tried) : tried[i] <= now
    /\ \A i, j \in 1 .. Len(tried) : i <= j => tried[i] <= tried[j]
    /\ \A i \in 1 .. Len(tried) : i + MaxTries <= Len(tried) => now - tried[i] >= Window

(* The times of a list that lie in the window are few if the early ones do  *)
(* not, and many if the late ones do.                                      *)
LEMMA RecentBounds ==
  ASSUME NEW ts \in Stamps, NEW n \in Nat
  PROVE  /\ (\A i \in 1 .. Len(ts) : i + n <= Len(ts) => now - ts[i] >= Window)
               /\ now \in 0 .. MaxClock
            => Recent(ts) <= n
         /\ n <= Len(ts) /\ (\A i \in 1 .. Len(ts) : i + n > Len(ts) => now - ts[i] < Window)
            => Recent(ts) >= n
<1> DEFINE recent == {i \in DOMAIN ts : now - ts[i] < Window}
           late == Len(ts) - n + 1 .. Len(ts)
<1>1. Len(ts) \in Nat /\ DOMAIN ts = 1 .. Len(ts)
  BY DEF Stamps
<1>2. /\ IsFiniteSet(late)
      /\ Cardinality(late) = IF Len(ts) - n + 1 > Len(ts) THEN 0 ELSE Len(ts) - (Len(ts) - n + 1) + 1
  <2>1. Len(ts) - n + 1 \in Int /\ Len(ts) \in Int
    BY <1>1
  <2> HIDE DEF late
  <2>2. \A a, b \in Int : /\ IsFiniteSet(a .. b)
                         /\ Cardinality(a .. b) = IF a > b THEN 0 ELSE b - a + 1
    BY FS_Interval
  <2>3. QED
    BY <2>1, <2>2 DEF late
<1>3. Cardinality(late) = n
  BY <1>1, <1>2
<1>4. IsFiniteSet(recent)
  <2>1. IsFiniteSet(1 .. Len(ts))
    BY <1>1, FS_Interval
  <2>2. recent \subseteq 1 .. Len(ts)
    BY <1>1
  <2>3. QED
    BY <2>1, <2>2, FS_Subset
<1>5. ASSUME \A i \in 1 .. Len(ts) : i + n <= Len(ts) => now - ts[i] >= Window,
             now \in 0 .. MaxClock
      PROVE  Recent(ts) <= n
  <2>1. recent \subseteq late
    <3>1. ASSUME NEW i \in recent PROVE i \in late
      <4>0. i \in 1 .. Len(ts) /\ now - ts[i] < Window
        BY <1>1, <3>1
      <4>1. ts[i] \in 0 .. MaxClock
        BY <1>1, <4>0, ConsoleAssumption DEF Stamps
      <4>2. ~(i + n <= Len(ts))
        BY <1>5, <4>0, <4>1, ConsoleAssumption
      <4>3. QED
        BY <1>1, <4>0, <4>2
    <3>2. QED
      BY <3>1
  <2>2. Cardinality(recent) <= Cardinality(late)
    BY <1>2, <2>1, FS_Subset
  <2>3. QED
    BY <1>3, <2>2 DEF Recent
<1>6. ASSUME n <= Len(ts), \A i \in 1 .. Len(ts) : i + n > Len(ts) => now - ts[i] < Window
      PROVE  Recent(ts) >= n
  <2>1. late \subseteq recent
    BY <1>1, <1>6
  <2>2. Cardinality(late) <= Cardinality(recent)
    BY <1>4, <2>1, FS_Subset
  <2>3. Cardinality(recent) \in Nat
    BY <1>4, FS_CardinalityType
  <2>4. QED
    BY <1>3, <2>2, <2>3 DEF Recent
<1>7. QED
  BY <1>5, <1>6

(* One more wrong token is compared while fewer than MaxTries of the kept   *)
(* failures lie in the window (_ws_handler).                               *)
LEMMA WrongToken ==
  ASSUME TriesInv, NEW p \in Pages, Greet(p, "wrong")
  PROVE  TriesInv'
<1>1. /\ MaxTries \in Nat /\ Window \in Nat /\ MaxClock \in Nat
      /\ now \in 0 .. MaxClock /\ tried \in Stamps /\ fails \in Stamps
      /\ Len(tried) \in Nat /\ Len(fails) = Kept /\ Kept \in Nat /\ Kept <= Len(tried)
  BY ConsoleAssumption DEF TriesInv, Kept, Stamps
<1>2. /\ Recent(fails) < MaxTries
      /\ tried' = Append(tried, now) /\ fails' = Recorded(fails) /\ now' = now
  BY DEF Greet
<1> DEFINE L == Len(tried)
           all == Append(fails, now)
<1>3. /\ tried' \in Stamps /\ Len(tried') = L + 1
      /\ \A i \in 1 .. L + 1 : tried'[i] = IF i = L + 1 THEN now ELSE tried[i]
  BY <1>1, <1>2 DEF Stamps
<1>4. /\ all \in Stamps /\ Len(all) = Kept + 1
      /\ \A i \in 1 .. Kept + 1 : all[i] = tried'[L - Kept + i]
  <2>1. all \in Stamps /\ Len(all) = Kept + 1
    BY <1>1 DEF Stamps
  <2>2. ASSUME NEW i \in 1 .. Kept + 1 PROVE all[i] = tried'[L - Kept + i]
    <3>1. CASE i = Kept + 1
      BY <1>1, <1>3, <3>1 DEF Stamps
    <3>2. CASE i # Kept + 1
      <4>1. i \in 1 .. Kept /\ L - Kept + i \in 1 .. L
        BY <1>1, <3>2
      <4>2. all[i] = fails[i]
        BY <1>1, <4>1 DEF Stamps
      <4>3. fails[i] = tried[L - Kept + i]
        BY <4>1 DEF TriesInv
      <4>4. tried'[L - Kept + i] = tried[L - Kept + i]
        BY <1>1, <1>3, <4>1
      <4>5. QED
        BY <4>2, <4>3, <4>4
    <3>3. QED
      BY <3>1, <3>2
  <2>3. QED
    BY <2>1, <2>2
<1>5. Kept' = IF L + 1 > 2 * MaxTries THEN 2 * MaxTries ELSE L + 1
  BY <1>3 DEF Kept
<1>6. /\ fails' \in Stamps /\ Len(fails') = Kept'
      /\ \A i \in 1 .. Kept' : fails'[i] = tried'[L + 1 - Kept' + i]
  <2>1. PICK m : m = 2 * MaxTries
    OBVIOUS
  <2>2. m \in Nat
    BY <1>1, <2>1
  <2>3. fails' = IF Kept + 1 > m THEN SubSeq(all, Kept + 1 - m + 1, Kept + 1) ELSE all
    <3>1. fails' = LastOf(all, m)
      BY <1>2, <2>1 DEF Recorded
    <3>2. LastOf(all, m) = IF Len(all) > m THEN SubSeq(all, Len(all) - m + 1, Len(all)) ELSE all
      BY DEF LastOf
    <3>3. Len(all) = Kept + 1
      BY <1>4
    <3> HIDE DEF all
    <3>4. QED
      BY <1>1, <2>2, <3>1, <3>2, <3>3
  <2>4. Kept = IF L > m THEN m ELSE L
    BY <2>1 DEF Kept
  <2> HIDE DEF all
  <2>5. CASE Kept + 1 > m
    <3>2. Kept + 2 - m \in 1 .. Kept + 2
      BY <1>1, <2>2, <2>4, <2>5
    <3>3. fails' = SubSeq(all, Kept + 2 - m, Kept + 1)
      BY <1>1, <2>2, <2>3, <2>5
    <3>4. /\ fails' \in Stamps /\ Len(fails') = m
          /\ \A i \in 1 .. m : fails'[i] = all[Kept + 2 - m + i - 1]
      <4>1. PICK a, b : a = Kept + 2 - m /\ b = Kept + 1
        OBVIOUS
      <4>2. a \in 1 .. b + 1 /\ b \in 0 .. Len(all) /\ b - a + 1 = m /\ a \in Int /\ b \in Nat
        BY <1>1, <1>4, <2>2, <3>2, <4>1
      <4>3. all \in Seq(0 .. MaxClock)
        BY <1>4 DEF Stamps
      <4>4. \A i \in a .. b : i \in 1 .. Len(all)
        BY <4>2, <1>4, <1>1
      <4>5. SubSeq(all, a, b) \in Seq(0 .. MaxClock) /\ Len(SubSeq(all, a, b)) = m
            /\ \A i \in 1 .. m : SubSeq(all, a, b)[i] = all[a + i - 1]
        <5>1. \A i \in a .. b : all[i] \in 0 .. MaxClock
          BY <1>1, <4>3, <4>4
        <5>2. a \in Int /\ b \in Int
          BY <4>2
        <5>3. SubSeq(all, a, b) \in Seq(0 .. MaxClock)
              /\ Len(SubSeq(all, a, b)) = (IF a <= b THEN b - a + 1 ELSE 0)
              /\ \A i \in 1 .. b - a + 1 : SubSeq(all, a, b)[i] = all[a + i - 1]
          BY <5>1, <5>2, SubSeqProperties
        <5>4. QED
          BY <4>2, <5>3, <2>2
      <4>6. QED
        BY <3>3, <4>1, <4>5 DEF Stamps
    <3>5. Kept' = m
      BY <1>1, <1>5, <2>1, <2>2, <2>4, <2>5
    <3>6. ASSUME NEW i \in 1 .. m PROVE fails'[i] = tried'[L + 1 - m + i]
      <4>1. Kept + 1 - m + i \in 1 .. Kept + 1
        BY <1>1, <2>2, <2>4, <2>5
      <4>2. all[Kept + 1 - m + i] = tried'[L - Kept + (Kept + 1 - m + i)]
        BY <1>4, <4>1
      <4>3. L - Kept + (Kept + 1 - m + i) = L + 1 - m + i
            /\ Kept + 2 - m + i - 1 = Kept + 1 - m + i
        BY <1>1, <2>2
      <4>4. QED
        BY <3>4, <4>2, <4>3
    <3>7. QED
      BY <3>4, <3>5, <3>6
  <2>6. CASE ~(Kept + 1 > m)
    <3>1. Kept = L /\ Kept' = L + 1 /\ fails' = all
      BY <1>1, <1>5, <2>1, <2>2, <2>3, <2>4, <2>6
    <3>2. QED
      BY <1>1, <1>4, <3>1
  <2>7. QED
    BY <2>5, <2>6
<1>7. \A i \in 1 .. L : tried[i] \in 0 .. MaxClock /\ tried[i] <= now
  BY <1>1 DEF TriesInv, Stamps
<1>8. /\ \A i \in 1 .. L + 1 : tried'[i] <= now
      /\ \A i, j \in 1 .. L + 1 : i <= j => tried'[i] <= tried'[j]
  <2>1. \A i \in 1 .. L + 1 : tried'[i] <= now
    BY <1>1, <1>3, <1>7
  <2>2. ASSUME NEW i \in 1 .. L + 1, NEW j \in 1 .. L + 1, i <= j
        PROVE  tried'[i] <= tried'[j]
    <3>1. CASE j = L + 1
      BY <1>1, <1>3, <2>1, <3>1
    <3>2. CASE j # L + 1
      <4>1. i \in 1 .. L /\ j \in 1 .. L
        BY <1>1, <2>2, <3>2
      <4>2. tried[i] <= tried[j]
        BY <2>2, <4>1 DEF TriesInv
      <4>3. QED
        BY <1>1, <1>3, <4>1, <4>2
    <3>3. QED
      BY <3>1, <3>2
  <2>3. QED
    BY <2>1, <2>2
<1>9. ASSUME NEW i \in 1 .. L + 1, i + MaxTries <= L + 1
      PROVE  now - tried'[i] >= Window
  <2>1. MaxTries > 0
    <3>1. Recent(fails) \in Nat
      <4>1. IsFiniteSet(1 .. Len(fails))
        BY <1>1, FS_Interval
      <4>2. {k \in DOMAIN fails : now - fails[k] < Window} \subseteq 1 .. Len(fails)
        BY <1>1 DEF Stamps
      <4>3. QED
        BY <4>1, <4>2, FS_Subset, FS_CardinalityType DEF Recent
    <3>2. QED
      BY <1>1, <1>2, <3>1
  <2>2. i \in 1 .. L /\ tried'[i] = tried[i]
    BY <1>1, <1>3, <1>9, <2>1
  <2>3. CASE i + MaxTries <= L
    BY <2>2, <2>3 DEF TriesInv
  <2>4. CASE i + MaxTries = L + 1
    <3>1. SUFFICES ASSUME now - tried[i] < Window PROVE FALSE
      BY <1>1, <1>7, <2>2
    <3>2. MaxTries <= Kept
      BY <1>1, <2>2, <2>4 DEF Kept
    <3>3. ASSUME NEW k \in 1 .. Len(fails), k + MaxTries > Len(fails)
          PROVE  now - fails[k] < Window
      <4>1. k \in 1 .. Kept /\ L - Kept + k \in 1 .. L /\ i <= L - Kept + k
        BY <1>1, <2>2, <2>4, <3>2, <3>3
      <4>2. fails[k] = tried[L - Kept + k] /\ tried[i] <= tried[L - Kept + k]
        BY <2>2, <4>1 DEF TriesInv
      <4>3. QED
        BY SMTT(30), <1>1, <1>7, <2>2, <3>1, <4>1, <4>2
    <3>4. Recent(fails) >= MaxTries
      BY <1>1, <3>2, <3>3, RecentBounds
    <3>5. Recent(fails) \in Nat
      <4>1. IsFiniteSet(1 .. Len(fails))
        BY <1>1, FS_Interval
      <4>2. {k \in DOMAIN fails : now - fails[k] < Window} \subseteq 1 .. Len(fails)
        BY <1>1 DEF Stamps
      <4>3. QED
        BY <4>1, <4>2, FS_Subset, FS_CardinalityType DEF Recent
    <3>6. QED
      BY <1>1, <1>2, <3>4, <3>5
  <2>5. QED
    BY <1>1, <1>9, <2>2, <2>3, <2>4
<1>10. /\ now' \in 0 .. MaxClock /\ tried' \in Stamps /\ fails' \in Stamps
       /\ Len(fails') = Kept'
       /\ \A i \in 1 .. Kept' : fails'[i] = tried'[Len(tried') - Kept' + i]
  <2>1. Len(tried') = L + 1 /\ tried' \in Stamps /\ L \in Nat /\ Kept' \in Nat
    BY <1>1, <1>3, <1>5
  <2>2. \A i \in 1 .. Kept' : fails'[i] = tried'[Len(tried') - Kept' + i]
    BY <1>6, <2>1
  <2>3. QED
    BY <1>1, <1>2, <1>6, <2>1, <2>2
<1>11. \A i \in 1 .. Len(tried') : i + MaxTries <= Len(tried') => now' - tried'[i] >= Window
  BY <1>2, <1>3, <1>9
<1>12. /\ \A i \in 1 .. Len(tried') : tried'[i] <= now'
       /\ \A i, j \in 1 .. Len(tried') : i <= j => tried'[i] <= tried'[j]
  BY <1>2, <1>3, <1>8
<1>13. QED
  BY <1>10, <1>11, <1>12 DEF TriesInv

(* The list is bounded and the limit is kept through every order of pages,  *)
(* tokens and ticks.                                                       *)
THEOREM TriesInvariant == Spec => []TriesInv
<1>1. Init => TriesInv
  BY ConsoleAssumption DEF Init, TriesInv, Kept, Stamps
<1>2. TriesInv /\ [Next]_vars => TriesInv'
  <2> SUFFICES ASSUME TriesInv, [Next]_vars PROVE TriesInv'
    OBVIOUS
  <2>1. CASE UNCHANGED <<now, fails, tried>>
    BY <2>1 DEF TriesInv, Kept
  <2>2. CASE Tick
    <3>1. /\ now \in Nat /\ MaxClock \in Nat /\ now < MaxClock /\ now' = now + 1
          /\ tried \in Stamps /\ Window \in Nat /\ UNCHANGED <<fails, tried>>
      BY <2>2, ConsoleAssumption DEF Tick, TriesInv
    <3>2. \A i \in 1 .. Len(tried) : tried[i] \in 0 .. MaxClock
      BY <3>1 DEF Stamps
    <3>3. Kept' = Kept /\ now' \in 0 .. MaxClock
      BY <3>1 DEF Kept
    <3>4. \A i \in 1 .. Len(tried) :
             tried[i] <= now' /\ (i + MaxTries <= Len(tried) => now' - tried[i] >= Window)
      BY <3>1, <3>2 DEF TriesInv
    <3>5. QED
      BY <3>1, <3>3, <3>4 DEF TriesInv
  <2>3. ASSUME NEW p \in Pages, Greet(p, "wrong") PROVE TriesInv'
    BY <2>3, WrongToken
  <2>4. ASSUME NEW p \in Pages, NEW token \in {"none", "right", "wrong"}, Greet(p, token),
               token # "wrong"
        PROVE  UNCHANGED <<now, fails, tried>>
    BY <2>4 DEF Greet
  <2>5. ASSUME NEW p \in Pages,
               \/ Open(p) \/ GiveUp(p) \/ Refuse(p) \/ Close(p)
               \/ \E f \in Frame : Send(p, f)
               \/ \E says \in {"yes", "no", "eof"} : Confirm(p, says)
        PROVE  UNCHANGED <<now, fails, tried>>
    BY <2>5 DEF Open, GiveUp, Refuse, Close, Send, Confirm, auth
  <2>6. ASSUME NEW p \in Pages, Loop(p) PROVE UNCHANGED <<now, fails, tried>>
    BY <2>6 DEF Loop, ServeFromFiles, TurnDown, StartReport, Break, StartScript, StartInLoop,
       Answer, ArchiveLoad, ArchiveStore, SignEnds, ReportEnds, Take, auth
  <2>7. ASSUME NEW p \in Pages, AdminScript(p) PROVE UNCHANGED <<now, fails, tried>>
    BY <2>7 DEF AdminScript, Check, Copy, Find, Load, Insert, Rollback, Store,
       RemoveDraft, Log, Mark, LoadNotices, StoreNotices, Hold, Timeout, auth
  <2>8. ASSUME \/ \E o \in orphans : LateStore(o)
               \/ \E s \in Slugs : SessionHolds(s)
               \/ \E i \in 1 .. MaxNotices : SessionPrunes(i)
        PROVE  UNCHANGED <<now, fails, tried>>
    BY <2>8 DEF LateStore, SessionHolds, SessionPrunes, auth
  <2>9. CASE UNCHANGED vars
    BY <2>1, <2>9 DEF vars, auth
  <2>10. QED
    BY <2>1, <2>2, <2>3, <2>4, <2>5, <2>6, <2>7, <2>8, <2>9 DEF Next
<1>3. QED
  BY <1>1, <1>2, PTL DEF Spec

(* Within any window no more than _AUTH_FAIL_MAX wrong tokens are compared, *)
(* whatever pages come and go and however the list of failures is cut      *)
(* (_ws_handler).                                                          *)
THEOREM GuessesBounded == Spec => []TriesBounded
<1>1. TriesInv => TriesBounded
  BY RecentBounds, ConsoleAssumption DEF TriesInv, TriesBounded
<1>2. QED
  BY <1>1, TriesInvariant, PTL

(* Every reachable state is well typed; the list of failures stays short,   *)
(* and who has the loop is in it with a command that is served there.      *)
THEOREM TypeCorrect == Spec => []TypeOK
<1>1. ConsoleInv /\ TriesInv => TypeOK
  <2> SUFFICES ASSUME ConsoleInv, TriesInv PROVE TypeOK
    OBVIOUS
  <2>1. now \in 0 .. MaxClock /\ fails \in Seq(0 .. MaxClock) /\ Len(fails) <= 2 * MaxTries
    BY ConsoleAssumption DEF TriesInv, Kept, Stamps
  <2>2. QED
    BY <2>1 DEF ConsoleInv, LinesGood, LoopGood, FilesGood, Tables, TypeOK
<1>2. QED
  BY <1>1, ConsoleInvariant, TriesInvariant, PTL
=============================================================================
