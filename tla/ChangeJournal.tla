---------------------------- MODULE ChangeJournal ----------------------------
(***************************************************************************)
(* What CHANGE-LOG.md promises about those who change the state files: an   *)
(* author that changes a field owes the log one row, rows are written in    *)
(* the order of the author's changes, each of them once, and an author      *)
(* reports its call as done only when it owes nothing.  Only an author that *)
(* dies leaves a change without a row.                                     *)
(*                                                                         *)
(* BundleExec implements this.                                             *)
(***************************************************************************)
EXTENDS Naturals, SequencesExt

CONSTANT Authors

VARIABLES
    rows,      \* rows[a]: the rows a has written to CHANGE-LOG.md, in order
    owed,      \* owed[a]: the rows a still has to write
    done       \* done[a]: how many calls of a are reported done

journalVars == <<rows, owed, done>>

JournalInit ==
    /\ rows = [a \in Authors |-> <<>>]
    /\ owed = [a \in Authors |-> <<>>]
    /\ done = [a \in Authors |-> 0]

(* Any change; its row is the last of those owed afterwards.               *)
Change(a) ==
    /\ Len(owed'[a]) = Len(owed[a]) + 1
    /\ owed' = [owed EXCEPT ![a] = Append(@, Last(owed'[a]))]
    /\ UNCHANGED <<rows, done>>

Record(a) ==
    /\ owed[a] # <<>>
    /\ rows' = [rows EXCEPT ![a] = Append(@, Head(owed[a]))]
    /\ owed' = [owed EXCEPT ![a] = Tail(@)]
    /\ UNCHANGED done

ReportDone(a) ==
    /\ owed[a] = <<>>
    /\ done' = [done EXCEPT ![a] = @ + 1]
    /\ UNCHANGED <<rows, owed>>

Die(a) ==
    /\ owed[a] # <<>>
    /\ owed' = [owed EXCEPT ![a] = <<>>]
    /\ UNCHANGED <<rows, done>>

JournalNext ==
    \E a \in Authors :
        \/ Change(a)
        \/ Record(a)
        \/ ReportDone(a)
        \/ Die(a)

JournalSpec == JournalInit /\ [][JournalNext]_journalVars
=============================================================================
