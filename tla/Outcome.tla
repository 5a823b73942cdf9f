------------------------------ MODULE Outcome ------------------------------
(***************************************************************************)
(* What enca -x promises about N named files (man/enca.1:769 DIAGNOSTICS): *)
(* files are taken one at a time, each is reported once, a file reported   *)
(* without trouble is whole (converted or as it was), and the exit code is *)
(* the worst of the reports.  Once there was trouble nothing is promised   *)
(* about the files that follow.                                            *)
(***************************************************************************)
EXTENDS Integers, Sequences

VARIABLES
  N,        \* number of files on the command line, fixed
  content,  \* file -> which of "original", "converted" describe it
  verdict,  \* the reports, in the order of the files
  exit      \* "running", or how the program ended

ovars == <<N, content, verdict, exit>>

Descriptions == SUBSET {"original", "converted"}
Current == Len(verdict) + 1
Trouble == \E i \in DOMAIN verdict : verdict[i] = "trouble"

Worst ==
  CASE Trouble -> "trouble"
    [] ~Trouble /\ \E i \in DOMAIN verdict : verdict[i] = "failure" -> "failure"
    [] OTHER -> "success"

Init ==
  /\ N \in Nat
  /\ content \in [1 .. N -> {d \in Descriptions : "original" \in d}]
  /\ verdict = <<>>
  /\ exit = "running"

\* Only the file being processed changes; the program may give up on it at
\* once, or be killed by its own memory error.
Work ==
  /\ Current <= N
  /\ \E d \in Descriptions : content' = [content EXCEPT ![Current] = d]
  /\ exit' \in {"running", "trouble", "aborted"}
  /\ UNCHANGED <<N, verdict>>

Whole(v) ==
  CASE v = "success" -> content[Current] # {}
    [] v = "failure" -> "original" \in content[Current]
    [] OTHER         -> TRUE

Report ==
  /\ Current <= N
  /\ \E v \in {"success", "failure", "trouble"} :
       /\ Trouble \/ Whole(v)
       /\ verdict' = Append(verdict, v)
  /\ UNCHANGED <<N, content, exit>>

Finish == Current = N + 1 /\ exit' = Worst /\ UNCHANGED <<N, content, verdict>>

Next == exit = "running" /\ (Work \/ Report \/ Finish)

Spec == Init /\ [][Next]_ovars
=============================================================================
