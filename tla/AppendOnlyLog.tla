---------------------------- MODULE AppendOnlyLog ----------------------------
(***************************************************************************)
(* What the capture files promise their readers: the seconds a reader can  *)
(* rely on form, per file, a log that only ever grows, at its end, by      *)
(* later seconds.  A crash may lose a second that was never acknowledged,  *)
(* and a file may stop growing for good, but no second that counts as      *)
(* durable disappears or moves.                                            *)
(***************************************************************************)
EXTENDS Naturals, Sequences

CONSTANTS Files, Seconds    \* the capture files; the grid seconds of the day

VARIABLE log                \* the durable seconds of each file, oldest first

LogInit == log = [f \in Files |-> <<>>]

\* No second twice, none out of order.
Increasing(s) == \A i, j \in 1..Len(s) : i < j => s[i] < s[j]

\* Later seconds became durable: one, or also one that had survived a crash
\* unacknowledged.
Extends(new, old) ==
  /\ Len(old) <= Len(new)
  /\ \A i \in 1..Len(old) : new[i] = old[i]
  /\ Increasing(new)

LogNext ==
  \E new \in {log'}, old \in {log} :
    /\ new \in [Files -> Seq(Seconds)]
    /\ \A f \in Files : Extends(new[f], old[f])

LogSpec == LogInit /\ [][LogNext]_log
=============================================================================
