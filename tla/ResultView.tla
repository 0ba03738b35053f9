----------------------------- MODULE ResultView -----------------------------
(***************************************************************************)
(* What the view service promises of the view of one query: the header     *)
(* (sequence and time) and the rows that are valid at its time, as a       *)
(* reader of GET /<query id> finds them, against the log of results that   *)
(* the query has published.                                                *)
(*                                                                         *)
(* The header only ever moves onto the number of a result whose effects    *)
(* are all visible.  Between two moves the rows of the result that is      *)
(* being recorded may be seen one by one, but no other row changes; and    *)
(* when the view keeps its history, not even those are seen early if the   *)
(* result is later than the header.                                        *)
(***************************************************************************)
EXTENDS Integers, Sequences

CONSTANT Keys

VARIABLES
  log,       \* the results published: records with kind, ts and writes
  start,     \* results up to this position are not in the view: it did not exist
  seq,       \* number in the header, 0 when there is no header
  ts,        \* time in the header
  exact,     \* superseded rows are kept
  contents   \* visible rows, as pairs of a key and the position of its result

vars == <<log, start, seq, ts, exact, contents>>

\* Results that empty the view.
IsReset(e) == e.kind = "reset"

Touched(e) == {e.writes[j].key : j \in DOMAIN e.writes}

\* The last of the writes of a result to a key is what it makes of that key.
Puts(e, k) ==
  \E j \in DOMAIN e.writes :
    /\ e.writes[j].key = k /\ e.writes[j].put
    /\ \A i \in j + 1 .. Len(e.writes) : e.writes[i].key # k

\* The rows after the first n results of the log.
After(n) ==
  {p \in Keys \X (start + 1 .. n) :
     /\ Puts(log[p[2]], p[1])
     /\ \A j \in p[2] + 1 .. n : ~IsReset(log[j]) /\ p[1] \notin Touched(log[j])}

\* Results carry times that do not go back, unless the view is emptied between
\* them.  Without that the newest rows may be hidden: nothing is promised.
InOrder(l) ==
  \A i, j \in DOMAIN l :
    i < j /\ l[i].kind = "change" /\ l[j].kind = "change" /\ l[j].ts < l[i].ts
      => \E r \in i .. j : IsReset(l[r])

\* A result that puts a key before it closes it: of two updates, one makes a row of
\* what the other row was.
Shifts(e) ==
  \E i, j \in DOMAIN e.writes :
    i < j /\ e.writes[i].key = e.writes[j].key /\ e.writes[i].put /\ ~e.writes[j].put

\* The logs for which something is promised.
Orderly(l) == InOrder(l) /\ \A i \in DOMAIN l : ~Shifts(l[i])

Init == /\ log = <<>> /\ start = 0 /\ seq = 0 /\ ts = 0 /\ exact = FALSE
        /\ contents = {}

\* A result is published, the view starts to listen, or its policy changes.
Outside ==
  /\ \/ log' = log
     \/ \E e \in {log'[Len(log')]} : log' = Append(log, e)
  /\ start' \in {start, Len(log)} /\ (start' # start => contents = {})
  /\ UNCHANGED <<seq, ts, contents>>

\* The header moves to a result whose effects are visible from now on.
Complete ==
  /\ seq' >= seq /\ seq' \in start + 1 .. Len(log)
  /\ contents' = After(seq')
  /\ UNCHANGED <<log, start, exact>>

\* Rows of the result at hand appear or disappear ahead of the header.  On a view
\* that keeps its history this is a result not later than the header.
Rewrite ==
  /\ seq > 0
  /\ \E n \in seq .. Len(log) :
       /\ exact => log[n].ts <= ts
       /\ \A k \in Keys \ Touched(log[n]) :
            {p \in contents' : p[1] = k} = {p \in contents : p[1] = k}
  /\ UNCHANGED <<log, start, seq, ts, exact>>

\* The view is emptied, by a result or because it is deprovisioned.
Reset == /\ seq' = 0 /\ ts' = 0 /\ contents' = {}
         /\ start' \in start .. Len(log) /\ UNCHANGED <<log, exact>>

Next == Outside \/ Complete \/ Rewrite \/ Reset \/ ~Orderly(log')

Spec == Init /\ [][Next]_vars
=============================================================================
