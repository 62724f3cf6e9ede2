------------------------------ MODULE SourceLog ------------------------------
(***************************************************************************)
(* What one recorded run promises whoever replays it: a log of source      *)
(* trees, each different from the line before it, and at most one seal,    *)
(* which names the tree of the log's last line when that line can be read. *)
(* Nothing is recorded after the seal.  A line may be cut off, and the     *)
(* text of the next line then makes it unreadable.                         *)
(***************************************************************************)
EXTENDS Naturals, Sequences

CONSTANTS Tree, None, Garbled

VARIABLES
  log,      \* a tree per line, Garbled where it cannot be read
  whole,    \* does the last line end?
  sealed

Init == log = <<>> /\ whole = TRUE /\ sealed = None

Differs(tree) == log = <<>> \/ log[Len(log)] # tree

Record(tree) ==
  /\ whole /\ Differs(tree)
  /\ log' = Append(log, tree)
  /\ UNCHANGED whole

\* A line is cut off, perhaps by nothing but its end.
Cut(line) ==
  /\ whole
  /\ line = Garbled \/ Differs(line)
  /\ log' = Append(log, line)
  /\ whole' = FALSE

\* More text, cut off again or not, on a line that was cut off.
Glue ==
  /\ ~whole
  /\ log' = [log EXCEPT ![Len(log)] = Garbled]
  /\ whole' \in BOOLEAN

Seal(tree) ==
  /\ log # <<>>
  /\ whole /\ log[Len(log)] # Garbled => tree = log[Len(log)]
  /\ sealed' = tree
  /\ UNCHANGED <<log, whole>>

Next ==
  /\ sealed = None
  /\ \/ \E tree \in Tree : Seal(tree)
     \/ /\ UNCHANGED sealed
        /\ \/ \E tree \in Tree : Record(tree)
           \/ \E line \in Tree \cup {Garbled} : Cut(line)
           \/ Glue

Spec == Init /\ [][Next]_<<log, whole, sealed>>
=============================================================================
