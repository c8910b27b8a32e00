--------------------------- MODULE ReplaceService ---------------------------
(***************************************************************************)
(* What the replacement of a file promises to those who read the path: the *)
(* content changes from one whole content to another, and only while the   *)
(* call that brings it is open.  Only a call that may copy in place can    *)
(* leave the path without content or with an incomplete one on its way.    *)
(***************************************************************************)
CONSTANTS Calls, Old, Foreign, Gone, Broken

VARIABLES
  value,   \* the content at the path
  open,    \* the calls that are in progress
  copiers  \* the calls that may copy in place

Init == value \in {Old, Gone} /\ open = {} /\ copiers \subseteq Calls

Whole == Calls \cup {Old, Foreign}

Begin(c)   == c \notin open /\ open' = open \cup {c} /\ UNCHANGED value
End(c)     == c \in open /\ open' = open \ {c} /\ UNCHANGED value
Put(c)     == c \in open /\ value' = c /\ UNCHANGED open
Spoil(c)   == c \in open \cap copiers /\ value' \in {Gone, Broken} /\ UNCHANGED open
Restore(c) == c \in open \cap copiers /\ value' \in Whole /\ UNCHANGED open
\* Another program writes the path.
Outside    == value' = Foreign /\ UNCHANGED open
\* A process ends, and a call with it; its last operation may still be seen.
Die        == open' \subseteq open /\ UNCHANGED value

Next == /\ \/ \E c \in Calls : Begin(c) \/ End(c) \/ Put(c) \/ Spoil(c) \/ Restore(c)
           \/ Outside \/ Die
        /\ UNCHANGED copiers

Spec == Init /\ [][Next]_<<value, open, copiers>>
=============================================================================
