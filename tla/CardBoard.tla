------------------------------ MODULE CardBoard ------------------------------
(***************************************************************************)
(* What the proposal store promises whoever reads it: a durable register   *)
(* per card, which changes one card at a time.  Only while the file is     *)
(* being read back, or after a failure, may a card answer less than its    *)
(* last row on file, and then an earlier row of its own, or nothing.       *)
(*                                                                         *)
(* ProposalStore implements this with a dictionary in memory, loaded       *)
(* lazily and by two threads, and an append-only file.                     *)
(***************************************************************************)
CONSTANTS
  Cards,     (* card ids                                                   *)
  Entry,     (* what a reader can be answered, NoRow included              *)
  NoRow,     (* the card is not known                                      *)
  Opening    (* rows a card may be created with                            *)

VARIABLES
  board,     (* what a reader is answered for each card                    *)
  durable,   (* what is answered for it in the end, after a crash          *)
  past,      (* what was durable of it before                              *)
  atRisk     (* cards that may answer something else than durable          *)

vars == <<board, durable, past, atRisk>>

Init ==
  /\ board \in [Cards -> Opening \cup {NoRow}]
  /\ durable = board
  /\ past = [c \in Cards |-> {NoRow}]
  /\ atRisk = {}

Keep(c) ==
  /\ durable' = [durable EXCEPT ![c] = board'[c]]
  /\ past' = [past EXCEPT ![c] = @ \cup {durable[c]}]
  /\ atRisk' \in {atRisk \cup {c}, atRisk \ {c}}

(* A card is created open; a known card may be given any other row.        *)
Put(c) ==
  /\ board' = [board EXCEPT ![c] = board'[c]]
  /\ board'[c] \in IF board[c] = NoRow THEN Opening ELSE Entry \ {NoRow}
  /\ \/ Keep(c)
     \/ atRisk' = atRisk \cup {c} /\ UNCHANGED <<durable, past>>

(* The file is about to be read back.                                      *)
Doubt ==
  /\ atRisk \subseteq atRisk' /\ atRisk' \subseteq Cards
  /\ UNCHANGED <<board, durable, past>>

(* A crash, or the file being read back over what is in memory.  A card    *)
(* that leaves the doubt answers its durable row.                          *)
SetBack ==
  /\ atRisk' \subseteq atRisk
  /\ board' = [c \in Cards |-> board'[c]]
  /\ \A c \in Cards :
       board'[c] \in CASE c \notin atRisk                -> {board[c]}
                       [] c \in atRisk /\ c \notin atRisk' -> {durable[c]}
                       [] OTHER -> past[c] \cup {durable[c], board[c]}
  /\ UNCHANGED <<durable, past>>

Next ==
  \/ Doubt
  \/ SetBack
  \/ \E c \in Cards : Put(c)

Spec == Init /\ [][Next]_vars
=============================================================================
