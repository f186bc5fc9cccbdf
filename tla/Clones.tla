------------------------------- MODULE Clones -------------------------------
(***************************************************************************)
(* What the documentation promises of clones in several threads: each is a *)
(* value of its own.                                                       *)
(***************************************************************************)
EXTENDS Naturals, Sequences

CONSTANTS
  Thread, Null,
  Texts   (* what each thread writes.                                      *)

VARIABLES
  value,  \* the text of each thread's rope, piece by piece, or Null for none
  open    \* the threads that are editing theirs

vars == <<value, open>>

Pieces(s) == {s[i] : i \in DOMAIN s}

Init == value = [t \in Thread |-> Null] /\ open = {}

New(t) ==
  /\ value[t] = Null
  /\ \E x \in Texts[t] : value' = [value EXCEPT ![t] = <<x>>]
  /\ UNCHANGED open

\* A rope is made of all of another one, or of a part.
Part(t, u) ==
  /\ value[t] # Null /\ value[u] = Null /\ t \notin open
  /\ \E i \in 1..Len(value[t]) : \E j \in i..Len(value[t]) :
       value' = [value EXCEPT ![u] = SubSeq(value[t], i, j)]
  /\ UNCHANGED open

Open(t)  == t \notin open /\ value[t] # Null /\ open' = open \cup {t} /\ UNCHANGED value
Close(t) == t \in open /\ open' = open \ {t} /\ UNCHANGED value

\* An edit moves, drops and writes pieces: it takes none from anywhere else.
Change(t) ==
  /\ t \in open
  /\ \E x \in {value'[t]} :
       /\ x # Null /\ Pieces(x) \subseteq Pieces(value[t]) \cup Texts[t]
       /\ value' = [value EXCEPT ![t] = x]
  /\ UNCHANGED open

\* A rope is taken by value into one that is being edited.
Take(t, u) ==
  /\ t \in open /\ u \notin open /\ value[u] # Null
  /\ \E x \in {value'[t]} :
       /\ x # Null /\ Pieces(x) \subseteq Pieces(value[t]) \cup Pieces(value[u])
       /\ value' = [value EXCEPT ![t] = x, ![u] = Null]
  /\ UNCHANGED open

Drop(t) ==
  /\ t \notin open /\ value[t] # Null
  /\ value' = [value EXCEPT ![t] = Null]
  /\ UNCHANGED open

Next ==
  \E t \in Thread :
    \/ New(t) \/ Open(t) \/ Close(t) \/ Change(t) \/ Drop(t)
    \/ \E u \in Thread \ {t} : Part(t, u) \/ Take(t, u)

Spec == Init /\ [][Next]_vars
=============================================================================
